--------------------------- MODULE CheckoutProofs ----------------------------
(***************************************************************************)
(* What a customer is booked on, proved for any numbers of dates, places,  *)
(* policies, documents, quotes and changes: the three properties the run   *)
(* of Checkout checks.                                                     *)
(***************************************************************************)
EXTENDS Checkout, WellFoundedInduction, TLAPS

-----------------------------------------------------------------------------
(* The inductive invariant *)

TextIn(e) == [quote |-> e.quote, policy |-> e.policy, place |-> e.place]

\* The text last put is that of the offer; the customer's last message showed it or
\* she has started over; and the acceptance is of the terms she agreed to.
Agreed ==
    /\ flow.text # Nothing => flow.offer # Nothing /\ flow.text = TextIn(flow.offer)
    /\ flow.text = Nothing => flow.accepted = Nothing
    /\ shown.kind = "terms" => flow.text \in {Nothing, shown.text}
    /\ flow.accepted # Nothing => consent = TextIn(flow.accepted)

\* A booking has the quote it was made of or, since it was changed, one that is
\* never the state's.
Sourced ==
    \A b \in Quotes : booking[b] # Nothing =>
        /\ quote[booking[b].quote] # Nothing
        /\ booking[b].quote # b => booking[b].quote # current
        /\ booking[b].quote = b => booking[b].slot = quote[b].slot

\* A change in the ledger started from a version its booking has left.
Left == \A k \in ledger : k.tool = "change" =>
            booking[k.of] # Nothing /\ k.salt < booking[k.of].version

Answered == told # Nothing => booking[told.of] # Nothing /\ ChangedAsTold

IInv == TypeOK /\ Agreed /\ Sourced /\ Left /\ Answered

-----------------------------------------------------------------------------
(* Lemmas *)

LEMMA NextIsSpare == ASSUME Spare # {} PROVE NextQuote \in Quotes /\ quote[NextQuote] = Nothing
<1>1. Spare \subseteq Nat
  BY CheckoutAssumption DEF Spare, Quotes
<1>2. PICK q \in Spare : \A p \in Spare : ~(<<p, q>> \in OpToRel(<, Nat))
  BY <1>1, NatLessThanWellFounded, WFMin
<1>3. \A p \in Spare : q <= p
  <2> SUFFICES ASSUME NEW p \in Spare, p < q PROVE FALSE
    BY <1>1
  <2>1. <<p, q>> \in {ss \in Nat \X Nat : ss[1] < ss[2]}
    BY <1>1
  <2>2. <<p, q>> \in OpToRel(<, Nat)
    BY <2>1, Zenon DEF OpToRel
  <2> QED
    BY <1>2, <2>2
<1> QED
  BY <1>3 DEF NextQuote, Spare

LEMMA Start == Init => IInv
<1> SUFFICES ASSUME Init PROVE IInv
  OBVIOUS
<1>1. TypeOK
  BY CheckoutAssumption DEF Init, TypeOK, NewFlow, Flow, Document, Messages, Shown, Other
<1> QED
  BY <1>1 DEF Init, IInv, Agreed, Sourced, Left, Answered, NewFlow, Other

LEMMA Fresh ==
  ASSUME IInv, NEW slot \in Slots, NEW place \in Places \cup {Unsaid}, Spare # {},
         quote' = [quote EXCEPT ![NextQuote] = [slot |-> slot, place |-> place, expired |-> FALSE]]
  PROVE  /\ NextQuote \in Quotes /\ quote[NextQuote] = Nothing
         /\ quote' \in [Quotes -> Quote \cup {Nothing}]
         /\ \A q \in Quotes : quote[q] # Nothing => quote'[q] = quote[q]
         /\ quote'[NextQuote] # Nothing
<1>1. [slot |-> slot, place |-> place, expired |-> FALSE] \in Quote
  BY DEF Quote
<1> QED
  BY <1>1, NextIsSpare, NothingAssumption DEF IInv, TypeOK

LEMMA ReadyMeansAgreed ==
  ASSUME IInv, NEW q \in Quotes, Ready(q)
  PROVE  /\ consent = [quote |-> q, policy |-> policy, place |-> quote[q].place]
         /\ Passed # {}
<1>1. flow.accepted # Nothing /\ flow.accepted.quote = q /\ flow.accepted.policy = policy
      /\ flow.accepted.place = flow.place /\ flow.place = quote[q].place
  <2>1. EvidenceOf(q) \in Evidence
    BY DEF Ready, Eligible, EvidenceOf, Evidence, IInv, TypeOK, Flow, Passed
  <2> QED
    BY <2>1, NothingAssumption DEF Ready, Eligible, EvidenceOf
<1> QED
  BY <1>1 DEF Ready, Eligible, IInv, Agreed, TextIn

LEMMA QuotesAreNumbers == Quotes \subseteq Nat \ {0}
  BY CheckoutAssumption DEF Quotes

LEMMA BookingTyped ==
  ASSUME IInv, NEW b \in Quotes, booking[b] # Nothing
  PROVE  /\ booking[b] \in Booking /\ booking[b].quote \in Quotes \ {0}
         /\ booking[b].slot \in Slots /\ booking[b].version \in 0 .. MaxVersion
         /\ quote[b] # Nothing
  BY QuotesAreNumbers DEF IInv, TypeOK, Booking

LEMMA Hears == ASSUME IInv, NEW m \in Messages, Observe(m) PROVE IInv'
<1>1. flow' \in Flow
  <2>1. CASE StartsOver(m)
    <3>1. flow' = NewFlow
      BY <2>1 DEF Observe
    <3> QED
      BY <3>1 DEF NewFlow, Flow
  <2>2. CASE ~StartsOver(m)
    <3>1. m.kind = "place" => m.place \in Places
      BY DEF Messages
    <3> DEFINE requested == m.kind = "proceed" \/ (flow.requested /\ ~Defers(m))
               adult == m.kind = "adult" \/ (flow.adult /\ m.kind # "minor")
               place == IF m.kind = "place" THEN m.place ELSE flow.place
               accepted == IF Accepts(m) THEN flow.offer ELSE IF Defers(m) THEN Nothing
                           ELSE flow.accepted
    <3>2. flow' = [flow EXCEPT !.requested = requested, !.adult = adult, !.place = place,
                               !.accepted = accepted]
      BY <2>2 DEF Observe, Said
    <3>3. requested \in BOOLEAN /\ adult \in BOOLEAN
      BY DEF IInv, TypeOK, Flow
    <3>4. place \in Places \cup {Unsaid} /\ accepted \in Evidence \cup {Nothing}
      BY <3>1 DEF IInv, TypeOK, Flow
    <3> HIDE DEF requested, adult, place, accepted
    <3> QED
      BY <3>2, <3>3, <3>4 DEF IInv, TypeOK, Flow
  <2> QED
    BY <2>1, <2>2
<1>2. wish' \in Slots \cup {Unsaid}
  <2>1. m.kind \in {"slot", "change"} => m.slot \in Slots
    BY DEF Messages
  <2> QED
    BY <2>1 DEF IInv, TypeOK, Observe, StartsOver
<1>3. consent' \in Terms \cup {Nothing}
  BY DEF IInv, TypeOK, Observe, Shown
<1>4. TypeOK'
  BY <1>1, <1>2, <1>3 DEF IInv, TypeOK, Observe, rows
<1>5. Agreed'
  <2>1. CASE StartsOver(m)
    BY <2>1 DEF IInv, Agreed, Observe, StartsOver, Defers, NewFlow
  <2>2. CASE ~StartsOver(m)
    <3>1. flow' = Said(m) /\ shown' = shown
      BY <2>2 DEF Observe
    <3>2. flow'.text = flow.text /\ flow'.offer = flow.offer
      BY <3>1 DEF Said, IInv, TypeOK, Flow
    <3>3. CASE Accepts(m)
      <4>1. flow'.accepted = flow.offer /\ consent' = flow.text
        BY <2>2, <3>1, <3>3 DEF Said, Accepts, Defers, Observe, IInv, TypeOK, Flow
      <4> QED
        BY <3>1, <3>2, <3>3, <4>1 DEF Accepts, IInv, Agreed, TextIn
    <3>4. CASE Defers(m)
      <4>1. flow'.accepted = Nothing
        BY <3>1, <3>4 DEF Said, Accepts, Defers, IInv, TypeOK, Flow
      <4> QED
        BY <3>1, <3>2, <4>1 DEF IInv, Agreed, TextIn
    <3>5. CASE ~Accepts(m) /\ ~Defers(m)
      <4>1. flow'.accepted = flow.accepted
        BY <3>1, <3>5 DEF Said, IInv, TypeOK, Flow
      <4>2. CASE m.kind = "accept" /\ shown.kind = "terms"
        <5>1. shown = [kind |-> "terms", text |-> shown.text]
          BY <4>2 DEF IInv, TypeOK, Shown
        <5>2. flow.text = Nothing
          BY <3>5, <4>2, <5>1 DEF Accepts, IInv, Agreed
        <5> QED
          BY <3>1, <3>2, <4>1, <5>2 DEF IInv, Agreed
      <4>3. CASE ~(m.kind = "accept" /\ shown.kind = "terms")
        <5>1. consent' = consent
          BY <2>2, <3>5, <4>3 DEF Observe
        <5> QED
          BY <3>1, <3>2, <4>1, <5>1 DEF IInv, Agreed, TextIn
      <4> QED
        BY <4>2, <4>3
    <3> QED
      BY <3>3, <3>4, <3>5
  <2> QED
    BY <2>1, <2>2
<1>6. Sourced'
  BY BookingTyped DEF IInv, Sourced, Observe, rows
<1>7. Left' /\ Answered'
  BY DEF IInv, Left, Answered, ChangedAsTold, Observe, rows
<1> QED
  BY <1>4, <1>5, <1>6, <1>7 DEF IInv

\* What moves only the turn, the reply, a document or the policy.
LEMMA Quiet ==
  ASSUME IInv, UNCHANGED <<state, quote, booking, ledger, consent>>,
         document' \in [Documents -> Document], policy' \in Policies,
         pc' \in {"idle", "observed", "model", "guarded"}, said' \in Messages,
         shown' \in {shown, Other}, told' \in {told, Nothing}
  PROVE  IInv'
<1>1. TypeOK'
  BY DEF IInv, TypeOK, state, Shown, Other
<1>2. Agreed'
  BY DEF IInv, Agreed, state, TextIn, Other
<1>3. Sourced' /\ Left' /\ Answered'
  BY DEF IInv, Sourced, Left, Answered, ChangedAsTold, state
<1> QED
  BY <1>1, <1>2, <1>3 DEF IInv

\* A reply ends the turn.
LEMMA OtherIsMessage == Other \in Messages
  BY DEF Other, Messages

LEMMA QuietSteps ==
  ASSUME IInv,
         \/ FlowAsks \/ FlowCannotQuote \/ FlowCannotBook \/ AskModel \/ GuardReply
         \/ \E d \in Documents, readable \in BOOLEAN : Attach(d, readable)
         \/ \E d \in Documents : Purge(d)
         \/ \E p \in Policies : PolicyChanges(p)
  PROVE  IInv'
<1> USE OtherIsMessage
<1>1. CASE FlowAsks \/ FlowCannotQuote \/ FlowCannotBook \/ AskModel \/ GuardReply
  <2>1. /\ UNCHANGED <<state, quote, booking, ledger, consent, document, policy>>
        /\ pc' \in {"idle", "observed", "model", "guarded"} /\ said' \in {said, Other}
        /\ shown' \in {shown, Other} /\ told' \in {told, Nothing}
    BY <1>1 DEF FlowAsks, FlowCannotQuote, FlowCannotBook, AskModel, GuardReply, Reply, Goto, rows
  <2> QED
    BY <2>1, Quiet DEF IInv, TypeOK
<1>2. ASSUME NEW d \in Documents, NEW readable \in BOOLEAN, Attach(d, readable) PROVE IInv'
  <2>1. document' \in [Documents -> Document]
    BY <1>2 DEF Attach, Checked, IInv, TypeOK, Document
  <2> QED
    BY <1>2, <2>1, Quiet DEF Attach, IInv, TypeOK
<1>3. ASSUME NEW d \in Documents, Purge(d) PROVE IInv'
  <2>1. document' \in [Documents -> Document]
    BY <1>3 DEF Purge, IInv, TypeOK, Document
  <2> QED
    BY <1>3, <2>1, Quiet DEF Purge, IInv, TypeOK
<1>4. ASSUME NEW p \in Policies, PolicyChanges(p) PROVE IInv'
  BY <1>4, Quiet DEF PolicyChanges, rows, IInv, TypeOK
<1> QED
  BY <1>1, <1>2, <1>3, <1>4

\* A quote that is made is nobody's yet.
LEMMA QuoteMade ==
  ASSUME IInv, NEW slot \in Slots, NEW place \in Places \cup {Unsaid}, MakeQuote(slot, place),
         ledger' = ledger \/ ledger' = ledger \cup {[tool |-> "quote", slot |-> slot, place |-> place]},
         UNCHANGED <<flow, wish, booked, booking, document, policy, pc, said, told, shown, consent>>
  PROVE  IInv'
<1>1. /\ NextQuote \in Quotes /\ quote[NextQuote] = Nothing
      /\ quote' \in [Quotes -> Quote \cup {Nothing}]
      /\ \A q \in Quotes : quote[q] # Nothing => quote'[q] = quote[q]
      /\ quote'[NextQuote] # Nothing /\ current' = NextQuote
  BY Fresh DEF MakeQuote
<1>2. ledger' \subseteq Keys
  BY DEF Keys, IInv, TypeOK
<1>3. TypeOK'
  BY <1>1, <1>2 DEF IInv, TypeOK
<1>4. Agreed'
  BY DEF IInv, Agreed, TextIn
<1>5. Sourced'
  BY <1>1, BookingTyped DEF IInv, Sourced
<1>6. Left' /\ Answered'
  BY DEF IInv, Left, Answered, ChangedAsTold
<1> QED
  BY <1>3, <1>4, <1>5, <1>6 DEF IInv

LEMMA QuoteSteps ==
  ASSUME IInv, FlowQuotes \/ \E p \in Places \cup {Unsaid} : ModelQuote(p)
  PROVE  IInv'
<1>1. CASE FlowQuotes
  BY <1>1, QuoteMade DEF FlowQuotes, IInv, TypeOK, Flow
<1>2. ASSUME NEW p \in Places \cup {Unsaid}, ModelQuote(p) PROVE IInv'
  <2>1. CASE [tool |-> "quote", slot |-> wish, place |-> p] \in ledger
    <3>1. UNCHANGED vars
      BY <1>2, <2>1 DEF ModelQuote, vars, state, rows
    <3> QED
      BY <3>1, Quiet DEF vars, state, rows, IInv, TypeOK
  <2>2. CASE [tool |-> "quote", slot |-> wish, place |-> p] \notin ledger
    BY <1>2, <2>2, QuoteMade DEF ModelQuote, IInv, TypeOK
  <2> QED
    BY <2>1, <2>2
<1> QED
  BY <1>1, <1>2

LEMMA Expires == ASSUME IInv, NEW q \in Quotes, QuoteExpires(q) PROVE IInv'
<1>1. /\ quote' \in [Quotes -> Quote \cup {Nothing}]
      /\ \A p \in Quotes : quote[p] # Nothing => quote'[p] # Nothing /\ quote'[p].slot = quote[p].slot
  BY NothingAssumption DEF QuoteExpires, IInv, TypeOK, Quote
<1>2. TypeOK'
  BY <1>1 DEF QuoteExpires, state, IInv, TypeOK
<1>3. Agreed'
  BY DEF QuoteExpires, state, IInv, Agreed, TextIn
<1>4. Sourced'
  BY <1>1, BookingTyped DEF QuoteExpires, state, IInv, Sourced
<1>5. Left' /\ Answered'
  BY DEF QuoteExpires, state, IInv, Left, Answered, ChangedAsTold
<1> QED
  BY <1>2, <1>3, <1>4, <1>5 DEF IInv

\* A booking starts as its quote says.
LEMMA BookingMade ==
  ASSUME IInv, NEW q \in Quotes, quote[q] # Nothing,
         \/ Cached(q) /\ UNCHANGED <<booking, booked>>
         \/ ~Cached(q) /\ Book(q),
         UNCHANGED <<flow, wish, current, quote, ledger, document, policy, consent>>,
         pc' \in {"idle", "model"}, said' \in {said, Other},
         shown' \in {shown, Other}, told' \in {told, Nothing}
  PROVE  IInv'
<1> USE OtherIsMessage
<1>1. CASE UNCHANGED <<booking, booked>>
  BY <1>1, Quiet DEF state, IInv, TypeOK
<1>2. CASE booking[q] = Nothing /\ Book(q)
  <2> DEFINE new == [status |-> "confirmed", slot |-> quote[q].slot, quote |-> q,
                     delivery |-> Unsaid, version |-> 0]
  <2>1. new \in Booking /\ new # Nothing
    <3>1. quote[q].slot \in Slots
      BY DEF IInv, TypeOK, Quote
    <3> QED
      BY <3>1, NothingAssumption, CheckoutAssumption DEF Booking
  <2>2. /\ booking' \in [Quotes -> Booking \cup {Nothing}] /\ booking'[q] = new /\ booked' = q
        /\ \A b \in Quotes \ {q} : booking'[b] = booking[b]
    BY <1>2, <2>1 DEF Book, IInv, TypeOK
  <2>3. TypeOK'
    BY <2>1, <2>2 DEF IInv, TypeOK, Shown, Other
  <2>4. Agreed'
    BY DEF IInv, Agreed, TextIn, Other
  <2>5. Sourced'
    BY <2>1, <2>2, BookingTyped DEF IInv, Sourced
  <2>6. Left'
    <3> SUFFICES ASSUME NEW k \in ledger, k.tool = "change"
                 PROVE booking'[k.of] # Nothing /\ k.salt < booking'[k.of].version
      BY DEF Left
    <3>1. k.of \in Quotes
      BY DEF IInv, TypeOK, Keys
    <3> QED
      BY <1>2, <2>2, <3>1 DEF IInv, Left
  <2>7. Answered'
    <3>1. told # Nothing => told.of \in Quotes
      BY DEF IInv, TypeOK
    <3> QED
      BY <1>2, <2>2, <3>1 DEF IInv, Answered, ChangedAsTold
  <2> QED
    BY <2>3, <2>4, <2>5, <2>6, <2>7 DEF IInv
<1> QED
  BY <1>1, <1>2 DEF Cached

LEMMA BookSteps ==
  ASSUME IInv, FlowBooks \/ \E q \in Quotes : ModelReserve(q)
  PROVE  IInv'
<1>1. CASE FlowBooks
  <2>1. current \in Quotes /\ quote[current] # Nothing
    BY <1>1 DEF FlowBooks, Stale, IInv, TypeOK
  <2> QED
    BY <1>1, <2>1, BookingMade DEF FlowBooks, Reply, Goto
<1>2. ASSUME NEW q \in Quotes, ModelReserve(q) PROVE IInv'
  BY <1>2, BookingMade DEF ModelReserve, Calling
<1> QED
  BY <1>1, <1>2

LEMMA Offers == ASSUME IInv, FlowOffers PROVE IInv'
<1>1. current \in Quotes
  BY DEF FlowOffers, Stale, IInv, TypeOK
<1>2. EvidenceOf(current) \in Evidence /\ TextOf(current) \in Terms
  BY <1>1 DEF FlowOffers, Eligible, EvidenceOf, Evidence, TextOf, Terms, Passed, IInv, TypeOK, Flow
<1>3. /\ flow' \in Flow /\ flow'.offer = EvidenceOf(current) /\ flow'.text = TextOf(current)
      /\ flow'.accepted = flow.accepted
  BY <1>2 DEF FlowOffers, IInv, TypeOK, Flow
<1>4. shown' = [kind |-> "terms", text |-> TextOf(current)]
  BY DEF FlowOffers, Reply
<1>5. TypeOK'
  BY <1>2, <1>3, <1>4, OtherIsMessage DEF FlowOffers, Reply, Goto, rows, Shown, IInv, TypeOK
<1>6. Agreed'
  BY <1>2, <1>3, <1>4, NothingAssumption
     DEF FlowOffers, IInv, Agreed, TextIn, TextOf, EvidenceOf
<1>7. Sourced' /\ Left' /\ Answered'
  BY DEF FlowOffers, Reply, rows, IInv, Sourced, Left, Answered, ChangedAsTold
<1> QED
  BY <1>5, <1>6, <1>7 DEF IInv

\* A booking keeps its quote and its dates when it is cancelled, a link is asked for or
\* its delivery is planned.
LEMMA DatesKept ==
  ASSUME IInv, NEW b \in Quotes, booking[b] # Nothing, NEW new \in Booking,
         new.quote = booking[b].quote, new.slot = booking[b].slot,
         new.version = booking[b].version + 1,
         booking' = [booking EXCEPT ![b] = new],
         booked' = 0 \/ (booked' = booked /\ new.status = booking[b].status),
         UNCHANGED <<flow, wish, current, quote, ledger, document, policy, pc, said, told, shown, consent>>
  PROVE  IInv'
<1>1. /\ booking'[b] = new /\ booking'[b] # Nothing
      /\ \A q \in Quotes \ {b} : booking'[q] = booking[q]
      /\ booking' \in [Quotes -> Booking \cup {Nothing}]
  BY NothingAssumption DEF IInv, TypeOK
<1>2. TypeOK'
  BY <1>1 DEF IInv, TypeOK
<1>3. Agreed'
  BY DEF IInv, Agreed, TextIn
<1>4. Sourced'
  BY <1>1 DEF IInv, Sourced
<1>5. Left'
  <2> SUFFICES ASSUME NEW k \in ledger, k.tool = "change"
               PROVE booking'[k.of] # Nothing /\ k.salt < booking'[k.of].version
    BY DEF Left
  <2>1. k.of \in Quotes /\ k.salt \in Nat
    BY CheckoutAssumption DEF IInv, TypeOK, Keys
  <2>2. booking[b].version \in Nat
    BY BookingTyped, CheckoutAssumption
  <2>3. booking[k.of] # Nothing /\ k.salt < booking[k.of].version
    BY DEF IInv, Left
  <2>4. CASE k.of = b
    BY <1>1, <2>1, <2>2, <2>3, <2>4
  <2>5. CASE k.of # b
    BY <1>1, <2>1, <2>3, <2>5
  <2> QED
    BY <2>4, <2>5
<1>6. Answered'
  <2>1. told # Nothing => told.of \in Quotes
    BY DEF IInv, TypeOK
  <2> QED
    BY <1>1, <2>1 DEF IInv, Answered, ChangedAsTold
<1> QED
  BY <1>2, <1>3, <1>4, <1>5, <1>6 DEF IInv

LEMMA Cancels == ASSUME IInv, NEW b \in Quotes, ModelCancel(b) PROVE IInv'
<1> DEFINE new == [booking[b] EXCEPT !.status = "cancelled", !.version = @ + 1]
<1>1. /\ booking[b] # Nothing /\ booking[b].version < MaxVersion
      /\ booking' = [booking EXCEPT ![b] = new] /\ booked' = 0
      /\ UNCHANGED <<flow, wish, current, quote, ledger, document, policy, pc, said,
                     told, shown, consent>>
  BY DEF ModelCancel, Mentions, AfterCancel
<1>2. /\ new \in Booking /\ new.quote = booking[b].quote /\ new.slot = booking[b].slot
      /\ new.version = booking[b].version + 1
  <2>1. booking[b] \in Booking /\ booking[b].version + 1 \in 0 .. MaxVersion
    BY <1>1, BookingTyped, CheckoutAssumption
  <2> QED
    BY <2>1 DEF Booking
<1> HIDE DEF new
<1> QED
  BY <1>1, <1>2, DatesKept

LEMMA Links == ASSUME IInv, NEW b \in Quotes, ModelLink(b) \/ ModelDelivery(b) PROVE IInv'
<1> DEFINE linked == [booking[b] EXCEPT !.version = @ + 1]
           planned == [booking[b] EXCEPT !.delivery = booking[b].slot, !.version = @ + 1]
<1>1. /\ booking[b] # Nothing /\ booking[b].version < MaxVersion
      /\ booking' = [booking EXCEPT ![b] = linked] \/ booking' = [booking EXCEPT ![b] = planned]
      /\ UNCHANGED <<flow, wish, current, booked, quote, ledger, document, policy, pc, said,
                     told, shown, consent>>
  BY DEF ModelLink, ModelDelivery, state
<1>2. \A new \in {linked, planned} :
         /\ new \in Booking /\ new.quote = booking[b].quote /\ new.slot = booking[b].slot
         /\ new.version = booking[b].version + 1 /\ new.status = booking[b].status
  <2>1. booking[b] \in Booking /\ booking[b].version + 1 \in 0 .. MaxVersion
    BY <1>1, BookingTyped, CheckoutAssumption
  <2> QED
    BY <2>1 DEF Booking
<1> HIDE DEF linked, planned
<1> QED
  BY <1>1, <1>2, DatesKept

\* A change gives its booking a quote nobody has been shown, and a new version.
LEMMA Changes ==
  ASSUME IInv, NEW b \in Quotes, NEW slot \in Slots, ModelChange(b, slot)
  PROVE  IInv'
<1> DEFINE key == ChangeKey(b, slot)
<1>1. booking[b] # Nothing
  BY DEF ModelChange, Mentions
<1>2. /\ booking[b] \in Booking /\ booking[b].version \in 0 .. MaxVersion
      /\ booking[b].quote \in Quotes /\ quote[booking[b].quote] \in Quote /\ quote[b] # Nothing
  BY <1>1, BookingTyped DEF IInv, TypeOK, Sourced
<1>3. key \in Keys /\ key.of = b /\ key.tool = "change" /\ key.salt = booking[b].version
  BY <1>2 DEF ChangeKey, Keys
<1>4. key \notin ledger
  BY <1>2, <1>3, CheckoutAssumption DEF IInv, Left
<1>5. /\ booking[b].version < MaxVersion /\ Spare # {}
      /\ quote' = [quote EXCEPT ![NextQuote] =
                      [slot |-> slot, place |-> quote[booking[b].quote].place, expired |-> FALSE]]
      /\ booking' = [booking EXCEPT ![b].slot = slot, ![b].quote = NextQuote, ![b].version = @ + 1]
      /\ ledger' = ledger \cup {key}
      /\ told' = [of |-> b, slot |-> slot]
      /\ UNCHANGED <<flow, wish, current, booked, document, policy, pc, said, shown, consent>>
  BY <1>4 DEF ModelChange, state
<1>6. /\ NextQuote \in Quotes /\ quote[NextQuote] = Nothing
      /\ quote' \in [Quotes -> Quote \cup {Nothing}]
      /\ \A q \in Quotes : quote[q] # Nothing => quote'[q] = quote[q]
      /\ quote'[NextQuote] # Nothing
  <2>1. quote[booking[b].quote].place \in Places \cup {Unsaid}
    BY <1>2 DEF Quote
  <2> HIDE DEF key
  <2> QED
    BY <1>5, <2>1, Fresh
<1>7. /\ booking'[b] \in Booking /\ booking'[b] # Nothing
      /\ booking'[b].quote = NextQuote /\ booking'[b].slot = slot
      /\ booking'[b].status = booking[b].status /\ booking'[b].version = booking[b].version + 1
      /\ \A q \in Quotes \ {b} : booking'[q] = booking[q]
      /\ booking' \in [Quotes -> Booking \cup {Nothing}]
  <2>1. booking[b].version + 1 \in 0 .. MaxVersion
    BY <1>2, <1>5, CheckoutAssumption
  <2>2. [booking[b] EXCEPT !.slot = slot, !.quote = NextQuote, !.version = @ + 1] \in Booking
    BY <1>2, <1>6, <2>1 DEF Booking
  <2>3. booking'[b] = [booking[b] EXCEPT !.slot = slot, !.quote = NextQuote, !.version = @ + 1]
    BY <1>5 DEF IInv, TypeOK
  <2> QED
    BY <1>2, <1>5, <2>2, <2>3, NothingAssumption DEF IInv, TypeOK, Booking
<1> HIDE DEF key
<1>8. TypeOK'
  <2>1. told' \in [of: Quotes, slot: Slots]
    BY <1>5
  <2>2. /\ \A q \in Quotes : booking'[q] # Nothing => quote'[q] # Nothing
        /\ \A q \in {current, booked} : q # 0 => quote'[q] # Nothing
    BY <1>2, <1>6, <1>7 DEF IInv, TypeOK
  <2>3. booked # 0 => booking'[booked] # Nothing /\ booking'[booked].status = "confirmed"
    BY <1>7 DEF IInv, TypeOK
  <2>4. ledger' \subseteq Keys
    BY <1>3, <1>5 DEF IInv, TypeOK
  <2> QED
    BY <1>5, <1>6, <1>7, <2>1, <2>2, <2>3, <2>4 DEF IInv, TypeOK
<1>9. Agreed'
  BY <1>5 DEF IInv, Agreed, TextIn
<1>10. Sourced'
  <2> SUFFICES ASSUME NEW q \in Quotes, booking'[q] # Nothing
               PROVE  /\ quote'[booking'[q].quote] # Nothing
                      /\ booking'[q].quote # q => booking'[q].quote # current'
                      /\ booking'[q].quote = q => booking'[q].slot = quote'[q].slot
    BY DEF Sourced
  <2>1. CASE q = b
    <3>1. NextQuote # b /\ NextQuote # current
      BY <1>2, <1>6, QuotesAreNumbers DEF IInv, TypeOK
    <3> QED
      BY <1>5, <1>6, <1>7, <2>1, <3>1
  <2>2. CASE q # b
    <3>1. booking'[q] = booking[q] /\ booking[q].quote \in Quotes /\ quote[q] # Nothing
      BY <1>7, <2>2, BookingTyped
    <3> QED
      BY <1>5, <1>6, <3>1 DEF IInv, Sourced
  <2> QED
    BY <2>1, <2>2
<1>11. Left'
  <2> SUFFICES ASSUME NEW k \in ledger', k.tool = "change"
               PROVE booking'[k.of] # Nothing /\ k.salt < booking'[k.of].version
    BY DEF Left
  <2>1. booking[b].version \in Nat
    BY <1>2, CheckoutAssumption
  <2>2. CASE k = key
    BY <1>3, <1>7, <2>1, <2>2
  <2>3. CASE k \in ledger
    <3>1. k.of \in Quotes /\ k.salt \in Nat
      BY <2>3, CheckoutAssumption DEF IInv, TypeOK, Keys
    <3> QED
      BY <1>7, <2>1, <2>3, <3>1 DEF IInv, Left
  <2> QED
    BY <1>5, <2>2, <2>3
<1>12. Answered'
  BY <1>5, <1>7 DEF Answered, ChangedAsTold
<1> QED
  BY <1>8, <1>9, <1>10, <1>11, <1>12 DEF IInv

-----------------------------------------------------------------------------
(* Theorems *)

LEMMA Inductive == IInv /\ [Next]_vars => IInv'
<1> SUFFICES ASSUME IInv, [Next]_vars PROVE IInv'
  OBVIOUS
<1>1. CASE UNCHANGED vars
  BY <1>1, Quiet DEF vars, state, rows, IInv, TypeOK
<1>2. ASSUME NEW m \in Messages, Observe(m) PROVE IInv'
  BY <1>2, Hears
<1>3. CASE FlowAsks \/ FlowCannotQuote \/ FlowCannotBook \/ AskModel \/ GuardReply
  BY <1>3, QuietSteps
<1>4. CASE FlowQuotes
  BY <1>4, QuoteSteps
<1>5. CASE FlowOffers
  BY <1>5, Offers
<1>6. CASE FlowBooks
  BY <1>6, BookSteps
<1>7. CASE Tools
  BY <1>7, QuoteSteps, BookSteps, Cancels, Links, Changes DEF Tools
<1>8. CASE (\E d \in Documents, readable \in BOOLEAN : Attach(d, readable))
           \/ \E d \in Documents : Purge(d)
  BY <1>8, QuietSteps
<1>9. CASE \E q \in Quotes : QuoteExpires(q)
  BY <1>9, Expires
<1>10. CASE \E p \in Policies : PolicyChanges(p)
  BY <1>10, QuietSteps
<1> QED
  BY <1>1, <1>2, <1>3, <1>4, <1>5, <1>6, <1>7, <1>8, <1>9, <1>10 DEF Next

LEMMA Invariant == Spec => []IInv
  BY Start, Inductive, PTL DEF Spec

\* Whatever is sent, quoted, booked and changed keeps to its type, and the state's
\* reservation is a confirmed one.
THEOREM CheckoutTypeCorrect == Spec => []TypeOK
<1>1. IInv => TypeOK
  BY DEF IInv
<1> QED
  BY <1>1, Invariant, PTL

\* A change the customer is told of is made: no change is ever answered from the
\* ledger, as its key has the version that it ends.
THEOREM ToldChangesAreMade == Spec => []ChangedAsTold
<1>1. IInv => ChangedAsTold
  BY DEF IInv, Answered, ChangedAsTold
<1> QED
  BY <1>1, Invariant, PTL

\* The only steps that book are those the gate lets through, and so is the link's.
LEMMA StepAsAgreed ==
  ASSUME IInv, [Next]_vars
  PROVE  /\ \A q \in Quotes : booking[q] = Nothing /\ booking'[q] # Nothing =>
              /\ consent = [quote |-> q, policy |-> policy, place |-> quote[q].place]
              /\ Passed # {}
         /\ \A b \in Quotes : ModelLink(b) \/ ModelDelivery(b) =>
              consent # Nothing /\ consent.quote = b /\ booking[b].slot = quote[b].slot
<1>1. ASSUME NEW q \in Quotes, booking[q] = Nothing, booking'[q] # Nothing PROVE Ready(q)
  <2>1. booking' # booking
    BY <1>1
  <2>2. CASE FlowBooks
    BY <1>1, <2>1, <2>2 DEF FlowBooks, Book, IInv, TypeOK
  <2>3. ASSUME NEW p \in Quotes, ModelReserve(p) PROVE Ready(q)
    BY <1>1, <2>1, <2>3 DEF ModelReserve, Book, Gate, IInv, TypeOK
  <2>4. ASSUME NEW b \in Quotes, ModelCancel(b) \/ ModelLink(b) \/ ModelDelivery(b)
        PROVE FALSE
    BY <1>1, <2>4 DEF ModelCancel, Mentions, ModelLink, ModelDelivery, IInv, TypeOK
  <2>5. ASSUME NEW b \in Quotes, NEW s \in Slots, ModelChange(b, s) PROVE FALSE
    BY <1>1, <2>1, <2>5 DEF ModelChange, Mentions, IInv, TypeOK
  <2>6. CASE UNCHANGED booking
    BY <2>1, <2>6
  <2>7. QED
    BY <2>1, <2>2, <2>3, <2>4, <2>5
       DEF Next, Tools, vars, rows, Observe, FlowAsks, FlowQuotes, FlowCannotQuote, FlowOffers,
           FlowCannotBook, AskModel, GuardReply, Attach, Purge, QuoteExpires, PolicyChanges,
           ModelQuote
<1>2. ASSUME NEW b \in Quotes, ModelLink(b) \/ ModelDelivery(b)
      PROVE  consent # Nothing /\ consent.quote = b /\ booking[b].slot = quote[b].slot
  <2> DEFINE q == booking[b].quote
  <2>1. q \in Quotes /\ q = current /\ Ready(q)
    BY <1>2, BookingTyped DEF ModelLink, ModelDelivery, ReservationGate, Gate
  <2>2. q = b
    BY <1>2, <2>1 DEF ModelLink, ModelDelivery, IInv, Sourced
  <2>3. consent = [quote |-> q, policy |-> policy, place |-> quote[q].place]
    BY <2>1, ReadyMeansAgreed
  <2>4. consent # Nothing
    <3>1. flow.accepted \in Evidence /\ consent = TextIn(flow.accepted)
      <4>1. EvidenceOf(q) \in Evidence
        BY <2>1 DEF Ready, Eligible, EvidenceOf, Evidence, IInv, TypeOK, Flow, Passed
      <4> QED
        BY <2>1, <4>1, NothingAssumption DEF Ready, IInv, Agreed
    <3>2. TextIn(flow.accepted) \in Terms
      BY <3>1 DEF TextIn, Evidence, Terms
    <3> QED
      BY <3>1, <3>2, NothingAssumption
  <2> QED
    BY <1>2, <2>2, <2>3, <2>4 DEF IInv, Sourced, ModelLink, ModelDelivery
<1> QED
  BY <1>1, <1>2, ReadyMeansAgreed

\* A booking, and a link to pay for it, rest on terms the customer has read and
\* accepted as they still are: what the evidence of the gate is for.
THEOREM BookedAsAgreed == Spec => DoneAsAgreed
<1>1. IInv /\ [Next]_vars =>
        [/\ \A q \in Quotes : booking[q] = Nothing /\ booking'[q] # Nothing =>
               /\ consent = [quote |-> q, policy |-> policy, place |-> quote[q].place]
               /\ Passed # {}
         /\ \A b \in Quotes : ModelLink(b) \/ ModelDelivery(b) =>
               consent # Nothing /\ consent.quote = b /\ booking[b].slot = quote[b].slot]_vars
  BY StepAsAgreed
<1> QED
  BY <1>1, Invariant, PTL DEF Spec, DoneAsAgreed
=============================================================================
