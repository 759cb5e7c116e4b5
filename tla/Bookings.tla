------------------------------ MODULE Bookings -------------------------------
(***************************************************************************)
(* Bookings as the chat agent takes them: customer turns run tools inside  *)
(* database transactions (services/booking.py), the simulated provider     *)
(* decides what is free (booking_provider/simulated.py), and other desks   *)
(* take cars without a quote (record_external_booking).  A session is one  *)
(* transaction at a time on PostgreSQL at READ COMMITTED: a plain read     *)
(* sees what is committed and what the session itself wrote, a row lock is *)
(* held until commit or rollback.                                          *)
(*                                                                         *)
(* Taking the next quote reference locks the `quote` counter row until the *)
(* transaction ends.  That lock, and not the one on the bookings, is what  *)
(* keeps two customers from taking one car.                                *)
(***************************************************************************)
EXTENDS Naturals

CONSTANTS
    Turns,          \* customer turns that can run side by side
    Desks,          \* the phone and the counter
    Customers,
    CustomerOf,     \* whose session it is, a desk's standing customer included
    Vehicles, Times,
    Refs,           \* reservation references, DEMO-n
    QuoteIds,       \* references of the quotes customers are shown, DQ-n
    MaxTariff,      \* bound on the number of rate changes
    Offered,        \* the tools the operator offers that note something on a booking
    Extras,         \* whether quotes are asked for with a discount or less excess
    Nobody, NoBooking, NoQuote, NoRef, NoPrice

Sessions == Turns \cup Desks

ASSUME BookingsAssumption ==
    /\ Times \subseteq Nat
    /\ MaxTariff \in Nat \ {0}
    /\ Extras \subseteq BOOLEAN
    /\ Offered \subseteq {"link", "pay", "schedule", "documents"}
    /\ CustomerOf \in [Sessions -> Customers]
    /\ Turns \cap Desks = {}
    /\ Nobody \notin Sessions
    /\ NoQuote \notin QuoteIds
    /\ NoRef \notin Refs

VARIABLES
    db,         \* committed bookings
    latest,     \* bookings with the uncommitted writes of their lock's holder
    rowLock,    \* the session that holds a booking's row
    quoteDb,    \* committed quotes and the operations begun under them
    quotes,     \* the same with the writes of the quote counter's holder
    quoteLock,  \* the session that holds the quote counter's row
    refLock,    \* the session that holds the reservation counter's row
    payLock,    \* the session that holds the payment counter's row
    aside,      \* history: the sessions that locked something aside from the
                \* quote counter, by a tool that does not take it
    pc,         \* what each session does next
    qid,        \* the quote it is reserving
    ref,        \* the booking it is changing
    seen,       \* that booking as the session loaded it
    want,       \* the slot it is to have and the price worked out for it
    offRoad,    \* cars in maintenance, blocked or retired
    tariff      \* the rate card in force

tables   == <<db, latest, rowLock>>
ledger   == <<quoteDb, quotes>>
counters == <<quoteLock, refLock, payLock, aside>>
chosen   == <<qid, ref, seen, want>>
world    == <<offRoad, tariff>>
vars     == <<tables, ledger, counters, pc, chosen, world>>

-----------------------------------------------------------------------------
(* Data *)

\* The car, pickup and return columns, and what every tool requires of them.
Columns == [vehicle: Vehicles, from: Times, to: Times]

Slots == {slot \in Columns : slot.from < slot.to}

Overlap(a, b) == /\ a.vehicle = b.vehicle
                 /\ a.from < b.to
                 /\ b.from < a.to

\* A total is a function of what was priced and of the rate card it was priced
\* on; `extras` is a discount or a reduced excess asked for with the quote.
Price == [slot: Slots, tariff: 0 .. MaxTariff, extras: BOOLEAN]

PriceOf(slot) == [slot |-> slot, tariff |-> tariff, extras |-> FALSE]

NoCharge(slot) == [slot |-> slot, tariff |-> 0, extras |-> FALSE]

\* The columns of a reservation the properties need. `origin` is the quote a
\* chat booking was made from; a desk's booking has none.
Booking == [owner: Customers, slot: Columns, status: {"confirmed", "cancelled"},
            price: Price, origin: QuoteIds \cup {NoQuote}]

\* A stored quote, whether it can still be accepted (it has not expired and is
\* its conversation's newest), and the provider operation begun under it: how it
\* settled and the booking it made.
Quote == [owner: Customers, price: Price, open: BOOLEAN,
          op: {"none", "unsettled", "confirmed", "unavailable", "down"},
          ref: Refs \cup {NoRef}]

ASSUME SentinelAssumption ==
    NoBooking \notin Booking /\ NoQuote \notin Quote /\ NoPrice \notin Price

PCs == {"ready", "validating", "reserving", "taking", "modifying", "writing",
        "cancelling", "inserting", "locking", "paying", "noting"}

Live(b) == b # NoBooking /\ b.status = "confirmed"

Chat(b) == b # NoBooking /\ b.origin # NoQuote

\* What session s reads: its own writes over what is committed.
Visible(s) == [r \in Refs |-> IF rowLock[r] = s THEN latest[r] ELSE db[r]]

VisibleQuotes(s) == IF quoteLock = s THEN quotes ELSE quoteDb

\* No live booking that s sees, other than `except`, overlaps the slot.
Clear(s, slot, except) == \A r \in Refs \ except :
    Live(Visible(s)[r]) => ~Overlap(Visible(s)[r].slot, slot)

\* The engine's availability: the window is one, the car is on the road and no
\* booking is in the way.
Free(s, slot, except) ==
    /\ slot \in Slots
    /\ slot.vehicle \notin offRoad
    /\ Clear(s, slot, except)

-----------------------------------------------------------------------------
(* States *)

TypeOK ==
    /\ db \in [Refs -> Booking \cup {NoBooking}]
    /\ latest \in [Refs -> Booking \cup {NoBooking}]
    /\ rowLock \in [Refs -> Sessions \cup {Nobody}]
    /\ quoteDb \in [QuoteIds -> Quote \cup {NoQuote}]
    /\ quotes \in [QuoteIds -> Quote \cup {NoQuote}]
    /\ quoteLock \in Sessions \cup {Nobody}
    /\ refLock \in Sessions \cup {Nobody}
    /\ payLock \in Sessions \cup {Nobody}
    /\ aside \subseteq Sessions
    /\ pc \in [Sessions -> PCs]
    /\ qid \in [Sessions -> QuoteIds \cup {NoQuote}]
    /\ ref \in [Sessions -> Refs \cup {NoRef}]
    /\ seen \in [Sessions -> Booking \cup {NoBooking}]
    /\ want \in [Sessions -> Price \cup {NoPrice}]
    /\ offRoad \subseteq Vehicles
    /\ tariff \in 1 .. MaxTariff

Init ==
    /\ db = [r \in Refs |-> NoBooking]
    /\ latest = db
    /\ rowLock = [r \in Refs |-> Nobody]
    /\ quoteDb = [q \in QuoteIds |-> NoQuote]
    /\ quotes = quoteDb
    /\ quoteLock = Nobody
    /\ refLock = Nobody
    /\ payLock = Nobody
    /\ aside = {}
    /\ pc = [s \in Sessions |-> "ready"]
    /\ qid = [s \in Sessions |-> NoQuote]
    /\ ref = [s \in Sessions |-> NoRef]
    /\ seen = [s \in Sessions |-> NoBooking]
    /\ want = [s \in Sessions |-> NoPrice]
    /\ offRoad = {}
    /\ tariff = 1

-----------------------------------------------------------------------------
(* Steps a session's tools are made of *)

\* The tool answers and the turn goes on; locks stay until the transaction ends.
Answer(s) ==
    /\ pc' = [pc EXCEPT ![s] = "ready"]
    /\ qid' = [qid EXCEPT ![s] = NoQuote]
    /\ ref' = [ref EXCEPT ![s] = NoRef]
    /\ seen' = [seen EXCEPT ![s] = NoBooking]
    /\ want' = [want EXCEPT ![s] = NoPrice]

\* The tool has more to do; the next statement may have to wait for a lock.
Goto(s, step) == pc' = [pc EXCEPT ![s] = step]

TakeQuoteLock(s) ==
    /\ quoteLock \in {Nobody, s}
    /\ quoteLock' = s
    /\ UNCHANGED <<refLock, payLock, aside>>

TakeRefLock(s) ==
    /\ refLock \in {Nobody, s}
    /\ refLock' = s
    /\ UNCHANGED <<quoteLock, payLock, aside>>

\* A lock taken by a tool that has no use for the quote counter.
Aside(s) ==
    /\ aside' = IF quoteLock = s THEN aside ELSE aside \cup {s}
    /\ UNCHANGED <<quoteLock, refLock>>

\* SELECT ... FOR UPDATE over the car's live bookings that s can see.
CarRows(s, slot) ==
    {r \in Refs : Live(Visible(s)[r]) /\ Visible(s)[r].slot.vehicle = slot.vehicle}

LockCarRows(s, slot) ==
    /\ \A r \in CarRows(s, slot) : rowLock[r] \in {Nobody, s}
    /\ rowLock' = [r \in Refs |-> IF r \in CarRows(s, slot) THEN s ELSE rowLock[r]]
    /\ UNCHANGED <<db, latest>>

\* INSERT of a reservation under the next reference.
Insert(s, r, booking) ==
    /\ latest[r] = NoBooking
    /\ latest' = [latest EXCEPT ![r] = booking]
    /\ rowLock' = [rowLock EXCEPT ![r] = s]
    /\ UNCHANGED db

\* UPDATE of one reservation: waits for its row, then writes over what is there.
Update(s, r, booking) ==
    /\ rowLock[r] \in {Nobody, s}
    /\ latest' = [latest EXCEPT ![r] = booking]
    /\ rowLock' = [rowLock EXCEPT ![r] = s]
    /\ UNCHANGED db

Settle(q, outcome, r) ==
    quotes' = [quotes EXCEPT ![q].op = outcome, ![q].ref = r]

-----------------------------------------------------------------------------
(* create_demo_quote *)

\* The newest quote a customer is shown is the conversation's current one.
WithQuote(s, q, price) ==
    [p \in QuoteIds |->
        IF p = q THEN [owner |-> CustomerOf[s], price |-> price, open |-> TRUE,
                       op |-> "none", ref |-> NoRef]
        ELSE IF quotes[p] # NoQuote /\ quotes[p].owner = CustomerOf[s]
             THEN [quotes[p] EXCEPT !.open = FALSE]
             ELSE quotes[p]]

CreateQuote(s, slot, extras) ==
    /\ pc[s] = "ready"
    /\ TakeQuoteLock(s)
    /\ \/ /\ Free(s, slot, {})
          /\ \E q \in QuoteIds :
                /\ quotes[q] = NoQuote
                /\ quotes' = WithQuote(s, q, [PriceOf(slot) EXCEPT !.extras = extras])
          /\ Answer(s)
       \/ /\ ~Free(s, slot, {})
          /\ UNCHANGED quotes
          /\ Answer(s)
    /\ UNCHANGED <<tables, quoteDb, world>>

-----------------------------------------------------------------------------
(* create_demo_reservation and the provider's reserve *)

\* gate asks for the customer's current quote.  An operation begun under the
\* quote's key is answered from the ledger, an expired quote is refused, and
\* neither changes anything; otherwise the provider goes on to validate it.
ReserveStart(s, q) ==
    /\ pc[s] = "ready"
    /\ VisibleQuotes(s)[q] # NoQuote
    /\ VisibleQuotes(s)[q].owner = CustomerOf[s]
    /\ VisibleQuotes(s)[q].open
    /\ VisibleQuotes(s)[q].op = "none"
    /\ Goto(s, "validating")
    /\ qid' = [qid EXCEPT ![s] = q]
    /\ UNCHANGED <<tables, ledger, counters, ref, seen, want, world>>

\* Variant of Rollback: the ledger of operations outlives the transaction.
RollbackBookings(s) ==
    /\ latest' = [r \in Refs |-> IF rowLock[r] = s THEN db[r] ELSE latest[r]]
    /\ rowLock' = [r \in Refs |-> IF rowLock[r] = s THEN Nobody ELSE rowLock[r]]
    /\ quoteLock' = IF quoteLock = s THEN Nobody ELSE quoteLock
    /\ refLock' = IF refLock = s THEN Nobody ELSE refLock
    /\ payLock' = IF payLock = s THEN Nobody ELSE payLock
    /\ aside' = aside \ {s}
    /\ Answer(s)
    /\ UNCHANGED <<db, ledger>>

\* Rolling back: every write and every lock of the session's transaction goes.
Rollback(s) ==
    /\ latest' = [r \in Refs |-> IF rowLock[r] = s THEN db[r] ELSE latest[r]]
    /\ rowLock' = [r \in Refs |-> IF rowLock[r] = s THEN Nobody ELSE rowLock[r]]
    /\ quotes' = IF quoteLock = s THEN quoteDb ELSE quotes
    /\ quoteLock' = IF quoteLock = s THEN Nobody ELSE quoteLock
    /\ refLock' = IF refLock = s THEN Nobody ELSE refLock
    /\ payLock' = IF payLock = s THEN Nobody ELSE payLock
    /\ aside' = aside \ {s}
    /\ Answer(s)
    /\ UNCHANGED <<db, quoteDb>>

\* validate_quote prices the window afresh, under a new quote reference, on the
\* rate card alone.  Only a different price stops the booking; a car that is not
\* free any more is left for the conflict check to find.
PriceMoved(s, q) ==
    Free(s, quotes[q].price.slot, {}) /\ PriceOf(quotes[q].price.slot) # quotes[q].price

\* Variant of ReserveValidate: no unique key on the operations.
ReserveValidateUpsert(s) ==
    /\ pc[s] = "validating"
    /\ TakeQuoteLock(s)
    /\ Settle(qid[s], "unsettled", NoRef)
    /\ Goto(s, "reserving")
    /\ UNCHANGED <<tables, quoteDb, chosen, world>>

ReserveValidate(s) ==
    /\ pc[s] = "validating"
    /\ \/ /\ TakeQuoteLock(s)
          /\ PriceMoved(s, qid[s])
          /\ Answer(s)
          /\ UNCHANGED <<tables, ledger>>
       \/ /\ TakeQuoteLock(s)
          /\ ~PriceMoved(s, qid[s])
          /\ quotes[qid[s]].op = "none"
          /\ Settle(qid[s], "unsettled", NoRef)
          /\ Goto(s, "reserving")
          /\ UNCHANGED <<tables, quoteDb, chosen>>
       \/ \* the key is taken: the INSERT of the operation fails and so does the turn
          /\ quoteLock \in {Nobody, s}
          /\ ~PriceMoved(s, qid[s])
          /\ quotes[qid[s]].op # "none"
          /\ Rollback(s)
    /\ UNCHANGED world

\* Variant of ReserveFails: a timeout settles the operation.
ReserveFailsSettled(s) ==
    /\ pc[s] = "reserving"
    /\ Settle(qid[s], "unknown", NoRef)
    /\ Answer(s)
    /\ UNCHANGED <<tables, quoteDb, counters, world>>

\* The failures a provider is made to produce (_injected_failure).
ReserveFails(s) ==
    /\ pc[s] = "reserving"
    /\ \/ Settle(qid[s], "down", NoRef) /\ Answer(s)
       \/ UNCHANGED quotes /\ Answer(s)
       \/ Settle(qid[s], "unavailable", NoRef) /\ Answer(s)
    /\ UNCHANGED <<tables, quoteDb, counters, world>>

\* Variant of ReserveConflict: the answer given with the quote is trusted.
ReserveTrusting(s) ==
    /\ pc[s] = "reserving"
    /\ LockCarRows(s, quotes[qid[s]].price.slot)
    /\ Goto(s, "taking")
    /\ UNCHANGED <<ledger, chosen, counters, world>>

ReserveConflict(s) ==
    /\ pc[s] = "reserving"
    /\ LockCarRows(s, quotes[qid[s]].price.slot)
    /\ \/ /\ Clear(s, quotes[qid[s]].price.slot, {})
          /\ Goto(s, "taking")
          /\ UNCHANGED <<quotes, chosen>>
       \/ /\ ~Clear(s, quotes[qid[s]].price.slot, {})
          /\ Settle(qid[s], "unavailable", NoRef)
          /\ Answer(s)
    /\ UNCHANGED <<quoteDb, counters, world>>

ReserveInsert(s) ==
    /\ pc[s] = "taking"
    /\ TakeRefLock(s)
    /\ \E r \in Refs :
          /\ Insert(s, r, [owner |-> CustomerOf[s], slot |-> quotes[qid[s]].price.slot,
                           status |-> "confirmed", price |-> quotes[qid[s]].price,
                           origin |-> qid[s]])
          /\ Settle(qid[s], "confirmed", r)
    /\ Answer(s)
    /\ UNCHANGED <<quoteDb, world>>

-----------------------------------------------------------------------------
(* modify_demo_reservation, extend_demo_rental, cancel_demo_reservation *)

\* Variant of Mine: no ownership check, as there once was none.
Anyones(s, r) == Live(Visible(s)[r])

\* _live_reservation: the customer's own booking, and still live.
Mine(s, r) == Live(Visible(s)[r]) /\ Visible(s)[r].owner = CustomerOf[s]

\* Variant of CheckChange: the booking is loaded FOR UPDATE.
CheckChangeLocking(s, r, slot) ==
    /\ pc[s] = "ready"
    /\ Free(s, slot, {r})
    /\ Update(s, r, Visible(s)[r])
    /\ Goto(s, "modifying")
    /\ ref' = [ref EXCEPT ![s] = r]
    /\ seen' = [seen EXCEPT ![s] = Visible(s)[r]]
    /\ want' = [want EXCEPT ![s] = PriceOf(slot)]
    /\ UNCHANGED <<qid, ledger, counters, world>>

\* The booking is loaded and the new window checked before any lock is taken.
CheckChange(s, r, slot) ==
    /\ pc[s] = "ready"
    /\ \/ ~Free(s, slot, {r}) /\ Answer(s)
       \/ /\ Free(s, slot, {r})
          /\ Goto(s, "modifying")
          /\ ref' = [ref EXCEPT ![s] = r]
          /\ seen' = [seen EXCEPT ![s] = Visible(s)[r]]
          /\ want' = [want EXCEPT ![s] = PriceOf(slot)]
          /\ UNCHANGED qid
    /\ UNCHANGED <<tables, ledger, counters, world>>

ModifyStart(s, r, slot) ==
    /\ Mine(s, r)
    /\ slot # Visible(s)[r].slot
    /\ CheckChange(s, r, slot)

ExtendStart(s, r, until) ==
    /\ Mine(s, r)
    /\ until > Visible(s)[r].slot.to
    /\ CheckChange(s, r, [Visible(s)[r].slot EXCEPT !.to = until])

\* Variant of ModifyPrice: the first check of the window is trusted.
ModifyPriceTrusting(s) ==
    /\ pc[s] = "modifying"
    /\ TakeQuoteLock(s)
    /\ Goto(s, "writing")
    /\ want' = [want EXCEPT ![s] = PriceOf(want[s].slot)]
    /\ UNCHANGED <<tables, ledger, qid, ref, seen, world>>

\* _price: a new quote reference, then the window checked again and priced.
ModifyPrice(s) ==
    /\ pc[s] = "modifying"
    /\ TakeQuoteLock(s)
    /\ \/ ~Free(s, want[s].slot, {ref[s]}) /\ Answer(s)
       \/ /\ Free(s, want[s].slot, {ref[s]})
          /\ Goto(s, "writing")
          /\ want' = [want EXCEPT ![s] = PriceOf(want[s].slot)]
          /\ UNCHANGED <<qid, ref, seen>>
    /\ UNCHANGED <<tables, ledger, world>>

\* An UPDATE names only the columns that differ from what the session loaded.
Written(was, new, now) == IF new = was THEN now ELSE new

\* Variant of Merged: the dates change and the total does not.
MergedUnpriced(row, was, new) == [row EXCEPT !.slot = new.slot]

Merged(row, was, new) ==
    [row EXCEPT
        !.slot = [vehicle |-> Written(was.slot.vehicle, new.slot.vehicle, row.slot.vehicle),
                  from    |-> Written(was.slot.from, new.slot.from, row.slot.from),
                  to      |-> Written(was.slot.to, new.slot.to, row.slot.to)],
        !.price = Written(was.price, new, row.price)]

ModifyWrite(s) ==
    /\ pc[s] = "writing"
    /\ Update(s, ref[s], Merged(latest[ref[s]], seen[s], want[s]))
    /\ Answer(s)
    /\ UNCHANGED <<ledger, counters, world>>

\* A tool that goes on to lock the booking or the payment counter.
Begin(s, r, step) ==
    /\ pc[s] = "ready"
    /\ Goto(s, step)
    /\ ref' = [ref EXCEPT ![s] = r]
    /\ UNCHANGED <<tables, ledger, counters, qid, seen, want, world>>

CancelStart(s, r) == Mine(s, r) /\ Begin(s, r, "cancelling")

CancelWrite(s) ==
    /\ pc[s] = "cancelling"
    /\ Update(s, ref[s], [latest[ref[s]] EXCEPT !.status = "cancelled"])
    /\ Aside(s)
    /\ Answer(s)
    /\ UNCHANGED <<ledger, payLock, world>>

-----------------------------------------------------------------------------
(* create_payment_link, simulate_payment, schedule_demo_delivery and          *)
(* record_demo_documents: they write columns of a booking that are not        *)
(* modelled, and lock it without the quote counter.                           *)

LinkStart(s, r) == "link" \in Offered /\ Mine(s, r) /\ Begin(s, r, "locking")

PayStart(s, r) == "pay" \in Offered /\ Mine(s, r) /\ Begin(s, r, "paying")

ScheduleStart(s, r) == "schedule" \in Offered /\ Mine(s, r) /\ Begin(s, r, "noting")

\* Documents are recorded on whatever booking the call names.
DocumentsStart(s, r) ==
    "documents" \in Offered /\ Visible(s)[r] # NoBooking /\ Begin(s, r, "noting")

\* _locked: SELECT ... FOR UPDATE, after which a link may still be refused.
LockBooking(s) ==
    /\ pc[s] = "locking"
    /\ Update(s, ref[s], latest[ref[s]])
    /\ Aside(s)
    /\ \/ Answer(s)
       \/ /\ Live(latest[ref[s]])
          /\ Goto(s, "paying")
          /\ UNCHANGED chosen
    /\ UNCHANGED <<ledger, payLock, world>>

\* The next payment reference.  A link has the booking locked by then, and
\* Stripe may still refuse it.
TakePayment(s) ==
    /\ pc[s] = "paying"
    /\ payLock \in {Nobody, s}
    /\ payLock' = s
    /\ Aside(s)
    /\ \/ rowLock[ref[s]] = s /\ Answer(s)
       \/ rowLock[ref[s]] # s /\ Goto(s, "noting") /\ UNCHANGED chosen
    /\ UNCHANGED <<tables, ledger, world>>

NoteBooking(s) ==
    /\ pc[s] = "noting"
    /\ Update(s, ref[s], latest[ref[s]])
    /\ Aside(s)
    /\ Answer(s)
    /\ UNCHANGED <<ledger, payLock, world>>

-----------------------------------------------------------------------------
(* record_external_booking *)

DeskCheck(s, slot) ==
    /\ pc[s] = "ready"
    /\ LockCarRows(s, slot)
    /\ \/ ~Clear(s, slot, {}) /\ Answer(s)
       \/ /\ Clear(s, slot, {})
          /\ Goto(s, "inserting")
          /\ want' = [want EXCEPT ![s] = NoCharge(slot)]
          /\ UNCHANGED <<qid, ref, seen>>
    /\ UNCHANGED <<ledger, counters, world>>

DeskInsert(s) ==
    /\ pc[s] = "inserting"
    /\ TakeRefLock(s)
    /\ \E r \in Refs :
          Insert(s, r, [owner |-> CustomerOf[s], slot |-> want[s].slot, status |-> "confirmed",
                        price |-> want[s], origin |-> NoQuote])
    /\ Answer(s)
    /\ UNCHANGED <<ledger, world>>

-----------------------------------------------------------------------------
(* Transactions and the world around them *)

Commit(s) ==
    /\ pc[s] = "ready"
    /\ db' = Visible(s)
    /\ rowLock' = [r \in Refs |-> IF rowLock[r] = s THEN Nobody ELSE rowLock[r]]
    /\ quoteDb' = VisibleQuotes(s)
    /\ quoteLock' = IF quoteLock = s THEN Nobody ELSE quoteLock
    /\ refLock' = IF refLock = s THEN Nobody ELSE refLock
    /\ payLock' = IF payLock = s THEN Nobody ELSE payLock
    /\ aside' = aside \ {s}
    /\ Answer(s)
    /\ UNCHANGED <<latest, quotes, world>>

\* A crash, a tool that raises, or PostgreSQL choosing it as a deadlock's victim.
Abort(s) == Rollback(s) /\ UNCHANGED world

FleetChange(v) ==
    /\ offRoad' = IF v \in offRoad THEN offRoad \ {v} ELSE offRoad \cup {v}
    /\ UNCHANGED <<tables, ledger, counters, pc, chosen, tariff>>

TariffChange ==
    /\ tariff < MaxTariff
    /\ tariff' = tariff + 1
    /\ UNCHANGED <<tables, ledger, counters, pc, chosen, offRoad>>

\* Time is up for a quote nobody has tried to reserve.
QuoteExpires(q) ==
    /\ quoteDb[q] # NoQuote
    /\ quoteDb[q].op = "none"
    /\ quoteDb' = [quoteDb EXCEPT ![q].open = FALSE]
    /\ quotes' = [quotes EXCEPT ![q].open = FALSE]
    /\ UNCHANGED <<tables, counters, pc, chosen, world>>

TurnStep(s) ==
    \/ \E slot \in Slots, extras \in Extras : CreateQuote(s, slot, extras)
    \/ \E q \in QuoteIds : ReserveStart(s, q)
    \/ ReserveValidate(s)
    \/ ReserveFails(s)
    \/ ReserveConflict(s)
    \/ ReserveInsert(s)
    \/ \E r \in Refs, slot \in Slots : ModifyStart(s, r, slot)
    \/ \E r \in Refs, until \in Times : ExtendStart(s, r, until)
    \/ ModifyPrice(s)
    \/ ModifyWrite(s)
    \/ \E r \in Refs : CancelStart(s, r)
    \/ CancelWrite(s)
    \/ \E r \in Refs : LinkStart(s, r)
    \/ LockBooking(s)
    \/ \E r \in Refs : PayStart(s, r)
    \/ TakePayment(s)
    \/ \E r \in Refs : ScheduleStart(s, r)
    \/ \E r \in Refs : DocumentsStart(s, r)
    \/ NoteBooking(s)

DeskStep(s) ==
    \/ \E slot \in Slots : DeskCheck(s, slot)
    \/ DeskInsert(s)

Next ==
    \/ \E s \in Turns : TurnStep(s)
    \/ \E s \in Desks : DeskStep(s)
    \/ \E s \in Sessions : Commit(s) \/ Abort(s)
    \/ \E v \in Vehicles : FleetChange(v)
    \/ TariffChange
    \/ \E q \in QuoteIds : QuoteExpires(q)

Spec == Init /\ [][Next]_vars

-----------------------------------------------------------------------------
(* Correctness *)

\* Two customers confirming the same car for overlapping dates cannot both
\* succeed (BookingProvider.reserve): no two committed live bookings overlap.
NoDoubleBooking == \A r1, r2 \in Refs :
    (r1 # r2 /\ Live(db[r1]) /\ Live(db[r2])) => ~Overlap(db[r1].slot, db[r2].slot)

\* The same among bookings made in chat, whatever the other desks do.
ChatNeverOverlaps == \A r1, r2 \in Refs :
    (r1 # r2 /\ Live(db[r1]) /\ Live(db[r2]) /\ Chat(db[r1]) /\ Chat(db[r2]))
        => ~Overlap(db[r1].slot, db[r2].slot)

\* The provider's ledger and the bookings agree: an operation settled as
\* confirmed names a booking made from its quote, and every booking made from a
\* quote is the one its operation names.  So a duplicated "yes", a second turn
\* or a rollback half-way never leaves two bookings, or an answer without one.
SettledMeansBooked ==
    /\ \A q \in QuoteIds : (quoteDb[q] # NoQuote /\ quoteDb[q].op = "confirmed") =>
          /\ quoteDb[q].ref \in Refs
          /\ Chat(db[quoteDb[q].ref])
          /\ db[quoteDb[q].ref].origin = q
    /\ \A r \in Refs : Chat(db[r]) =>
          LET quote == quoteDb[db[r].origin]
          IN  quote # NoQuote /\ quote.op = "confirmed" /\ quote.ref = r

\* Every booked total traces back to a figure calculated for it: the price of a
\* booking is the price of the car and the dates it is for, and those are a
\* pickup before a return.
PricedForItsSlot == \A r \in Refs : db[r] # NoBooking => db[r].price.slot = db[r].slot

\* An operation that was sent and never answered stays open: no retry under its
\* key settles it behind the customer's back.
UnknownStaysUnknown ==
    [][\A q \in QuoteIds : (quoteDb[q] # NoQuote /\ quoteDb[q].op = "unsettled")
            => quoteDb'[q].op = "unsettled"]_vars

\* s cannot go on before t ends its transaction.
WaitsFor(s, t) ==
    \/ pc[s] \in {"validating", "modifying"} /\ quoteLock = t
    \/ pc[s] = "reserving" /\ \E r \in CarRows(s, quotes[qid[s]].price.slot) : rowLock[r] = t
    \/ pc[s] \in {"taking", "inserting"} /\ refLock = t
    \/ pc[s] = "paying" /\ payLock = t
    \/ pc[s] \in {"writing", "cancelling", "locking", "noting"} /\ rowLock[ref[s]] = t

\* Quoting, reserving, moving and extending never deadlock among themselves: they
\* lock in one order, the quote counter first.  Of two turns that wait for each
\* other, one took a lock earlier in the same turn by a tool that leaves the
\* counter alone: it cancelled, took or asked for a payment, scheduled a delivery
\* or recorded documents.
DeadlockOnlyAside == \A s, t \in Turns :
    (s # t /\ WaitsFor(s, t) /\ WaitsFor(t, s)) => aside \cap {s, t} # {}

\* The bookings as the inventory knows them: what other customers can see.
Entry(b) == IF b = NoBooking THEN NoBooking
            ELSE [owner |-> b.owner, slot |-> b.slot, status |-> b.status]

Booked == [r \in Refs |-> Entry(db[r])]

Promise == INSTANCE Inventory WITH booked <- Booked

ASSUME PromiseAssumption == NoBooking \notin Promise!Booking

\* Every transaction does at once what one customer's Change does.
ImplementsInventory == Promise!Spec

-----------------------------------------------------------------------------
(* What the documentation says and the code does not do *)

\* "Availability is always re-checked at write time": a booking goes ahead only
\* while the car is on the road.
RecheckedAtWrite ==
    [][\A s \in Turns : (pc[s] = "validating" /\ pc'[s] = "reserving")
            => quotes[qid[s]].price.slot.vehicle \notin offRoad]_vars

\* "Errors are not stored under the key, so a genuine retry after a transient
\* failure still gets to run": no failure stays in the ledger under the key of
\* the quote it happened to.
ErrorsAreNotStored == \A q \in QuoteIds :
    quoteDb[q] # NoQuote => quoteDb[q].op \notin {"down", "unavailable"}

\* A revised quote means the price has moved: no one is answered with one while
\* the rate card the quote was priced on is still in force.
RevisedOnlyWhenMoved ==
    [][\A s \in Turns : (pc[s] = "validating" /\ pc'[s] = "ready" /\ quoteLock' = s)
            => quotes[qid[s]].price.tariff # tariff]_vars
==============================================================================
