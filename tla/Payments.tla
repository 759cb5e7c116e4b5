------------------------------ MODULE Payments -------------------------------
(***************************************************************************)
(* Paying for one booking (services/payments, payments/webhook).  A turn   *)
(* of the customer opens a checkout at Stripe, changes the booking or      *)
(* cancels it, in a session that keeps the row as it was loaded and writes *)
(* back the columns it set; the history is one column.  Meanwhile the      *)
(* customer pays, checkouts lapse, staff refund, and Stripe reports each   *)
(* of these late, again, and in any order to a handler of another process. *)
(* What a turn does at Stripe stays done when the turn is rolled back.     *)
(***************************************************************************)
EXTENDS Naturals, FiniteSets

CONSTANTS
    Checkouts,      \* references of Stripe's checkout sessions
    Prices,         \* totals the booking may have
    Deposit,        \* what a link for the deposit charges
    NoCheckout, NoRow

ASSUME PaymentsAssumption ==
    /\ Prices \subseteq Nat
    /\ Deposit \in Nat
    /\ NoCheckout \notin Checkouts

VARIABLES
    row,        \* the committed reservation
    review,     \* a colleague has been asked to look at its payments
    turn,       \* where the turn is: its lock is held from "linking" on
    loaded,     \* the row as the turn's session loaded it
    draft,      \* the row as the turn's session has it now
    touched,    \* the session has appended to the history
    alarm,      \* the session has asked for a review
    stripe,     \* the checkouts at Stripe
    due         \* what Stripe has not been answered yet

session == <<turn, loaded, draft, touched, alarm>>
vars == <<row, review, session, stripe, due>>

Purposes == {"rental_total", "deposit"}

Settled == {"paid", "deposit_paid", "payment_review", "refund_pending", "refunded",
            "partially_refunded"}

\* Refunds return a part of the payment or bring it to the whole.
Levels == {"part", "whole"}

Above(level, known) == known = "none" \/ (known = "part" /\ level = "whole")

\* What the reservation's history has of its payments.
History == [issued: SUBSET Checkouts, received: SUBSET Checkouts,
            refunded: [Checkouts -> Levels \cup {"none"}]]

Row == [status: {"confirmed", "cancelled"}, total: Prices, ref: Checkouts \cup {NoCheckout},
        pay: Settled \cup {"none", "link_sent", "expired", "failed"}, history: History]

Checkout == [status: {"none", "open", "processing", "paid", "failed", "expired"},
             amount: Prices \cup {Deposit}, purpose: Purposes, refunds: SUBSET Levels]

TypeOK ==
    /\ row \in Row
    /\ IF turn = "idle" THEN loaded = NoRow /\ draft = NoRow ELSE loaded \in Row /\ draft \in Row
    /\ review \in BOOLEAN /\ touched \in BOOLEAN /\ alarm \in BOOLEAN
    /\ turn \in {"idle", "working", "linking", "opening", "locked"}
    /\ stripe \in [Checkouts -> Checkout]
    /\ due \subseteq Checkouts \X (Levels \cup {"paid", "ended"})

Init ==
    /\ \E total \in Prices :
          row = [status |-> "confirmed", total |-> total, ref |-> NoCheckout, pay |-> "none",
                 history |-> [issued |-> {}, received |-> {}, refunded |-> [c \in Checkouts |-> "none"]]]
    /\ loaded = NoRow /\ draft = NoRow
    /\ review = FALSE /\ touched = FALSE /\ alarm = FALSE
    /\ turn = "idle"
    /\ stripe = [c \in Checkouts |-> [status |-> "none", amount |-> Deposit, purpose |-> "deposit",
                                      refunds |-> {}]]
    /\ due = {}

-----------------------------------------------------------------------------
(* The customer's turn *)

Locked == turn \in {"linking", "opening", "locked"}

Busy == turn \in {"working", "locked"}

Load ==
    /\ turn = "idle"
    /\ turn' = "working"
    /\ loaded' = row /\ draft' = row
    /\ UNCHANGED <<row, review, touched, alarm, stripe, due>>

\* What the session leaves in the row: the columns it set over those committed.
Merged ==
    LET Column(k) == IF draft[k] # loaded[k] THEN draft[k] ELSE row[k]
    IN [status |-> Column("status"), total |-> Column("total"), ref |-> Column("ref"),
        pay |-> Column("pay"), history |-> IF touched THEN draft.history ELSE row.history]

Payable(r) == r.status = "confirmed" /\ r.pay \notin Settled

\* create_payment_link takes the row's lock and reads it again.
AskLink ==
    /\ Busy
    /\ draft.status = "confirmed"
    /\ loaded' = row
    /\ draft' = Merged
    /\ turn' = IF Payable(Merged) THEN "linking" ELSE "locked"
    /\ UNCHANGED <<row, review, touched, alarm, stripe, due>>

\* expire_checkout: an open checkout is closed at Stripe, one that has completed
\* is not.
Close(c) ==
    IF stripe[c].status = "open"
    THEN /\ stripe' = [stripe EXCEPT ![c].status = "expired"]
         /\ due' = due \cup {<<c, "ended">>}
    ELSE UNCHANGED <<stripe, due>>

Closes(c) == stripe[c].status \in {"open", "expired"}

CloseOld ==
    /\ turn = "linking"
    /\ IF draft.ref = NoCheckout
       THEN turn' = "opening" /\ UNCHANGED <<stripe, due>>
       ELSE turn' = (IF Closes(draft.ref) THEN "opening" ELSE "locked") /\ Close(draft.ref)
    /\ UNCHANGED <<row, review, loaded, draft, touched, alarm>>

\* Stripe cannot be reached or refuses.
LinkFails ==
    /\ turn \in {"linking", "opening"}
    /\ turn' = "locked"
    /\ UNCHANGED <<row, review, loaded, draft, touched, alarm, stripe, due>>

AmountFor(purpose) == IF purpose = "rental_total" THEN draft.total ELSE Deposit

\* The request carries a key of its content: what a turn that was rolled back
\* has opened is returned again, unless the content has changed since.
Reusable(c, purpose) ==
    /\ stripe[c].status = "open"
    /\ c \notin row.history.issued
    /\ stripe[c].purpose = purpose
    /\ stripe[c].amount = AmountFor(purpose)

OpenNew(c, purpose) ==
    /\ turn = "opening"
    /\ \/ stripe[c].status = "none" \/ Reusable(c, purpose)
    /\ stripe' = [stripe EXCEPT ![c] = [status |-> "open", amount |-> AmountFor(purpose),
                                        purpose |-> purpose, refunds |-> {}]]
    /\ draft' = [draft EXCEPT !.ref = c, !.pay = "link_sent", !.history.issued = @ \cup {c}]
    /\ touched' = TRUE
    /\ turn' = "locked"
    /\ UNCHANGED <<row, review, loaded, alarm, due>>

\* Other dates have another price; a payment does not stand in their way.
Modify(total) ==
    /\ Busy
    /\ draft.status = "confirmed"
    /\ draft' = [draft EXCEPT !.total = total]
    /\ touched' = TRUE
    /\ UNCHANGED <<row, review, turn, loaded, alarm, stripe, due>>

\* Mutant: a checkout that could not be closed is taken for closed.
CancelTrusting(reachable) ==
    /\ Busy
    /\ draft.status = "confirmed"
    /\ touched' = TRUE
    /\ LET paid == draft.history.received # {} /\ draft.pay # "refunded"
       IN /\ draft' = [draft EXCEPT !.status = "cancelled", !.pay = IF paid THEN "refund_pending" ELSE @]
          /\ alarm' = (alarm \/ paid)
          /\ IF ~paid /\ draft.ref # NoCheckout /\ reachable
             THEN Close(draft.ref) ELSE UNCHANGED <<stripe, due>>
    /\ UNCHANGED <<row, review, turn, loaded>>

\* cancellation_payment_review: what was paid is for a colleague, an unpaid
\* checkout is closed, and one that cannot be closed is for a colleague too.
Cancel(reachable) ==
    /\ Busy
    /\ draft.status = "confirmed"
    /\ touched' = TRUE
    /\ LET paid == draft.history.received # {} /\ draft.pay # "refunded"
           asks == ~paid /\ draft.ref # NoCheckout
           shut == asks /\ reachable /\ Closes(draft.ref)
       IN /\ draft' = [draft EXCEPT !.status = "cancelled",
                                    !.pay = IF paid THEN "refund_pending"
                                            ELSE IF shut /\ @ = "link_sent" THEN "expired" ELSE @]
          /\ alarm' = (alarm \/ paid \/ (asks /\ ~shut))
          /\ IF asks /\ reachable THEN Close(draft.ref) ELSE UNCHANGED <<stripe, due>>
    /\ UNCHANGED <<row, review, turn, loaded>>

\* Mutant: the next turn finds the rows of the last one in its session.
EndTurnKeeping ==
    /\ turn' = "idle"
    /\ touched' = FALSE /\ alarm' = FALSE
    /\ UNCHANGED <<loaded, draft, stripe, due>>

EndTurn ==
    /\ turn' = "idle"
    /\ loaded' = NoRow /\ draft' = NoRow
    /\ touched' = FALSE /\ alarm' = FALSE
    /\ UNCHANGED <<stripe, due>>

Commit ==
    /\ Busy
    /\ row' = Merged
    /\ review' = (review \/ alarm)
    /\ EndTurn

\* The worker takes the turn up again later, from the row as it is then.
Rollback ==
    /\ turn # "idle"
    /\ EndTurn
    /\ UNCHANGED <<row, review>>

-----------------------------------------------------------------------------
(* Stripe's customer and its events *)

\* The customer has the links of turns that were committed.
Pay(c) ==
    /\ c \in row.history.issued
    /\ stripe[c].status = "open"
    /\ \/ /\ stripe' = [stripe EXCEPT ![c].status = "paid"]
          /\ due' = due \cup {<<c, "paid">>}
       \/ /\ stripe' = [stripe EXCEPT ![c].status = "processing"]
          /\ UNCHANGED due
    /\ UNCHANGED <<row, review, session>>

\* A payment that takes days succeeds or fails.
Clear(c) ==
    /\ stripe[c].status = "processing"
    /\ \/ /\ stripe' = [stripe EXCEPT ![c].status = "paid"]
          /\ due' = due \cup {<<c, "paid">>}
       \/ /\ stripe' = [stripe EXCEPT ![c].status = "failed"]
          /\ due' = due \cup {<<c, "ended">>}
    /\ UNCHANGED <<row, review, session>>

Lapse(c) ==
    /\ stripe[c].status = "open"
    /\ Close(c)
    /\ UNCHANGED <<row, review, session>>

Refund(c, level) ==
    /\ stripe[c].status = "paid"
    /\ level \notin stripe[c].refunds /\ "whole" \notin stripe[c].refunds
    /\ stripe' = [stripe EXCEPT ![c].refunds = @ \cup {level}]
    /\ due' = due \cup {<<c, level>>}
    /\ UNCHANGED <<row, review, session>>

Handles(c, event) ==
    /\ ~Locked
    /\ due' = due \ {<<c, event>>}
    /\ UNCHANGED <<session, stripe>>

Problems(c) ==
    \/ c # row.ref
    \/ stripe[c].purpose = "rental_total" /\ stripe[c].amount # row.total
    \/ row.status # "confirmed"
    \/ row.history.received # {}

\* Mutant: any payment settles the rental.
PaidStatusWhole(purpose) == "paid"

PaidStatus(purpose) == IF purpose = "rental_total" THEN "paid" ELSE "deposit_paid"

\* Mutant: a receipt that does not fit is answered and forgotten.
ReceiptFitting(c) ==
    /\ stripe[c].status = "paid"
    /\ Handles(c, "paid")
    /\ row' = IF c \in row.history.received \/ c \notin row.history.issued \/ Problems(c) THEN row
              ELSE [row EXCEPT !.pay = PaidStatus(stripe[c].purpose), !.history.received = @ \cup {c}]
    /\ UNCHANGED review

\* mark_paid, for an event or for the customer's return from Stripe.
Receipt(c) ==
    /\ stripe[c].status = "paid"
    /\ Handles(c, "paid")
    /\ IF c \in row.history.received \/ c \notin row.history.issued
       THEN UNCHANGED <<row, review>>
       ELSE /\ row' = [row EXCEPT !.pay = IF Problems(c) THEN "payment_review"
                                          ELSE PaidStatus(stripe[c].purpose),
                                  !.history.received = @ \cup {c}]
            /\ review' = (review \/ Problems(c))

Unpaid == {"link_sent", "failed", "expired"}

\* mark_checkout_status
Ended(c) ==
    /\ stripe[c].status \in {"expired", "failed"}
    /\ Handles(c, "ended")
    /\ row' = IF c = row.ref /\ row.pay \in Unpaid
              THEN [row EXCEPT !.pay = stripe[c].status] ELSE row
    /\ UNCHANGED review

RefundStatus(level) ==
    IF Cardinality(row.history.received) > 1 THEN "payment_review"
    ELSE IF level = "whole" THEN "refunded" ELSE "partially_refunded"

\* mark_refunded: a refund of a payment that is not in the history, or of no more
\* than is known, changes nothing and is not reported again.
Refunded(c, level) ==
    /\ level \in stripe[c].refunds
    /\ Handles(c, level)
    /\ row' = IF c \in row.history.received /\ Above(level, row.history.refunded[c])
              THEN [row EXCEPT !.pay = RefundStatus(level), !.history.refunded[c] = level]
              ELSE row
    /\ UNCHANGED review

Next ==
    \/ Load \/ AskLink \/ CloseOld \/ LinkFails \/ Commit \/ Rollback
    \/ \E c \in Checkouts, purpose \in Purposes : OpenNew(c, purpose)
    \/ \E total \in Prices : Modify(total)
    \/ \E reachable \in BOOLEAN : Cancel(reachable)
    \/ \E c \in Checkouts : Pay(c) \/ Clear(c) \/ Lapse(c) \/ Receipt(c) \/ Ended(c)
    \/ \E c \in Checkouts, level \in Levels : Refund(c, level) \/ Refunded(c, level)

Spec == Init /\ [][Next]_vars

\* Turns end, their rounds being bounded, and Stripe repeats what is not answered:
\* a handler that waits for the row's lock gets it between two turns.
FairSpec ==
    /\ Spec
    /\ WF_vars(CloseOld \/ LinkFails) /\ SF_vars(Commit)
    /\ \A c \in Checkouts : SF_vars(Receipt(c))

-----------------------------------------------------------------------------
(* Properties *)

\* Money nobody has given back, or is about to hear of.
Kept(c) == stripe[c].status = "paid" /\ "whole" \notin stripe[c].refunds /\ <<c, "paid">> \notin due

\* A booking that is cancelled, with nobody asked to look at it, leaves the
\* customer no link to pay and the company no money to give back, also when the
\* payment came while the turn that cancels was under way; and one is called
\* refunded only if all the money went back, in whatever order the refunds are
\* reported (cancellation_payment_review, mark_paid, mark_refunded).
MoneyGoesBack ==
    /\ row.status = "cancelled" /\ ~review =>
          \A c \in row.history.issued : stripe[c].status # "open" /\ ~Kept(c)
    /\ row.pay = "refunded" =>
          \A c \in Checkouts : stripe[c].status = "paid" => "whole" \in stripe[c].refunds

\* One booking is never paid for twice, as a checkout is replaced only by closing it at
\* Stripe first, also when the turn that did so is rolled back and taken up again, and
\* one that has completed is not replaced; and the booking becomes paid only by a payment
\* of its total as committed then, never by a deposit or by a link from before a change of
\* the dates (create_payment_link, mark_paid).
PaidOnceInFull ==
    [][/\ Cardinality({c \in Checkouts : stripe'[c].status = "paid"}) <= 1
       /\ row'.pay = "paid" /\ row.pay # "paid" =>
             \E c \in Checkouts : /\ stripe[c].status = "paid"
                                  /\ stripe[c].purpose = "rental_total"
                                  /\ stripe[c].amount = row.total]_vars

\* A payment is eventually known and stays so, whatever turns do meanwhile: it is not
\* undone by the end of a checkout that is reported late, nor by a turn that loaded
\* the booking before (the handler of Stripe's events, mark_checkout_status,
\* create_payment_link, cancellation_payment_review).
MoneyReconciled ==
    \A c \in Checkouts : stripe[c].status = "paid" ~> [](row.pay \in Settled)

\* The promise the code breaks: what was received stays on the books.
ReceiptKept == [][row.history.received \subseteq row'.history.received]_vars
=============================================================================
