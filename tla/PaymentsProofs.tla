--------------------------- MODULE PaymentsProofs ----------------------------
(***************************************************************************)
(* One payment at most, and of the total: proved for any checkouts, prices *)
(* and deposit.  Stripe's events may come late, again and in any order,    *)
(* and a turn may be rolled back after what it did at Stripe.              *)
(***************************************************************************)
EXTENDS Payments, FiniteSetTheorems, TLAPS

-----------------------------------------------------------------------------
(* The inductive invariant *)

Lapsed(c) == stripe[c].status = "expired"

\* A checkout that was replaced is closed, and one that is on no booking unpaid.
Standing(ref, issued) ==
    /\ ref # NoCheckout => ref \in issued /\ stripe[ref].status # "none"
    /\ \A c \in issued : c # ref => Lapsed(c)

Replaced ==
    /\ Standing(row.ref, row.history.issued)
    /\ \A c \in Checkouts \ row.history.issued : stripe[c].status \in {"none", "open", "expired"}

\* The turn adds checkouts to those the booking has, each after the last was closed;
\* nobody else changes either.
Drafted ==
    turn # "idle" =>
        /\ Standing(draft.ref, draft.history.issued)
        /\ row.history.issued \subseteq draft.history.issued
        /\ loaded.ref = row.ref
        /\ ~touched => draft.ref = row.ref /\ draft.history.issued = row.history.issued
        /\ turn = "opening" /\ draft.ref # NoCheckout => Lapsed(draft.ref)

\* No turn makes a booking paid.
NoTurnPays == turn # "idle" => (draft.pay = "paid" => loaded.pay = "paid")

IInv == TypeOK /\ Replaced /\ Drafted /\ NoTurnPays

-----------------------------------------------------------------------------
(* Lemmas *)

LEMMA Start == Init => IInv
<1> SUFFICES ASSUME Init PROVE IInv
  OBVIOUS
<1>1. TypeOK
  <2>1. PICK total \in Prices :
          row = [status |-> "confirmed", total |-> total, ref |-> NoCheckout, pay |-> "none",
                 history |-> [issued |-> {}, received |-> {}, refunded |-> [c \in Checkouts |-> "none"]]]
    BY DEF Init
  <2>2. row \in Row
    BY <2>1 DEF Row, History, Settled
  <2>3. stripe \in [Checkouts -> Checkout]
    BY DEF Init, Checkout, Purposes
  <2> QED
    BY <2>2, <2>3 DEF Init, TypeOK
<1> QED
  BY <1>1 DEF Init, IInv, Replaced, Standing, Drafted, NoTurnPays

\* What the turn's session leaves in a row is typed as the row is.
LEMMA MergedTyped ==
  ASSUME IInv, turn # "idle"
  PROVE  /\ Merged \in Row
         /\ Merged.ref = draft.ref /\ Merged.history.issued = draft.history.issued
         /\ Merged.pay = "paid" => row.pay = "paid"
<1>1. draft \in Row /\ loaded \in Row /\ row \in Row
  BY DEF IInv, TypeOK
<1>2. Merged \in Row
  BY <1>1 DEF Merged, Row
<1>3. Merged.ref = draft.ref /\ Merged.history.issued = draft.history.issued
  BY DEF Merged, IInv, Drafted
<1>4. Merged.pay = "paid" => row.pay = "paid"
  BY DEF Merged, IInv, NoTurnPays
<1> QED
  BY <1>2, <1>3, <1>4

\* Closing what is open disturbs no checkout that stands.
LEMMA Closing ==
  ASSUME IInv, NEW c \in Checkouts, Close(c)
  PROVE  /\ stripe' \in [Checkouts -> Checkout]
         /\ due' \subseteq Checkouts \X (Levels \cup {"paid", "ended"})
         /\ \A k \in Checkouts : stripe'[k] = stripe[k]
                \/ (k = c /\ stripe[k].status = "open" /\ stripe'[k].status = "expired")
<1>1. CASE stripe[c].status = "open"
  <2>1. [stripe[c] EXCEPT !.status = "expired"] \in Checkout
    BY DEF IInv, TypeOK, Checkout
  <2> QED
    BY <1>1, <2>1 DEF Close, IInv, TypeOK, Checkout
<1>2. CASE stripe[c].status # "open"
  BY <1>2 DEF Close, IInv, TypeOK
<1> QED
  BY <1>1, <1>2

LEMMA ClosesOld == ASSUME IInv, CloseOld PROVE IInv'
<1>1. CASE draft.ref = NoCheckout
  BY <1>1 DEF CloseOld, IInv, TypeOK, Replaced, Drafted, Standing, NoTurnPays, Lapsed
<1>2. CASE draft.ref # NoCheckout
  <2>1. draft.ref \in Checkouts
    BY <1>2 DEF IInv, TypeOK, Row, CloseOld
  <2>2. /\ stripe' \in [Checkouts -> Checkout]
        /\ due' \subseteq Checkouts \X (Levels \cup {"paid", "ended"})
        /\ \A k \in Checkouts : stripe'[k] = stripe[k]
                \/ (k = draft.ref /\ stripe[k].status = "open" /\ stripe'[k].status = "expired")
    BY <1>2, <2>1, Closing DEF CloseOld
  <2>3. TypeOK'
    BY <2>2 DEF CloseOld, IInv, TypeOK
  <2>4. Closes(draft.ref) => Lapsed(draft.ref)'
    BY <1>2, <2>1 DEF CloseOld, Close, Closes, Lapsed, IInv, TypeOK, Checkout
  <2>5. row.history.issued \subseteq Checkouts /\ draft.history.issued \subseteq Checkouts
    BY DEF CloseOld, IInv, TypeOK, Row, History
  <2>6. Replaced'
    BY <2>1, <2>2, <2>5 DEF CloseOld, IInv, Replaced, Standing, Lapsed, TypeOK, Row
  <2>7. Drafted'
    BY <1>2, <2>1, <2>2, <2>4, <2>5 DEF CloseOld, IInv, Drafted, Standing, Lapsed
  <2>8. NoTurnPays'
    BY DEF CloseOld, IInv, NoTurnPays
  <2> QED
    BY <2>3, <2>6, <2>7, <2>8 DEF IInv
<1> QED
  BY <1>1, <1>2

\* The row a turn has loaded is the row there is.
LEMMA Loads == ASSUME IInv, Load PROVE IInv'
<1>1. TypeOK'
  BY DEF Load, IInv, TypeOK
<1>2. Replaced' /\ Drafted' /\ NoTurnPays'
  BY DEF Load, IInv, Replaced, Drafted, Standing, NoTurnPays, Lapsed
<1> QED
  BY <1>1, <1>2 DEF IInv

LEMMA AsksLink == ASSUME IInv, AskLink PROVE IInv'
<1>1. turn # "idle"
  BY DEF AskLink, Busy
<1>2. /\ Merged \in Row /\ Merged.ref = draft.ref /\ Merged.history.issued = draft.history.issued
      /\ Merged.pay = "paid" => row.pay = "paid"
  BY <1>1, MergedTyped
<1>3. /\ loaded' = row /\ draft' = Merged /\ turn' \in {"linking", "locked"}
      /\ UNCHANGED <<row, review, touched, alarm, stripe, due>>
  BY DEF AskLink
<1>4. TypeOK'
  BY <1>2, <1>3 DEF IInv, TypeOK
<1>5. Replaced' /\ NoTurnPays'
  BY <1>2, <1>3 DEF IInv, Replaced, Standing, NoTurnPays, Lapsed
<1>6. Drafted'
  BY <1>1, <1>2, <1>3 DEF IInv, Drafted, Standing, Lapsed
<1> QED
  BY <1>4, <1>5, <1>6 DEF IInv

LEMMA FailsToLink == ASSUME IInv, LinkFails PROVE IInv'
  BY DEF LinkFails, IInv, TypeOK, Replaced, Drafted, Standing, NoTurnPays, Lapsed

LEMMA Opens ==
  ASSUME IInv, NEW c \in Checkouts, NEW purpose \in Purposes, OpenNew(c, purpose)
  PROVE  IInv'
<1> DEFINE new == [status |-> "open", amount |-> AmountFor(purpose), purpose |-> purpose,
                   refunds |-> {}]
<1>1. draft \in Row /\ draft.history \in History /\ draft.total \in Prices
  BY DEF OpenNew, IInv, TypeOK, Row
<1>2. new \in Checkout
  BY <1>1 DEF AmountFor, Checkout
<1>3. /\ draft' \in Row /\ draft'.ref = c /\ draft'.pay = "link_sent"
      /\ draft'.history.issued = draft.history.issued \cup {c}
  <2>1. [draft.history EXCEPT !.issued = @ \cup {c}] \in History
    BY <1>1 DEF History
  <2>2. draft' = [draft EXCEPT !.ref = c, !.pay = "link_sent",
                               !.history = [draft.history EXCEPT !.issued = @ \cup {c}]]
    BY <1>1 DEF OpenNew, Row
  <2> QED
    BY <1>1, <2>1, <2>2 DEF Row, History
<1>4. /\ stripe' \in [Checkouts -> Checkout] /\ stripe'[c] = new
      /\ \A k \in Checkouts \ {c} : stripe'[k] = stripe[k]
  BY <1>2 DEF OpenNew, IInv, TypeOK
<1>5. /\ turn = "opening" /\ turn' = "locked" /\ touched' = TRUE
      /\ UNCHANGED <<row, review, loaded, alarm, due>>
  BY DEF OpenNew
<1>6. TypeOK'
  BY <1>3, <1>4, <1>5 DEF IInv, TypeOK
<1>7. row.history.issued \subseteq Checkouts /\ draft.history.issued \subseteq Checkouts
  BY <1>5 DEF IInv, TypeOK, Row, History
<1>8. c \notin draft.history.issued /\ \A k \in draft.history.issued : Lapsed(k)
  <2>1. stripe[c].status \in {"none", "open"}
    BY DEF OpenNew, Reusable
  <2>2. ASSUME NEW k \in draft.history.issued PROVE Lapsed(k)
    <3>1. k # NoCheckout
      BY <1>7, PaymentsAssumption
    <3> QED
      BY <1>5, <3>1 DEF IInv, Drafted, Standing
  <2> QED
    BY <2>1, <2>2 DEF Lapsed
<1>9. Replaced'
  <2>1. c \notin row.history.issued
    BY <1>5, <1>8 DEF IInv, Drafted
  <2>2. row.ref # c
    BY <2>1, PaymentsAssumption DEF IInv, Replaced, Standing
  <2>3. stripe'[c].status = "open"
    BY <1>4
  <2>4. Standing(row.ref, row.history.issued)'
    <3>1. row.ref # NoCheckout => row.ref \in Checkouts /\ stripe'[row.ref] = stripe[row.ref]
      BY <1>4, <1>7, <2>2 DEF IInv, Replaced, Standing
    <3>2. \A k \in row.history.issued : stripe'[k] = stripe[k]
      BY <1>4, <1>7, <2>1
    <3> QED
      BY <1>5, <3>1, <3>2 DEF IInv, Replaced, Standing, Lapsed
  <2>5. \A k \in Checkouts \ row.history.issued : stripe'[k].status \in {"none", "open", "expired"}
    BY <1>4, <2>3 DEF IInv, Replaced
  <2> QED
    BY <1>5, <2>4, <2>5 DEF Replaced
<1>10. Drafted'
  <2>1. \A k \in draft.history.issued : Lapsed(k)'
    BY <1>4, <1>5, <1>7, <1>8 DEF Lapsed
  <2>2. stripe'[c].status # "none"
    BY <1>4
  <2>3. Standing(draft.ref, draft.history.issued)'
    BY <1>3, <2>1, <2>2 DEF Standing
  <2> QED
    BY <1>3, <1>5, <2>3 DEF IInv, Drafted
<1>11. NoTurnPays'
  BY <1>3 DEF NoTurnPays
<1> QED
  BY <1>6, <1>9, <1>10, <1>11 DEF IInv

\* A turn that changes the booking or cancels it leaves its checkouts to it.
LEMMA Redrafts ==
  ASSUME IInv, turn # "idle", NEW total \in Prices, NEW status \in {"confirmed", "cancelled"},
         NEW pay, pay \in {draft.pay, "refund_pending", "expired"},
         draft' = [draft EXCEPT !.total = total, !.status = status, !.pay = pay],
         touched' = TRUE, alarm' \in BOOLEAN, UNCHANGED <<row, review, turn, loaded>>,
         turn # "opening",
         \/ UNCHANGED <<stripe, due>> \/ \E c \in Checkouts : Close(c)
  PROVE  IInv'
<1>1. /\ draft \in Row /\ draft' \in Row /\ draft'.ref = draft.ref /\ draft'.history = draft.history
      /\ draft'.pay = pay
  <2>1. draft \in Row
    BY DEF IInv, TypeOK
  <2>2. pay \in Settled \cup {"none", "link_sent", "expired", "failed"}
    BY <2>1 DEF Row, Settled
  <2> QED
    BY <2>1, <2>2 DEF Row
<1>2. /\ stripe' \in [Checkouts -> Checkout] /\ due' \subseteq Checkouts \X (Levels \cup {"paid", "ended"})
      /\ \A k \in Checkouts : \/ stripe'[k] = stripe[k]
                              \/ stripe[k].status = "open" /\ stripe'[k].status = "expired"
  <2>1. CASE UNCHANGED <<stripe, due>>
    BY <2>1 DEF IInv, TypeOK
  <2>2. CASE \E c \in Checkouts : Close(c)
    <3>1. PICK c \in Checkouts : Close(c)
      BY <2>2
    <3> QED
      BY <3>1, Closing
  <2> QED
    BY <2>1, <2>2
<1>3. TypeOK'
  BY <1>1, <1>2 DEF IInv, TypeOK
<1>4. row.history.issued \subseteq Checkouts /\ draft.history.issued \subseteq Checkouts
  BY <1>1 DEF IInv, TypeOK, Row, History
<1>5. Replaced'
  <2>1. row.ref # NoCheckout => row.ref \in Checkouts
    BY <1>4 DEF IInv, Replaced, Standing
  <2> QED
    BY <1>2, <1>4, <2>1 DEF IInv, Replaced, Standing, Lapsed
<1>6. Drafted'
  <2>1. draft.ref # NoCheckout => draft.ref \in Checkouts
    BY <1>4 DEF IInv, Drafted, Standing
  <2> QED
    BY <1>1, <1>2, <1>4, <2>1 DEF IInv, Drafted, Standing, Lapsed
<1>7. NoTurnPays'
  BY <1>1 DEF IInv, NoTurnPays
<1> QED
  BY <1>3, <1>5, <1>6, <1>7 DEF IInv

LEMMA Modifies == ASSUME IInv, NEW total \in Prices, Modify(total) PROVE IInv'
<1>1. draft \in Row /\ turn # "idle" /\ turn # "opening"
  BY DEF Modify, Busy, IInv, TypeOK
<1>2. draft' = [draft EXCEPT !.total = total, !.status = draft.status, !.pay = draft.pay]
  BY <1>1 DEF Modify, Row
<1>3. alarm' \in BOOLEAN
  BY DEF Modify, IInv, TypeOK
<1> QED
  BY <1>1, <1>2, <1>3, Redrafts DEF Modify, Row

LEMMA Cancels == ASSUME IInv, NEW reachable \in BOOLEAN, Cancel(reachable) PROVE IInv'
<1>1. draft \in Row /\ turn # "idle" /\ turn # "opening"
  BY DEF Cancel, Busy, IInv, TypeOK
<1>2. PICK pay \in {draft.pay, "refund_pending", "expired"} :
        draft' = [draft EXCEPT !.status = "cancelled", !.pay = pay]
  BY DEF Cancel
<1>3. draft' = [draft EXCEPT !.total = draft.total, !.status = "cancelled", !.pay = pay]
  BY <1>1, <1>2 DEF Row
<1>4. alarm' \in BOOLEAN /\ touched' = TRUE /\ UNCHANGED <<row, review, turn, loaded>>
  BY DEF Cancel, IInv, TypeOK
<1>5. UNCHANGED <<stripe, due>> \/ \E c \in Checkouts : Close(c)
  BY <1>1 DEF Cancel, Row
<1> QED
  BY <1>1, <1>3, <1>4, <1>5, Redrafts DEF Row

-----------------------------------------------------------------------------
(* The end of a turn *)

LEMMA Ends ==
  ASSUME IInv, EndTurn, row' \in Row, review' \in BOOLEAN, Replaced'
  PROVE  IInv'
<1>1. TypeOK'
  BY DEF EndTurn, IInv, TypeOK
<1>2. Drafted' /\ NoTurnPays'
  BY DEF EndTurn, Drafted, NoTurnPays
<1> QED
  BY <1>1, <1>2 DEF IInv

\* What a turn has opened is on no booking until it commits.
LEMMA Commits == ASSUME IInv, Commit PROVE IInv'
<1>1. turn # "idle" /\ row' = Merged /\ stripe' = stripe /\ EndTurn
  BY DEF Commit, EndTurn, Busy
<1>2. row' \in Row /\ row'.ref = draft.ref /\ row'.history.issued = draft.history.issued
  BY <1>1, MergedTyped
<1>3. review' \in BOOLEAN
  BY DEF Commit, IInv, TypeOK
<1>4. Standing(row.ref, row.history.issued)'
  BY <1>1, <1>2 DEF IInv, Drafted, Standing, Lapsed
<1>5. \A c \in Checkouts \ row'.history.issued : stripe'[c].status \in {"none", "open", "expired"}
  BY <1>1, <1>2 DEF IInv, Replaced, Drafted
<1> QED
  BY <1>1, <1>2, <1>3, <1>4, <1>5, Ends DEF Replaced

LEMMA RollsBack == ASSUME IInv, Rollback PROVE IInv'
<1>1. EndTurn /\ stripe' = stripe /\ row' = row /\ review' = review
  BY DEF Rollback, EndTurn
<1>2. Replaced'
  BY <1>1 DEF IInv, Replaced, Standing, Lapsed
<1> QED
  BY <1>1, <1>2, Ends DEF IInv, TypeOK

-----------------------------------------------------------------------------
(* Stripe's customer and its events *)

\* A checkout may be paid only while it is the one on the booking, and what is closed
\* stays so: what Stripe does disturbs no checkout that stands.
LEMMA Moves ==
  ASSUME IInv, NEW c \in Checkouts, NEW status \in {"paid", "processing", "failed", "expired"},
         stripe[c].status \in {"open", "processing"},
         status = "expired" \/ c \in row.history.issued,
         stripe' = [stripe EXCEPT ![c].status = status],
         due' \subseteq Checkouts \X (Levels \cup {"paid", "ended"}),
         UNCHANGED <<row, review, session>>
  PROVE  IInv'
<1>1. [stripe[c] EXCEPT !.status = status] \in Checkout
  BY DEF IInv, TypeOK, Checkout
<1>2. /\ stripe' \in [Checkouts -> Checkout] /\ stripe'[c].status = status
      /\ \A k \in Checkouts \ {c} : stripe'[k] = stripe[k]
  BY <1>1 DEF IInv, TypeOK, Checkout
<1>3. TypeOK'
  BY <1>2 DEF IInv, TypeOK, session
<1>4. \A k \in Checkouts : Lapsed(k) => Lapsed(k)'
  BY <1>2 DEF Lapsed
<1>5. \A k \in Checkouts : stripe[k].status # "none" => stripe'[k].status # "none"
  BY <1>2
<1>6. row \in Row /\ row.history.issued \subseteq Checkouts
  BY DEF IInv, TypeOK, Row, History
<1>7. Replaced'
  BY <1>2, <1>4, <1>5, <1>6 DEF IInv, Replaced, Standing
<1>8. Drafted'
  <2>1. CASE turn = "idle"
    BY <2>1 DEF Drafted, session
  <2>2. CASE turn # "idle"
    <3>1. draft.history.issued \subseteq Checkouts
      BY <2>2 DEF IInv, TypeOK, Row, History
    <3>2. draft.ref # NoCheckout => draft.ref \in Checkouts
      BY <2>2, <3>1 DEF IInv, Drafted, Standing
    <3> QED
      BY <1>4, <1>5, <2>2, <3>1, <3>2 DEF IInv, Drafted, Standing, session
  <2> QED
    BY <2>1, <2>2
<1>9. NoTurnPays'
  BY DEF IInv, NoTurnPays, session
<1> QED
  BY <1>3, <1>7, <1>8, <1>9 DEF IInv

LEMMA Pays == ASSUME IInv, NEW c \in Checkouts, Pay(c) PROVE IInv'
<1>1. PICK status \in {"paid", "processing"} : stripe' = [stripe EXCEPT ![c].status = status]
  BY DEF Pay
<1>2. due' \subseteq Checkouts \X (Levels \cup {"paid", "ended"})
  BY DEF Pay, IInv, TypeOK
<1>3. c \in row.history.issued /\ stripe[c].status = "open" /\ UNCHANGED <<row, review, session>>
  BY DEF Pay
<1> QED
  BY <1>1, <1>2, <1>3, Moves

LEMMA Clears == ASSUME IInv, NEW c \in Checkouts, Clear(c) PROVE IInv'
<1>1. PICK status \in {"paid", "failed"} : stripe' = [stripe EXCEPT ![c].status = status]
  BY DEF Clear
<1>2. due' \subseteq Checkouts \X (Levels \cup {"paid", "ended"})
  BY DEF Clear, IInv, TypeOK
<1>3. stripe[c].status = "processing" /\ UNCHANGED <<row, review, session>>
  BY DEF Clear
<1>4. c \in row.history.issued
  BY <1>3 DEF IInv, Replaced
<1> QED
  BY <1>1, <1>2, <1>3, <1>4, Moves

LEMMA Lapses == ASSUME IInv, NEW c \in Checkouts, Lapse(c) PROVE IInv'
<1>1. due' \subseteq Checkouts \X (Levels \cup {"paid", "ended"})
  BY Closing DEF Lapse
<1>2. stripe[c].status = "open" /\ stripe' = [stripe EXCEPT ![c].status = "expired"]
      /\ UNCHANGED <<row, review, session>>
  BY DEF Lapse, Close
<1> QED
  BY <1>1, <1>2, Moves

LEMMA Refunds == ASSUME IInv, NEW c \in Checkouts, NEW level \in Levels, Refund(c, level) PROVE IInv'
<1>1. [stripe[c] EXCEPT !.refunds = @ \cup {level}] \in Checkout
  BY DEF IInv, TypeOK, Checkout
<1>2. /\ stripe' \in [Checkouts -> Checkout]
      /\ \A k \in Checkouts : stripe'[k].status = stripe[k].status
  BY <1>1 DEF Refund, IInv, TypeOK, Checkout
<1>3. TypeOK'
  BY <1>2 DEF Refund, IInv, TypeOK, session
<1>4. \A k \in Checkouts : Lapsed(k) => Lapsed(k)'
  BY <1>2 DEF Lapsed
<1>5. row.history.issued \subseteq Checkouts
  BY DEF IInv, TypeOK, Row, History
<1>6. Replaced'
  BY <1>2, <1>4, <1>5 DEF Refund, IInv, Replaced, Standing
<1>7. Drafted'
  <2>1. CASE turn = "idle"
    BY <2>1 DEF Refund, Drafted, session
  <2>2. CASE turn # "idle"
    <3>1. draft.history.issued \subseteq Checkouts
      BY <2>2 DEF IInv, TypeOK, Row, History
    <3>2. draft.ref # NoCheckout => draft.ref \in Checkouts
      BY <2>2, <3>1 DEF IInv, Drafted, Standing
    <3> QED
      BY <1>2, <1>4, <2>2, <3>1, <3>2 DEF Refund, IInv, Drafted, Standing, session
  <2> QED
    BY <2>1, <2>2
<1>8. NoTurnPays'
  BY DEF Refund, IInv, NoTurnPays, session
<1> QED
  BY <1>3, <1>6, <1>7, <1>8 DEF IInv

\* What a handler writes in the row leaves its checkouts to it.
LEMMA Handled ==
  ASSUME IInv, UNCHANGED <<session, stripe>>, due' \subseteq due,
         row' \in Row, review' \in BOOLEAN,
         row'.ref = row.ref, row'.history.issued = row.history.issued
  PROVE  IInv'
<1>1. TypeOK'
  BY DEF IInv, TypeOK, session
<1>2. Replaced'
  BY DEF IInv, Replaced, Standing, Lapsed
<1>3. Drafted'
  BY DEF IInv, Drafted, Standing, Lapsed, session
<1>4. NoTurnPays'
  BY DEF IInv, NoTurnPays, session
<1> QED
  BY <1>1, <1>2, <1>3, <1>4 DEF IInv

LEMMA Receives == ASSUME IInv, NEW c \in Checkouts, Receipt(c) PROVE IInv'
<1>1. row \in Row /\ row.history \in History /\ stripe[c] \in Checkout
  BY DEF IInv, TypeOK, Row
<1>2. UNCHANGED <<session, stripe>> /\ due' \subseteq due
  BY DEF Receipt, Handles
<1>3. review' \in BOOLEAN
  BY DEF Receipt, Problems, IInv, TypeOK
<1>4. row' \in Row /\ row'.ref = row.ref /\ row'.history.issued = row.history.issued
  <2>1. CASE c \in row.history.received \/ c \notin row.history.issued
    BY <1>1, <2>1 DEF Receipt
  <2>2. CASE ~(c \in row.history.received \/ c \notin row.history.issued)
    <3> DEFINE kept == [row.history EXCEPT !.received = @ \cup {c}]
               paid == IF Problems(c) THEN "payment_review" ELSE PaidStatus(stripe[c].purpose)
    <3>1. kept \in History /\ kept.issued = row.history.issued
      BY <1>1 DEF History
    <3>2. paid \in Settled
      BY DEF PaidStatus, Settled
    <3>3. row' = [row EXCEPT !.pay = paid, !.history = kept]
      BY <1>1, <2>2 DEF Receipt, Row
    <3> HIDE DEF kept, paid
    <3> QED
      BY <1>1, <3>1, <3>2, <3>3 DEF Row
  <2> QED
    BY <2>1, <2>2
<1> QED
  BY <1>2, <1>3, <1>4, Handled

LEMMA HearsOfEnd == ASSUME IInv, NEW c \in Checkouts, Ended(c) PROVE IInv'
<1>1. row \in Row
  BY DEF IInv, TypeOK
<1>2. UNCHANGED <<session, stripe>> /\ due' \subseteq due /\ review' \in BOOLEAN
  BY DEF Ended, Handles, IInv, TypeOK
<1>3. row' \in Row /\ row'.ref = row.ref /\ row'.history.issued = row.history.issued
  BY <1>1 DEF Ended, Row
<1> QED
  BY <1>2, <1>3, Handled

LEMMA HearsOfRefund ==
  ASSUME IInv, NEW c \in Checkouts, NEW level \in Levels, Refunded(c, level)
  PROVE  IInv'
<1>1. row \in Row /\ row.history \in History
  BY DEF IInv, TypeOK, Row
<1>2. UNCHANGED <<session, stripe>> /\ due' \subseteq due /\ review' \in BOOLEAN
  BY DEF Refunded, Handles, IInv, TypeOK
<1>3. row' \in Row /\ row'.ref = row.ref /\ row'.history.issued = row.history.issued
  <2> DEFINE kept == [row.history EXCEPT !.refunded[c] = level]
             changed == [row EXCEPT !.pay = RefundStatus(level), !.history = kept]
  <2>1. kept \in History /\ kept.issued = row.history.issued
    BY <1>1 DEF History
  <2>2. RefundStatus(level) \in Settled
    BY DEF RefundStatus, Settled
  <2>3. row' \in {row, changed}
    BY <1>1 DEF Refunded, Row
  <2> HIDE DEF kept
  <2> QED
    BY <1>1, <2>1, <2>2, <2>3 DEF Row
<1> QED
  BY <1>2, <1>3, Handled

-----------------------------------------------------------------------------
(* The theorems *)

LEMMA Inductive == IInv /\ [Next]_vars => IInv'
<1> SUFFICES ASSUME IInv, [Next]_vars PROVE IInv'
  OBVIOUS
<1>1. CASE Load \/ AskLink \/ CloseOld \/ LinkFails \/ Commit \/ Rollback
  BY <1>1, Loads, AsksLink, ClosesOld, FailsToLink, Commits, RollsBack
<1>2. CASE \E c \in Checkouts, purpose \in Purposes : OpenNew(c, purpose)
  BY <1>2, Opens
<1>3. CASE \E total \in Prices : Modify(total)
  BY <1>3, Modifies
<1>4. CASE \E reachable \in BOOLEAN : Cancel(reachable)
  BY <1>4, Cancels
<1>5. CASE \E c \in Checkouts : Pay(c) \/ Clear(c) \/ Lapse(c) \/ Receipt(c) \/ Ended(c)
  BY <1>5, Pays, Clears, Lapses, Receives, HearsOfEnd
<1>6. CASE \E c \in Checkouts, level \in Levels : Refund(c, level) \/ Refunded(c, level)
  BY <1>6, Refunds, HearsOfRefund
<1>7. CASE UNCHANGED vars
  <2>1. UNCHANGED <<session, stripe>> /\ UNCHANGED <<row, review, due>>
    BY <1>7 DEF vars
  <2> QED
    BY <2>1, Handled DEF IInv, TypeOK
<1> QED
  BY <1>1, <1>2, <1>3, <1>4, <1>5, <1>6, <1>7 DEF Next

LEMMA Always == Spec => []IInv
<1>1. Spec => []IInv
  BY Start, Inductive, PTL DEF Spec
<1> QED
  BY <1>1

\* Rows, sessions and checkouts keep their types, whatever a turn merges into a row
\* that Stripe's events have changed meanwhile.
THEOREM PaymentsTypeCorrect == Spec => []TypeOK
<1>1. IInv => TypeOK
  BY DEF IInv
<1> QED
  BY <1>1, Always, PTL

\* At most the checkout that is on the booking is paid.
LEMMA OneIsPaid == IInv => Cardinality({c \in Checkouts : stripe[c].status = "paid"}) <= 1
<1> SUFFICES ASSUME IInv PROVE Cardinality({c \in Checkouts : stripe[c].status = "paid"}) <= 1
  OBVIOUS
<1> DEFINE paid == {c \in Checkouts : stripe[c].status = "paid"}
<1>1. paid \subseteq {row.ref}
  BY DEF IInv, Replaced, Standing, Lapsed
<1>2. IsFiniteSet({row.ref}) /\ Cardinality({row.ref}) = 1
  BY FS_Singleton
<1>3. Cardinality(paid) <= Cardinality({row.ref})
  BY <1>1, <1>2, FS_Subset
<1> QED
  BY <1>2, <1>3

\* A booking becomes paid only by the receipt of its total.
LEMMA PaidByTotal ==
  ASSUME IInv, [Next]_vars, row'.pay = "paid", row.pay # "paid"
  PROVE  \E c \in Checkouts : /\ stripe[c].status = "paid"
                              /\ stripe[c].purpose = "rental_total"
                              /\ stripe[c].amount = row.total
<1>1. CASE Commit
  <2>1. turn # "idle" /\ row' = Merged
    BY <1>1 DEF Commit, Busy
  <2> QED
    BY <2>1, MergedTyped
<1>2. CASE \E c \in Checkouts : Receipt(c)
  <2>1. PICK c \in Checkouts : Receipt(c)
    BY <1>2
  <2>2. row \in Row /\ stripe[c] \in Checkout
    BY DEF IInv, TypeOK
  <2>3. ~Problems(c) /\ PaidStatus(stripe[c].purpose) = "paid"
    BY <2>1, <2>2 DEF Receipt, Row
  <2>4. stripe[c].status = "paid" /\ stripe[c].purpose = "rental_total"
    BY <2>1, <2>3 DEF Receipt, PaidStatus
  <2> QED
    BY <2>3, <2>4 DEF Problems
<1>3. CASE \E c \in Checkouts : Ended(c)
  <2>1. PICK c \in Checkouts : Ended(c)
    BY <1>3
  <2> QED
    BY <2>1 DEF Ended, IInv, TypeOK, Row
<1>4. CASE \E c \in Checkouts, level \in Levels : Refunded(c, level)
  <2>1. PICK c \in Checkouts, level \in Levels : Refunded(c, level)
    BY <1>4
  <2> QED
    BY <2>1 DEF Refunded, RefundStatus, IInv, TypeOK, Row
<1>5. CASE UNCHANGED row
  BY <1>5
<1>6. UNCHANGED row \/ Commit \/ \E c \in Checkouts : Receipt(c) \/ Ended(c)
        \/ \E level \in Levels : Refunded(c, level)
  BY DEF Next, vars, Load, AskLink, CloseOld, LinkFails, Rollback, OpenNew, Modify, Cancel, Pay,
         Clear, Lapse, Refund
<1> QED
  BY <1>1, <1>2, <1>3, <1>4, <1>5, <1>6

\* One booking is never paid for twice, and becomes paid only by a payment of its total
\* as it was committed then: a checkout is replaced only once it is closed at Stripe,
\* also by a turn that is rolled back and taken up again (create_payment_link, mark_paid).
THEOREM NeverPaidTwice == Spec => PaidOnceInFull
<1>1. IInv /\ IInv' /\ [Next]_vars =>
        [/\ Cardinality({c \in Checkouts : stripe'[c].status = "paid"}) <= 1
         /\ row'.pay = "paid" /\ row.pay # "paid" =>
               \E c \in Checkouts : /\ stripe[c].status = "paid"
                                    /\ stripe[c].purpose = "rental_total"
                                    /\ stripe[c].amount = row.total]_vars
  <2> SUFFICES ASSUME IInv, IInv', [Next]_vars
               PROVE  /\ Cardinality({c \in Checkouts : stripe'[c].status = "paid"}) <= 1
                      /\ row'.pay = "paid" /\ row.pay # "paid" =>
                            \E c \in Checkouts : /\ stripe[c].status = "paid"
                                                 /\ stripe[c].purpose = "rental_total"
                                                 /\ stripe[c].amount = row.total
    OBVIOUS
  <2>1. Cardinality({c \in Checkouts : stripe[c].status = "paid"}') <= 1
    <3>1. (Cardinality({c \in Checkouts : stripe[c].status = "paid"}) <= 1)'
      BY OneIsPaid, PTL
    <3> QED
      BY <3>1
  <2> QED
    BY <2>1, PaidByTotal
<1> QED
  BY <1>1, Always, PTL DEF Spec, PaidOnceInFull
-----------------------------------------------------------------------------
(* Where the money is *)

\* A cancelled booking leaves no checkout that can be paid or was.
Shut(r) == r.status = "cancelled" => \A c \in r.history.issued : Lapsed(c)

Honest(r) == \A c \in r.history.received : stripe[c].status = "paid"

Returned(ref) ==
    ref # NoCheckout /\ stripe[ref].status = "paid" /\ "whole" \in stripe[ref].refunds

Booked ==
    /\ review \/ Shut(row)
    /\ Honest(row)
    /\ row.pay = "refunded" => Returned(row.ref)

\* The turn cancels what it has found closed, or raises the alarm; while it waits for
\* the lock only the handlers write the row, and from then on nobody.
Turned ==
    turn # "idle" =>
        /\ alarm \/ review \/ Shut(draft)
        /\ Honest(draft)
        /\ draft.pay = "refunded" => loaded.pay = "refunded"
        /\ loaded.status = row.status
        /\ Locked => loaded = row
        /\ turn \in {"linking", "opening"} => draft.status = "confirmed"
        /\ draft.ref # row.ref => Locked /\ draft.pay # "refunded"

Money == Booked /\ Turned

\* At Stripe, what is closed stays closed, what is paid stays paid and what was
\* refunded stays refunded.
Grows ==
    \A k \in Checkouts :
        /\ Lapsed(k) => Lapsed(k)'
        /\ stripe[k].status = "paid" =>
              stripe'[k].status = "paid" /\ stripe[k].refunds \subseteq stripe'[k].refunds

LEMMA ClosingGrows == ASSUME IInv, NEW c \in Checkouts, Close(c) PROVE Grows
BY Closing DEF Grows, Lapsed

LEMMA StripeGrows == ASSUME IInv, [Next]_vars PROVE Grows
<1>0. stripe \in [Checkouts -> Checkout]
  BY DEF IInv, TypeOK
<1>1. CASE UNCHANGED stripe
  BY <1>1 DEF Grows, Lapsed
<1>2. CASE CloseOld
  <2>1. CASE draft.ref = NoCheckout
    BY <1>1, <1>2, <2>1 DEF CloseOld
  <2>2. CASE draft.ref # NoCheckout
    <3>1. draft.ref \in Checkouts
      BY <1>2, <2>2 DEF CloseOld, IInv, TypeOK, Row
    <3> QED  BY <1>2, <2>2, <3>1, ClosingGrows DEF CloseOld
  <2> QED  BY <2>1, <2>2
<1>3. CASE \E c \in Checkouts, purpose \in Purposes : OpenNew(c, purpose)
  <2>1. PICK c \in Checkouts, purpose \in Purposes : OpenNew(c, purpose)
    BY <1>3
  <2>2. stripe[c].status \in {"none", "open"} /\ \A k \in Checkouts \ {c} : stripe'[k] = stripe[k]
    BY <1>0, <2>1 DEF OpenNew, Reusable
  <2> QED  BY <2>2 DEF Grows, Lapsed
<1>4. CASE \E reachable \in BOOLEAN : Cancel(reachable)
  <2>1. PICK reachable \in BOOLEAN : Cancel(reachable)
    BY <1>4
  <2>2. CASE UNCHANGED stripe
    BY <1>1, <2>2
  <2>3. CASE draft.ref # NoCheckout /\ Close(draft.ref)
    <3>1. draft.ref \in Checkouts
      BY <2>1, <2>3 DEF Cancel, Busy, IInv, TypeOK, Row
    <3> QED  BY <2>3, <3>1, ClosingGrows
  <2> QED  BY <2>1, <2>2, <2>3 DEF Cancel
<1>5. CASE \E c \in Checkouts : Pay(c) \/ Clear(c) \/ Lapse(c)
  <2>1. PICK c \in Checkouts : Pay(c) \/ Clear(c) \/ Lapse(c)
    BY <1>5
  <2>2. CASE Pay(c)
    BY <1>0, <2>2 DEF Pay, Grows, Lapsed
  <2>3. CASE Clear(c)
    BY <1>0, <2>3 DEF Clear, Grows, Lapsed
  <2>4. CASE Lapse(c)
    BY <2>4, ClosingGrows DEF Lapse
  <2> QED  BY <2>1, <2>2, <2>3, <2>4
<1>6. CASE \E c \in Checkouts, level \in Levels : Refund(c, level)
  <2>1. PICK c \in Checkouts, level \in Levels : Refund(c, level)
    BY <1>6
  <2>2. /\ \A k \in Checkouts \ {c} : stripe'[k] = stripe[k]
        /\ stripe'[c].status = stripe[c].status /\ stripe'[c].refunds = stripe[c].refunds \cup {level}
    BY <1>0, <2>1 DEF Refund, Checkout
  <2> QED  BY <2>2 DEF Grows, Lapsed
<1>7. \/ UNCHANGED stripe \/ CloseOld
      \/ \E c \in Checkouts, purpose \in Purposes : OpenNew(c, purpose)
      \/ \E reachable \in BOOLEAN : Cancel(reachable)
      \/ \E c \in Checkouts : Pay(c) \/ Clear(c) \/ Lapse(c)
      \/ \E c \in Checkouts, level \in Levels : Refund(c, level)
  BY DEF Next, vars, Load, AskLink, LinkFails, Commit, Rollback, EndTurn, Modify, Receipt, Ended,
         Refunded, Handles
<1> QED  BY <1>1, <1>2, <1>3, <1>4, <1>5, <1>6, <1>7

\* What is true of a row of Stripe's checkouts stays so.
LEMMA BookedStays ==
  ASSUME TypeOK, Booked, Grows, UNCHANGED row, review => review'
  PROVE  Booked'
<1>1. /\ row \in Row /\ row.history.issued \subseteq Checkouts
      /\ row.history.received \subseteq Checkouts /\ row.ref \in Checkouts \cup {NoCheckout}
  BY DEF TypeOK, Row, History
<1>2. Shut(row) => Shut(row)'
  BY <1>1 DEF Shut, Grows
<1>3. Honest(row) => Honest(row)'
  BY <1>1 DEF Honest, Grows
<1>4. Returned(row.ref) => Returned(row.ref)'
  BY <1>1 DEF Returned, Grows
<1> QED  BY <1>2, <1>3, <1>4 DEF Booked

LEMMA DraftStays ==
  ASSUME TypeOK, turn # "idle", Grows, UNCHANGED draft
  PROVE  /\ Shut(draft) => Shut(draft)'
         /\ Honest(draft) => Honest(draft)'
<1>1. /\ draft.history.issued \subseteq Checkouts /\ draft.history.received \subseteq Checkouts
  BY DEF TypeOK, Row, History
<1> QED  BY <1>1 DEF Shut, Honest, Grows

LEMMA TurnStays ==
  ASSUME TypeOK, Turned, Grows, UNCHANGED <<row, review, session>>
  PROVE  Turned'
<1>1. CASE turn = "idle"
  BY <1>1 DEF Turned, session
<1>2. CASE turn # "idle"
  <2>1. /\ Shut(draft) => Shut(draft)'
        /\ Honest(draft) => Honest(draft)'
    BY <1>2, DraftStays DEF session
  <2> QED  BY <1>2, <2>1 DEF Turned, Locked, session
<1> QED  BY <1>1, <1>2

\* What a turn says of the money, it says as long as nothing is written.
LEMMA MoneyAside ==
  ASSUME IInv, Money, [Next]_vars, UNCHANGED <<row, review, session>>
  PROVE  Money'
BY StripeGrows, BookedStays, TurnStays DEF Money, IInv

LEMMA MoneyLoad == ASSUME IInv, Money, Load PROVE Money'
<1>1. /\ turn' = "working" /\ loaded' = row /\ draft' = row
      /\ UNCHANGED <<row, review, touched, alarm, stripe, due>>
  BY DEF Load
<1>2. Booked'
  BY <1>1 DEF Money, Booked, Shut, Honest, Returned, Lapsed
<1>3. Turned'
  BY <1>1 DEF Money, Booked, Turned, Shut, Honest, Lapsed, Locked
<1> QED  BY <1>2, <1>3 DEF Money

\* What a turn has set and what it has not, as it is merged.
LEMMA MergedMoney ==
  ASSUME IInv, Money, turn # "idle"
  PROVE  /\ Merged.status = draft.status
         /\ alarm \/ review \/ Shut(Merged)
         /\ Honest(Merged)
         /\ Merged.pay = "refunded" => row.pay = "refunded" /\ draft.ref = row.ref
<1>1. Merged.status = draft.status
  BY DEF Merged, Money, Turned
<1>2. Merged.history.issued = draft.history.issued
  BY MergedTyped
<1>3. alarm \/ review \/ Shut(Merged)
  BY <1>1, <1>2 DEF Money, Turned, Shut
<1>4. Honest(Merged)
  BY DEF Merged, Money, Booked, Turned, Honest
<1>5. ASSUME Merged.pay = "refunded"
      PROVE  row.pay = "refunded" /\ draft.ref = row.ref
  <2>1. CASE draft.pay # loaded.pay
    BY <1>5, <2>1 DEF Merged, Money, Turned
  <2>2. CASE draft.pay = loaded.pay
    <3>1. row.pay = "refunded"
      BY <1>5, <2>2 DEF Merged
    <3>2. draft.ref = row.ref
      BY <2>2, <3>1 DEF Money, Turned
    <3> QED  BY <3>1, <3>2
  <2> QED  BY <2>1, <2>2
<1> QED  BY <1>1, <1>3, <1>4, <1>5

LEMMA MoneyAskLink == ASSUME IInv, Money, AskLink PROVE Money'
<1>1. /\ turn # "idle" /\ draft.status = "confirmed" /\ loaded' = row /\ draft' = Merged
      /\ turn' \in {"linking", "locked"} /\ UNCHANGED <<row, review, touched, alarm, stripe, due>>
  BY DEF AskLink, Busy
<1>2. /\ Merged.status = "confirmed" /\ Merged.ref = draft.ref
      /\ Honest(Merged)
      /\ Merged.pay = "refunded" => row.pay = "refunded" /\ draft.ref = row.ref
  BY <1>1, MergedMoney, MergedTyped
<1>3. Booked'
  BY <1>1 DEF Money, Booked, Shut, Honest, Returned, Lapsed
<1>4. Honest(draft)'
  BY <1>1, <1>2 DEF Honest
<1>5. Turned'
  BY <1>1, <1>2, <1>4 DEF Turned, Shut, Locked
<1> QED  BY <1>3, <1>5 DEF Money

LEMMA MoneyCloseOld == ASSUME IInv, Money, CloseOld PROVE Money'
<1>1. /\ turn = "linking" /\ turn' \in {"opening", "locked"}
      /\ UNCHANGED <<row, review, loaded, draft, touched, alarm>>
  BY DEF CloseOld
<1>2. Grows
  BY StripeGrows DEF Next
<1>3. Booked'
  BY <1>1, <1>2, BookedStays DEF IInv, Money
<1>4. /\ Shut(draft) => Shut(draft)'
      /\ Honest(draft) => Honest(draft)'
  BY <1>1, <1>2, DraftStays DEF IInv
<1>5. Turned'
  BY <1>1, <1>4 DEF Money, Turned, Locked
<1> QED  BY <1>3, <1>5 DEF Money

LEMMA MoneyLinkFails == ASSUME IInv, Money, LinkFails PROVE Money'
<1>1. /\ turn \in {"linking", "opening"} /\ turn' = "locked"
      /\ UNCHANGED <<row, review, loaded, draft, touched, alarm, stripe, due>>
  BY DEF LinkFails
<1>2. Booked'
  BY <1>1 DEF Money, Booked, Shut, Honest, Returned, Lapsed
<1>3. Turned'
  BY <1>1 DEF Money, Turned, Shut, Honest, Lapsed, Locked
<1> QED  BY <1>2, <1>3 DEF Money

\* A turn that opens a checkout has not cancelled, and what it opens is unpaid.
LEMMA MoneyOpen ==
  ASSUME IInv, Money, NEW c \in Checkouts, NEW purpose \in Purposes, OpenNew(c, purpose)
  PROVE  Money'
<1>1. /\ turn = "opening" /\ turn' = "locked" /\ UNCHANGED <<row, review, loaded, alarm, due>>
  BY DEF OpenNew
<1>2. Grows
  BY StripeGrows DEF Next
<1>3. Booked'
  BY <1>1, <1>2, BookedStays DEF IInv, Money
<1>4. /\ draft'.status = draft.status /\ draft'.pay = "link_sent"
      /\ draft'.history.received = draft.history.received
  BY <1>1 DEF OpenNew, IInv, TypeOK, Row, History
<1>5. Honest(draft)'
  <2>1. draft.history.received \subseteq Checkouts
    BY <1>1 DEF IInv, TypeOK, Row, History
  <2> QED  BY <1>1, <1>2, <1>4, <2>1 DEF Money, Turned, Honest, Grows
<1>6. Turned'
  BY <1>1, <1>4, <1>5 DEF Money, Turned, Shut, Locked
<1> QED  BY <1>3, <1>6 DEF Money

LEMMA MoneyModify == ASSUME IInv, Money, NEW total \in Prices, Modify(total) PROVE Money'
<1>1. /\ Busy /\ draft \in Row /\ UNCHANGED <<row, review, turn, loaded, alarm, stripe, due>>
  BY DEF Modify, Busy, IInv, TypeOK
<1>2. /\ draft'.status = draft.status /\ draft'.pay = draft.pay /\ draft'.ref = draft.ref
      /\ draft'.history = draft.history
  BY <1>1 DEF Modify, Row
<1>3. Booked'
  BY <1>1 DEF Money, Booked, Shut, Honest, Returned, Lapsed
<1>4. Turned'
  BY <1>1, <1>2 DEF Money, Turned, Shut, Honest, Lapsed, Locked
<1> QED  BY <1>3, <1>4 DEF Money

\* A turn that cancels raises the alarm unless the last checkout is closed, and the
\* ones before it are.
LEMMA MoneyCancel == ASSUME IInv, Money, NEW reachable \in BOOLEAN, Cancel(reachable) PROVE Money'
<1>1. /\ Busy /\ turn # "idle" /\ draft \in Row /\ UNCHANGED <<row, review, turn, loaded>>
      /\ (alarm => alarm')
  BY DEF Cancel, Busy, IInv, TypeOK
<1>2. Grows
  <2>1. Next
    BY DEF Next
  <2> QED  BY <2>1, StripeGrows
<1>3. Booked'
  BY <1>1, <1>2, BookedStays DEF IInv, Money
<1>4. /\ draft'.status = "cancelled" /\ draft'.ref = draft.ref /\ draft'.history = draft.history
      /\ draft'.pay \in {draft.pay, "refund_pending", "expired"}
  BY <1>1 DEF Cancel, Row
<1>5. draft.history.issued \subseteq Checkouts /\ draft.history.received \subseteq Checkouts
      /\ draft.ref \in Checkouts \cup {NoCheckout}
  BY <1>1 DEF Row, History
<1>6. Honest(draft)'
  BY <1>1, <1>2, <1>4, <1>5 DEF Money, Turned, Honest, Grows
<1>7. alarm' \/ Shut(draft)'
  <2> DEFINE paid == draft.history.received # {} /\ draft.pay # "refunded"
             asks == ~paid /\ draft.ref # NoCheckout
             shut == asks /\ reachable /\ Closes(draft.ref)
  <2>1. /\ alarm' = (alarm \/ paid \/ (asks /\ ~shut))
        /\ IF asks /\ reachable THEN Close(draft.ref) ELSE UNCHANGED <<stripe, due>>
    BY DEF Cancel
  <2>2. SUFFICES ASSUME ~alarm'
                 PROVE  Shut(draft)'
    OBVIOUS
  <2>3. CASE draft.ref = NoCheckout
    <3>1. \A c \in draft.history.issued : Lapsed(c)
      BY <1>1, <1>5, <2>3, PaymentsAssumption DEF IInv, Drafted, Standing
    <3> QED  BY <1>2, <1>4, <1>5, <3>1 DEF Shut, Grows
  <2>4. CASE draft.ref # NoCheckout
    <3>1. Closes(draft.ref) /\ Close(draft.ref) /\ draft.ref \in Checkouts
      BY <1>5, <2>1, <2>2, <2>4
    <3>2. Lapsed(draft.ref)'
      <4>1. stripe \in [Checkouts -> Checkout]
        BY DEF IInv, TypeOK
      <4>2. CASE stripe[draft.ref].status = "open"
        <5>1. stripe' = [stripe EXCEPT ![draft.ref].status = "expired"]
          BY <3>1, <4>2 DEF Close
        <5>2. stripe'[draft.ref].status = "expired"
          BY <3>1, <4>1, <5>1 DEF Checkout
        <5> QED  BY <1>4, <5>2 DEF Lapsed
      <4>3. CASE stripe[draft.ref].status = "expired"
        BY <1>2, <1>4, <3>1, <4>3 DEF Grows, Lapsed
      <4> QED  BY <3>1, <4>2, <4>3 DEF Closes
    <3>3. \A c \in draft.history.issued : c # draft.ref => Lapsed(c)
      BY <1>1 DEF IInv, Drafted, Standing
    <3>4. \A c \in draft.history.issued : c # draft.ref => Lapsed(c)'
      BY <1>2, <1>5, <3>3 DEF Grows
    <3> QED  BY <1>4, <3>2, <3>4 DEF Shut, Lapsed
  <2> QED  BY <2>3, <2>4
<1>8. Turned'
  BY <1>1, <1>4, <1>6, <1>7 DEF Money, Turned, Locked, Busy
<1> QED  BY <1>3, <1>8 DEF Money

LEMMA MoneyCommit == ASSUME IInv, Money, Commit PROVE Money'
<1>1. /\ turn # "idle" /\ row' = Merged /\ review' = (review \/ alarm) /\ turn' = "idle"
      /\ UNCHANGED stripe
  BY DEF Commit, Busy, EndTurn
<1>2. /\ alarm \/ review \/ Shut(Merged)
      /\ Honest(Merged) /\ Merged.ref = draft.ref
      /\ Merged.pay = "refunded" => row.pay = "refunded" /\ draft.ref = row.ref
  BY <1>1, MergedMoney, MergedTyped
<1>3. Shut(Merged) => Shut(row)'
  BY <1>1 DEF Shut, Lapsed
<1>4. Honest(row)'
  BY <1>1, <1>2 DEF Honest
<1>5. (row.pay = "refunded" => Returned(row.ref))'
  BY <1>1, <1>2 DEF Money, Booked, Returned
<1>6. Booked'
  BY <1>1, <1>2, <1>3, <1>4, <1>5 DEF Booked
<1> QED  BY <1>1, <1>6 DEF Money, Turned

LEMMA MoneyRollback == ASSUME IInv, Money, Rollback PROVE Money'
<1>1. turn' = "idle" /\ UNCHANGED <<row, review, stripe>>
  BY DEF Rollback, EndTurn
<1> QED  BY <1>1 DEF Money, Booked, Turned, Shut, Honest, Returned, Lapsed

\* A handler writes no row that a turn has locked, and neither its state nor its checkout.
LEMMA TurnHandled ==
  ASSUME Turned, ~Locked, UNCHANGED <<session, stripe>>, review => review',
         row'.status = row.status, row'.ref = row.ref
  PROVE  Turned'
BY DEF Turned, Locked, Shut, Honest, Lapsed, session

LEMMA MoneyReceipt == ASSUME IInv, Money, NEW c \in Checkouts, Receipt(c) PROVE Money'
<1>1. /\ stripe[c].status = "paid" /\ ~Locked /\ UNCHANGED <<session, stripe>> /\ row \in Row
      /\ (review => review')
  BY DEF Receipt, Handles, IInv, TypeOK
<1>2. CASE UNCHANGED row
  BY <1>1, <1>2, TurnHandled DEF Money, Booked, Shut, Honest, Returned, Lapsed
<1>3. CASE row' = [row EXCEPT !.pay = IF Problems(c) THEN "payment_review"
                                      ELSE PaidStatus(stripe[c].purpose),
                              !.history.received = @ \cup {c}]
  <2>1. /\ row'.status = row.status /\ row'.ref = row.ref /\ row'.pay # "refunded"
        /\ row'.history.issued = row.history.issued
        /\ row'.history.received = row.history.received \cup {c}
    BY <1>1, <1>3 DEF Row, History, PaidStatus
  <2>2. Turned'
    BY <1>1, <2>1, TurnHandled DEF Money
  <2>3. Booked'
    BY <1>1, <2>1 DEF Money, Booked, Shut, Honest, Lapsed
  <2> QED  BY <2>2, <2>3 DEF Money
<1> QED  BY <1>2, <1>3 DEF Receipt

LEMMA MoneyEnded == ASSUME IInv, Money, NEW c \in Checkouts, Ended(c) PROVE Money'
<1>1. /\ stripe[c].status \in {"expired", "failed"} /\ ~Locked /\ row \in Row
      /\ UNCHANGED <<session, stripe, review>>
  BY DEF Ended, Handles, IInv, TypeOK
<1>2. /\ row'.status = row.status /\ row'.ref = row.ref /\ row'.history = row.history
      /\ (row'.pay = "refunded" => row.pay = "refunded")
  BY <1>1 DEF Ended, Row
<1>3. Turned'
  BY <1>1, <1>2, TurnHandled DEF Money
<1>4. Booked'
  BY <1>1, <1>2 DEF Money, Booked, Shut, Honest, Returned, Lapsed
<1> QED  BY <1>3, <1>4 DEF Money

\* Only the checkout on the booking was paid; so it is all the money there was.
LEMMA MoneyRefunded ==
  ASSUME IInv, Money, NEW c \in Checkouts, NEW level \in Levels, Refunded(c, level)
  PROVE  Money'
<1>1. /\ level \in stripe[c].refunds /\ ~Locked /\ row \in Row /\ UNCHANGED <<session, stripe, review>>
  BY DEF Refunded, Handles, IInv, TypeOK
<1>2. CASE UNCHANGED row
  BY <1>1, <1>2, TurnHandled DEF Money, Booked, Shut, Honest, Returned, Lapsed
<1>3. CASE /\ c \in row.history.received
           /\ row' = [row EXCEPT !.pay = RefundStatus(level), !.history.refunded[c] = level]
  <2>1. /\ row'.status = row.status /\ row'.ref = row.ref /\ row'.pay = RefundStatus(level)
        /\ row'.history.issued = row.history.issued
        /\ row'.history.received = row.history.received
    BY <1>1, <1>3 DEF Row, History
  <2>2. Turned'
    BY <1>1, <2>1, TurnHandled DEF Money
  <2>3. Returned(row.ref) \/ RefundStatus(level) # "refunded"
    <3>1. stripe[c].status = "paid"
      BY <1>3 DEF Money, Booked, Honest
    <3>2. row.ref = c
      BY <3>1 DEF IInv, Replaced, Standing, Lapsed
    <3>3. row.ref # NoCheckout
      BY <3>2, PaymentsAssumption
    <3> QED  BY <1>1, <3>1, <3>2, <3>3 DEF Returned, RefundStatus
  <2>4. Booked'
    BY <1>1, <2>1, <2>3 DEF Money, Booked, Shut, Honest, Returned, Lapsed
  <2> QED  BY <2>2, <2>4 DEF Money
<1> QED  BY <1>2, <1>3 DEF Refunded

LEMMA MoneyStart == Init => Money
BY DEF Init, Money, Booked, Turned, Shut, Honest

LEMMA MoneyInductive == IInv /\ Money /\ [Next]_vars => Money'
<1> SUFFICES ASSUME IInv, Money, [Next]_vars PROVE Money'
  OBVIOUS
<1>1. CASE Load \/ AskLink \/ CloseOld \/ LinkFails \/ Commit \/ Rollback
  BY <1>1, MoneyLoad, MoneyAskLink, MoneyCloseOld, MoneyLinkFails, MoneyCommit, MoneyRollback
<1>2. CASE \E c \in Checkouts, purpose \in Purposes : OpenNew(c, purpose)
  BY <1>2, MoneyOpen
<1>3. CASE \E total \in Prices : Modify(total)
  BY <1>3, MoneyModify
<1>4. CASE \E reachable \in BOOLEAN : Cancel(reachable)
  BY <1>4, MoneyCancel
<1>5. CASE \E c \in Checkouts : Receipt(c) \/ Ended(c)
  BY <1>5, MoneyReceipt, MoneyEnded
<1>6. CASE \E c \in Checkouts, level \in Levels : Refunded(c, level)
  BY <1>6, MoneyRefunded
<1>7. CASE UNCHANGED <<row, review, session>>
  BY <1>7, MoneyAside
<1>8. \/ Load \/ AskLink \/ CloseOld \/ LinkFails \/ Commit \/ Rollback
      \/ \E c \in Checkouts, purpose \in Purposes : OpenNew(c, purpose)
      \/ \E total \in Prices : Modify(total)
      \/ \E reachable \in BOOLEAN : Cancel(reachable)
      \/ \E c \in Checkouts : Receipt(c) \/ Ended(c)
      \/ \E c \in Checkouts, level \in Levels : Refunded(c, level)
      \/ UNCHANGED <<row, review, session>>
  BY DEF Next, vars, Pay, Clear, Lapse, Refund
<1> QED  BY <1>1, <1>2, <1>3, <1>4, <1>5, <1>6, <1>7, <1>8

\* A cancelled booking nobody is to look at has no link left to pay and no money to give
\* back, and one called refunded has had all of it back (cancellation_payment_review,
\* mark_paid, mark_refunded): for any checkouts, in any order of Stripe's events.
THEOREM NoMoneyIsKept == Spec => []MoneyGoesBack
<1>1. Spec => []Money
  BY Always, MoneyStart, MoneyInductive, PTL DEF Spec
<1>2. ASSUME IInv, Money
      PROVE  MoneyGoesBack
  <2>1. ASSUME row.status = "cancelled", ~review, NEW c \in row.history.issued
        PROVE  stripe[c].status # "open" /\ ~Kept(c)
    BY <1>2, <2>1 DEF Money, Booked, Shut, Lapsed, Kept
  <2>2. ASSUME row.pay = "refunded", NEW c \in Checkouts, stripe[c].status = "paid"
        PROVE  "whole" \in stripe[c].refunds
    <3>1. c = row.ref
      BY <1>2, <2>2 DEF IInv, Replaced, Standing, Lapsed
    <3> QED  BY <1>2, <2>2, <3>1 DEF Money, Booked, Returned
  <2> QED  BY <2>1, <2>2 DEF MoneyGoesBack
<1> QED  BY <1>1, <1>2, Always, PTL
=============================================================================
