---------------------------- MODULE BookingsProofs ----------------------------
(***************************************************************************)
(* Theorems about Bookings for any number of turns, desks, cars, dates,    *)
(* references and quotes.                                                  *)
(*                                                                         *)
(* The invariant, Shape, is about the transactions: what an unlocked row,  *)
(* a held counter and a session half-way through a tool look like.  The    *)
(* types and the agreement of the ledger with the bookings rest on it.     *)
(*                                                                         *)
(* What the bookings are worth is proved as long as the sessions of one    *)
(* customer take turns (Lanes); without, two changes of one booking merge. *)
(* Every step is boiled down first (Steps): one session reads and locks,   *)
(* or writes one booking, or ends its transaction, and the invariants are  *)
(* proved against those few kinds of step and not against each action.     *)
(***************************************************************************)
EXTENDS Bookings, TLAPS

-----------------------------------------------------------------------------
(* The inductive invariant *)

\* What nobody holds is what is committed, and nothing is ever deleted.
RowsRest ==
    \A r \in Refs : /\ rowLock[r] = Nobody => latest[r] = db[r]
                    /\ db[r] # NoBooking => latest[r] # NoBooking

LedgerRests ==
    /\ quoteLock = Nobody => quotes = quoteDb
    /\ \A q \in QuoteIds : /\ quoteDb[q] # NoQuote => quotes[q] # NoQuote
                           /\ quoteDb[q] # NoQuote => quotes[q].price = quoteDb[q].price

\* A session half-way through a tool has what the tool loaded.
ReservingAt(s) ==
    /\ pc[s] \in {"validating", "reserving", "taking"} =>
          qid[s] \in QuoteIds /\ VisibleQuotes(s)[qid[s]] # NoQuote
    /\ pc[s] \in {"reserving", "taking", "writing"} => quoteLock = s

ChangingAt(s) ==
    /\ pc[s] \in {"modifying", "writing", "cancelling", "locking", "paying", "noting"} =>
          ref[s] \in Refs /\ Visible(s)[ref[s]] # NoBooking
    /\ pc[s] \in {"modifying", "writing"} => seen[s] # NoBooking /\ want[s] # NoPrice
    /\ pc[s] = "inserting" => want[s] # NoPrice

Reserving == \A s \in Sessions : ReservingAt(s)

Changing == \A s \in Sessions : ChangingAt(s)

Shape == RowsRest /\ LedgerRests /\ Reserving /\ Changing

-----------------------------------------------------------------------------
(* Types *)

LEMMA PriceType == ASSUME TypeOK, NEW slot \in Slots
                   PROVE  PriceOf(slot) \in Price /\ NoCharge(slot) \in Price
  BY BookingsAssumption DEF TypeOK, PriceOf, NoCharge, Price

LEMMA MergedType ==
  ASSUME NEW row \in Booking, NEW was \in Booking, NEW new \in Price
  PROVE  Merged(row, was, new) \in Booking
  BY DEF Merged, Written, Booking, Price, Slots, Columns

LEMMA QuoteTypes ==
  ASSUME NEW f \in [QuoteIds -> Quote \cup {NoQuote}], NEW q \in QuoteIds, f[q] # NoQuote,
         NEW op \in {"none", "unsettled", "confirmed", "unavailable", "down"},
         NEW r \in Refs \cup {NoRef}
  PROVE  /\ [f EXCEPT ![q].op = op, ![q].ref = r] \in [QuoteIds -> Quote \cup {NoQuote}]
         /\ [f EXCEPT ![q].open = FALSE] \in [QuoteIds -> Quote \cup {NoQuote}]
  BY DEF Quote

LEMMA SettleType ==
  ASSUME TypeOK, NEW q \in QuoteIds, quotes[q] # NoQuote,
         NEW op \in {"none", "unsettled", "confirmed", "unavailable", "down"},
         NEW r \in Refs \cup {NoRef}, Settle(q, op, r)
  PROVE  quotes' \in [QuoteIds -> Quote \cup {NoQuote}]
  BY QuoteTypes DEF Settle, TypeOK

LEMMA AnswerType == ASSUME TypeOK, NEW s \in Sessions, Answer(s)
                    PROVE  /\ pc' \in [Sessions -> PCs]
                           /\ qid' \in [Sessions -> QuoteIds \cup {NoQuote}]
                           /\ ref' \in [Sessions -> Refs \cup {NoRef}]
                           /\ seen' \in [Sessions -> Booking \cup {NoBooking}]
                           /\ want' \in [Sessions -> Price \cup {NoPrice}]
  BY DEF TypeOK, Answer, PCs

LEMMA RollbackTypes ==
  ASSUME TypeOK, NEW s \in Sessions, Rollback(s), UNCHANGED world
  PROVE  TypeOK'
<1>1. /\ latest' \in [Refs -> Booking \cup {NoBooking}]
      /\ rowLock' \in [Refs -> Sessions \cup {Nobody}]
  BY DEF TypeOK, Rollback
<1>2. /\ quotes' \in [QuoteIds -> Quote \cup {NoQuote}]
      /\ quoteLock' \in Sessions \cup {Nobody}
      /\ refLock' \in Sessions \cup {Nobody}
      /\ payLock' \in Sessions \cup {Nobody} /\ aside' \subseteq Sessions
  BY DEF TypeOK, Rollback
<1> QED
  BY <1>1, <1>2, AnswerType DEF TypeOK, Rollback, world

LEMMA InitShape == Init => TypeOK /\ Shape
<1> SUFFICES ASSUME Init PROVE TypeOK /\ Shape
  OBVIOUS
<1>1. TypeOK
  BY BookingsAssumption DEF Init, TypeOK, PCs
<1>2. Shape
  BY BookingsAssumption
  DEF Init, Shape, RowsRest, LedgerRests, Reserving, Changing, ReservingAt, ChangingAt
<1> QED
  BY <1>1, <1>2

\* Locking a booking or the payment counter for columns that are not modelled.
Notes(s) == LockBooking(s) \/ TakePayment(s) \/ NoteBooking(s)

\* It shows nobody anything new.
LEMMA NotesLock ==
  ASSUME TypeOK, Shape, NEW s \in Turns, Notes(s)
  PROVE  /\ ref[s] \in Refs
         /\ UNCHANGED <<db, latest, ledger, quoteLock, refLock, world>>
         /\ \/ rowLock' = rowLock
            \/ rowLock[ref[s]] \in {Nobody, s} /\ rowLock' = [rowLock EXCEPT ![ref[s]] = s]
         /\ payLock' \in {payLock, s} /\ Aside(s)
         /\ \A t \in Sessions : Visible(t)' = Visible(t)
         /\ \/ Answer(s)
            \/ (Goto(s, "paying") \/ Goto(s, "noting")) /\ UNCHANGED chosen
<1> USE DEF Sessions
<1>1. ref[s] \in Refs
  BY DEF Notes, LockBooking, TakePayment, NoteBooking, Shape, Changing, ChangingAt
<1>2. [latest EXCEPT ![ref[s]] = latest[ref[s]]] = latest
  BY <1>1 DEF TypeOK
<1>3. CASE UNCHANGED tables
  BY <1>1, <1>3 DEF Notes, LockBooking, TakePayment, NoteBooking, Aside, Visible, tables
<1>4. CASE Update(s, ref[s], latest[ref[s]])
  <2>1. /\ UNCHANGED <<db, latest>> /\ rowLock[ref[s]] \in {Nobody, s}
        /\ rowLock' = [rowLock EXCEPT ![ref[s]] = s]
    BY <1>2, <1>4 DEF Update
  <2>2. ASSUME NEW t \in Sessions, NEW r \in Refs PROVE Visible(t)'[r] = Visible(t)[r]
    BY <1>1, <2>1, BookingsAssumption DEF Visible, Shape, RowsRest, TypeOK
  <2>3. \A t \in Sessions : Visible(t)' = Visible(t)
    BY <2>2 DEF Visible
  <2> QED
    BY <1>1, <1>4, <2>1, <2>3 DEF Notes, LockBooking, TakePayment, NoteBooking, Aside, tables
<1> QED
  BY <1>3, <1>4 DEF Notes, LockBooking, TakePayment, NoteBooking

\* What a tool that is going to lock a booking begins with.
Begins(s) == \E r \in Refs, step \in {"cancelling", "locking", "paying", "noting"} :
    Visible(s)[r] # NoBooking /\ (step = "cancelling" => Mine(s, r)) /\ Begin(s, r, step)

LEMMA StartsBegin ==
  ASSUME NEW s \in Turns, NEW r \in Refs,
         CancelStart(s, r) \/ LinkStart(s, r) \/ PayStart(s, r) \/ ScheduleStart(s, r)
            \/ DocumentsStart(s, r)
  PROVE  Begins(s)
  BY DEF CancelStart, LinkStart, PayStart, ScheduleStart, DocumentsStart, Begins, Mine, Live

LEMMA TypeStep == TypeOK /\ Shape /\ [Next]_vars => TypeOK'
<1> SUFFICES ASSUME TypeOK, Shape, [Next]_vars PROVE TypeOK'
  OBVIOUS
<1> USE DEF Sessions
<1>1. ASSUME NEW s \in Turns, NEW slot \in Slots, NEW extras \in Extras, CreateQuote(s, slot, extras)
      PROVE  TypeOK'
  <2>1. quotes' \in [QuoteIds -> Quote \cup {NoQuote}]
    <3>1. CASE UNCHANGED quotes
      BY <3>1 DEF TypeOK
    <3>2. CASE \E q \in QuoteIds : quotes' = WithQuote(s, q, [PriceOf(slot) EXCEPT !.extras = extras])
      <4>1. [PriceOf(slot) EXCEPT !.extras = extras] \in Price
        BY PriceType, BookingsAssumption DEF Price, PriceOf
      <4>2. CustomerOf[s] \in Customers
        BY BookingsAssumption
      <4> DEFINE price == [PriceOf(slot) EXCEPT !.extras = extras]
      <4>3. PICK q \in QuoteIds : quotes' = WithQuote(s, q, price)
        BY <3>2
      <4>4. [owner |-> CustomerOf[s], price |-> price, open |-> TRUE, op |-> "none", ref |-> NoRef]
               \in Quote
        BY <4>1, <4>2 DEF Quote
      <4>5. ASSUME NEW p \in QuoteIds, quotes[p] # NoQuote
            PROVE  [quotes[p] EXCEPT !.open = FALSE] \in Quote
        <5>1. quotes[p] \in Quote
          BY <4>5 DEF TypeOK
        <5> QED
          BY <5>1 DEF Quote
      <4>6. ASSUME NEW p \in QuoteIds
            PROVE  WithQuote(s, q, price)[p] \in Quote \cup {NoQuote}
        BY <4>4, <4>5, Zenon DEF WithQuote, TypeOK
      <4>7. WithQuote(s, q, price) \in [QuoteIds -> Quote \cup {NoQuote}]
        BY <4>6, Zenon DEF WithQuote
      <4> QED
        BY <4>3, <4>7
    <3> QED
      BY <1>1, <3>1, <3>2 DEF CreateQuote
  <2> QED
    BY <1>1, <2>1, AnswerType DEF CreateQuote, TakeQuoteLock, TypeOK, tables, world
<1>2. ASSUME NEW s \in Turns, NEW q \in QuoteIds, ReserveStart(s, q)
      PROVE  TypeOK'
  BY <1>2 DEF ReserveStart, Goto, TypeOK, PCs, tables, ledger, counters, world
<1>3. ASSUME NEW s \in Turns, ReserveValidate(s)
      PROVE  TypeOK'
  <2>1. CASE Rollback(s)
    BY <1>3, <2>1, RollbackTypes DEF ReserveValidate
  <2>2. CASE TakeQuoteLock(s) /\ Answer(s) /\ UNCHANGED <<tables, ledger>>
    BY <1>3, <2>2, AnswerType DEF ReserveValidate, TakeQuoteLock, TypeOK, tables, ledger, world
  <2>3. CASE /\ TakeQuoteLock(s) /\ Settle(qid[s], "unsettled", NoRef)
             /\ Goto(s, "reserving") /\ UNCHANGED <<tables, quoteDb, chosen>>
    <3>1. qid[s] \in QuoteIds /\ quotes[qid[s]] # NoQuote
      BY <1>3 DEF ReserveValidate, Shape, Reserving, ReservingAt, LedgerRests, VisibleQuotes
    <3>2. quotes' \in [QuoteIds -> Quote \cup {NoQuote}]
      BY <2>3, <3>1, SettleType
    <3> QED
      BY <1>3, <2>3, <3>2 DEF ReserveValidate, TakeQuoteLock, Goto, TypeOK, PCs, tables, chosen, world
  <2> QED
    BY <1>3, <2>1, <2>2, <2>3 DEF ReserveValidate
<1>4. ASSUME NEW s \in Turns, pc[s] \in {"reserving", "taking"}
      PROVE  qid[s] \in QuoteIds /\ quotes[qid[s]] \in Quote /\ quotes[qid[s]] # NoQuote
  BY <1>4 DEF Shape, Reserving, ReservingAt, VisibleQuotes, TypeOK
<1>5. ASSUME NEW s \in Turns, ReserveFails(s)
      PROVE  TypeOK'
  <2>1. quotes' \in [QuoteIds -> Quote \cup {NoQuote}]
    BY <1>4, <1>5, SettleType DEF ReserveFails, TypeOK
  <2> QED
    BY <1>5, <2>1, AnswerType DEF ReserveFails, TypeOK, tables, counters, world
<1>6. ASSUME NEW s \in Turns, ReserveConflict(s)
      PROVE  TypeOK'
  <2>1. quotes' \in [QuoteIds -> Quote \cup {NoQuote}]
    BY <1>4, <1>6, SettleType DEF ReserveConflict, TypeOK
  <2>2. rowLock' \in [Refs -> Sessions \cup {Nobody}]
    BY <1>6 DEF ReserveConflict, LockCarRows, TypeOK
  <2> QED
    BY <1>6, <2>1, <2>2, AnswerType
    DEF ReserveConflict, LockCarRows, Goto, TypeOK, PCs, chosen, counters, world
<1>7. ASSUME NEW s \in Turns, ReserveInsert(s)
      PROVE  TypeOK'
  <2> DEFINE booking == [owner |-> CustomerOf[s], slot |-> quotes[qid[s]].price.slot,
                         status |-> "confirmed", price |-> quotes[qid[s]].price,
                         origin |-> qid[s]]
  <2>1. PICK r \in Refs : Insert(s, r, booking) /\ Settle(qid[s], "confirmed", r)
    BY <1>7 DEF ReserveInsert
  <2>2. booking \in Booking
    BY <1>4, <1>7, BookingsAssumption DEF ReserveInsert, Quote, Price, Booking, Slots
  <2>3. quotes' \in [QuoteIds -> Quote \cup {NoQuote}]
    BY <1>4, <1>7, <2>1, SettleType DEF ReserveInsert
  <2>4. /\ latest' \in [Refs -> Booking \cup {NoBooking}]
        /\ rowLock' \in [Refs -> Sessions \cup {Nobody}]
        /\ UNCHANGED db
    BY <2>1, <2>2 DEF Insert, TypeOK
  <2> QED
    BY <1>7, <2>3, <2>4, AnswerType DEF ReserveInsert, TakeRefLock, TypeOK, world
<1>8. ASSUME NEW s \in Turns, NEW r \in Refs, NEW slot, CheckChange(s, r, slot), Mine(s, r)
      PROVE  TypeOK'
  <2>1. CASE Answer(s)
    BY <1>8, <2>1, AnswerType DEF CheckChange, TypeOK, tables, ledger, counters, world
  <2>2. CASE Free(s, slot, {r}) /\ Goto(s, "modifying")
    <3>1. PriceOf(slot) \in Price
      BY <2>2, PriceType DEF Free
    <3>2. Visible(s)[r] \in Booking \cup {NoBooking}
      BY DEF Visible, TypeOK
    <3>3. pc' \in [Sessions -> PCs]
      BY <2>2 DEF Goto, TypeOK, PCs
    <3>4. CASE Answer(s)
      BY <2>1, <3>4
    <3>5. CASE /\ ref' = [ref EXCEPT ![s] = r]
               /\ seen' = [seen EXCEPT ![s] = Visible(s)[r]]
               /\ want' = [want EXCEPT ![s] = PriceOf(slot)]
               /\ UNCHANGED qid
      BY <1>8, <3>1, <3>2, <3>3, <3>5 DEF CheckChange, TypeOK, tables, ledger, counters, world
    <3> QED
      BY <1>8, <3>4, <3>5 DEF CheckChange
  <2> QED
    BY <1>8, <2>1, <2>2 DEF CheckChange
<1>9. ASSUME NEW s \in Turns, pc[s] \in {"modifying", "writing", "cancelling"}
      PROVE  ref[s] \in Refs /\ latest[ref[s]] \in Booking
  BY <1>9 DEF Shape, Changing, ChangingAt, RowsRest, Visible, TypeOK
<1>10. ASSUME NEW s \in Turns, ModifyPrice(s)
       PROVE  TypeOK'
  <2>1. CASE Answer(s)
    BY <1>10, <2>1, AnswerType DEF ModifyPrice, TakeQuoteLock, TypeOK, tables, ledger, world
  <2>2. CASE /\ Free(s, want[s].slot, {ref[s]}) /\ Goto(s, "writing")
             /\ want' = [want EXCEPT ![s] = PriceOf(want[s].slot)]
             /\ UNCHANGED <<qid, ref, seen>>
    <3>1. PriceOf(want[s].slot) \in Price
      BY <2>2, PriceType DEF Free
    <3> QED
      BY <1>10, <2>2, <3>1 DEF ModifyPrice, TakeQuoteLock, Goto, TypeOK, PCs, tables, ledger, world
  <2> QED
    BY <1>10, <2>1, <2>2 DEF ModifyPrice
<1>11. ASSUME NEW s \in Turns, NEW booking \in Booking, ref[s] \in Refs, Update(s, ref[s], booking)
       PROVE  /\ latest' \in [Refs -> Booking \cup {NoBooking}]
              /\ rowLock' \in [Refs -> Sessions \cup {Nobody}]
              /\ UNCHANGED db
  BY <1>11 DEF Update, TypeOK
<1>12. ASSUME NEW s \in Turns, ModifyWrite(s)
       PROVE  TypeOK'
  <2>1. seen[s] \in Booking /\ want[s] \in Price
    BY <1>12 DEF ModifyWrite, Shape, Changing, ChangingAt, TypeOK
  <2>2. Merged(latest[ref[s]], seen[s], want[s]) \in Booking
    BY <1>9, <1>12, <2>1, MergedType DEF ModifyWrite
  <2> QED
    BY <1>9, <1>11, <1>12, <2>2, AnswerType DEF ModifyWrite, TypeOK, ledger, counters, world
<1>13. ASSUME NEW s \in Turns, Begins(s)
       PROVE  TypeOK'
  BY <1>13 DEF Begins, Begin, Goto, TypeOK, PCs, tables, ledger, counters, world
<1>14. ASSUME NEW s \in Turns, CancelWrite(s)
       PROVE  TypeOK'
  <2>1. [latest[ref[s]] EXCEPT !.status = "cancelled"] \in Booking
    BY <1>9, <1>14 DEF CancelWrite, Booking
  <2> QED
    BY <1>9, <1>11, <1>14, <2>1, AnswerType DEF CancelWrite, Aside, TypeOK, ledger, world
<1>25. ASSUME NEW s \in Turns, Notes(s)
       PROVE  TypeOK'
  <2>1. rowLock' \in [Refs -> Sessions \cup {Nobody}]
    BY <1>25, NotesLock DEF TypeOK
  <2>2. CASE Answer(s)
    BY <1>25, <2>1, <2>2, NotesLock, AnswerType DEF Aside, TypeOK, ledger, world
  <2>3. CASE (Goto(s, "paying") \/ Goto(s, "noting")) /\ UNCHANGED chosen
    BY <1>25, <2>1, <2>3, NotesLock DEF Goto, PCs, chosen, Aside, TypeOK, ledger, world
  <2> QED
    BY <1>25, <2>2, <2>3, NotesLock
<1>15. ASSUME NEW s \in Desks, NEW slot \in Slots, DeskCheck(s, slot)
       PROVE  TypeOK'
  <2>1. rowLock' \in [Refs -> Sessions \cup {Nobody}]
    BY <1>15 DEF DeskCheck, LockCarRows, TypeOK
  <2>2. NoCharge(slot) \in Price
    BY PriceType
  <2> QED
    BY <1>15, <2>1, <2>2, AnswerType
    DEF DeskCheck, LockCarRows, Goto, TypeOK, PCs, ledger, counters, world
<1>16. ASSUME NEW s \in Desks, DeskInsert(s)
       PROVE  TypeOK'
  <2> DEFINE booking == [owner |-> CustomerOf[s], slot |-> want[s].slot, status |-> "confirmed",
                         price |-> want[s], origin |-> NoQuote]
  <2>1. PICK r \in Refs : Insert(s, r, booking)
    BY <1>16 DEF DeskInsert
  <2>2. want[s] \in Price
    BY <1>16 DEF DeskInsert, Shape, Changing, ChangingAt, TypeOK
  <2>3. booking \in Booking
    BY <2>2, BookingsAssumption DEF Price, Booking, Slots
  <2>4. /\ latest' \in [Refs -> Booking \cup {NoBooking}]
        /\ rowLock' \in [Refs -> Sessions \cup {Nobody}]
        /\ UNCHANGED db
    BY <2>1, <2>3 DEF Insert, TypeOK
  <2> QED
    BY <1>16, <2>4, AnswerType DEF DeskInsert, TakeRefLock, TypeOK, ledger, world
<1>17. ASSUME NEW s \in Sessions, Commit(s)
       PROVE  TypeOK'
  <2>1. /\ db' \in [Refs -> Booking \cup {NoBooking}]
        /\ rowLock' \in [Refs -> Sessions \cup {Nobody}]
    BY <1>17 DEF Commit, Visible, TypeOK
  <2>2. /\ quoteDb' \in [QuoteIds -> Quote \cup {NoQuote}]
        /\ quoteLock' \in Sessions \cup {Nobody}
        /\ refLock' \in Sessions \cup {Nobody}
        /\ payLock' \in Sessions \cup {Nobody} /\ aside' \subseteq Sessions
    BY <1>17 DEF Commit, VisibleQuotes, TypeOK
  <2> QED
    BY <1>17, <2>1, <2>2, AnswerType DEF Commit, TypeOK, world
<1>18. ASSUME NEW s \in Sessions, Abort(s)
       PROVE  TypeOK'
  BY <1>18, RollbackTypes DEF Abort
<1>19. ASSUME NEW v \in Vehicles, FleetChange(v)
       PROVE  TypeOK'
  BY <1>19 DEF FleetChange, TypeOK, tables, ledger, counters, chosen
<1>20. ASSUME TariffChange
       PROVE  TypeOK'
  BY <1>20, BookingsAssumption DEF TariffChange, TypeOK, tables, ledger, counters, chosen
<1>21. ASSUME NEW q \in QuoteIds, QuoteExpires(q)
       PROVE  TypeOK'
  <2>1. quoteDb[q] # NoQuote /\ quotes[q] # NoQuote
    BY <1>21 DEF QuoteExpires, Shape, LedgerRests
  <2>2. /\ quoteDb' \in [QuoteIds -> Quote \cup {NoQuote}]
        /\ quotes' \in [QuoteIds -> Quote \cup {NoQuote}]
    BY <1>21, <2>1, QuoteTypes DEF QuoteExpires, TypeOK
  <2> QED
    BY <1>21, <2>2 DEF QuoteExpires, TypeOK, tables, counters, chosen, world
<1>22. CASE UNCHANGED vars
  BY <1>22 DEF TypeOK, vars, tables, ledger, counters, chosen, world
<1>23. ASSUME NEW s \in Turns, TurnStep(s)
       PROVE  TypeOK'
  BY <1>1, <1>2, <1>3, <1>5, <1>6, <1>7, <1>8, <1>10, <1>12, <1>13, <1>14, <1>23, <1>25,
     StartsBegin
  DEF TurnStep, ModifyStart, ExtendStart, Notes
<1>24. ASSUME NEW s \in Desks, DeskStep(s)
       PROVE  TypeOK'
  BY <1>15, <1>16, <1>24 DEF DeskStep
<1> QED
  BY <1>17, <1>18, <1>19, <1>20, <1>21, <1>22, <1>23, <1>24 DEF Next

-----------------------------------------------------------------------------
(* What a step leaves standing *)

\* No booking that t sees goes away in the step.
RowsStay(t) == \A r \in Refs : Visible(t)[r] # NoBooking => Visible(t)'[r] # NoBooking

\* No quote that t sees goes away or changes its price in the step.
QuotesStay(t) ==
    \A q \in QuoteIds : VisibleQuotes(t)[q] # NoQuote =>
        /\ VisibleQuotes(t)'[q] # NoQuote
        /\ VisibleQuotes(t)'[q].price = VisibleQuotes(t)[q].price

\* The step leaves t where it is in its tool, and what it holds with it.
Undisturbed(t) ==
    /\ pc'[t] = pc[t] /\ qid'[t] = qid[t] /\ ref'[t] = ref[t]
    /\ seen'[t] = seen[t] /\ want'[t] = want[t]
    /\ quoteLock = t => quoteLock' = t

LEMMA ShapeFrom ==
  ASSUME TypeOK, Shape, RowsRest', LedgerRests', NEW s \in Sessions,
         \A t \in Sessions : t # s => Undisturbed(t) /\ RowsStay(t) /\ QuotesStay(t),
         ReservingAt(s)', ChangingAt(s)'
  PROVE  Shape'
<1>1. ASSUME NEW t \in Sessions, t # s PROVE ReservingAt(t)'
  BY <1>1 DEF Shape, Reserving, ReservingAt, Undisturbed, QuotesStay
<1>2. ASSUME NEW t \in Sessions, t # s PROVE ChangingAt(t)'
  BY <1>2 DEF Shape, Changing, ChangingAt, Undisturbed, RowsStay
<1> QED
  BY <1>1, <1>2 DEF Shape, Reserving, Changing

LEMMA AnswerDisturbsNone ==
  ASSUME TypeOK, NEW s \in Sessions, Answer(s),
         \A t \in Sessions : t # s /\ quoteLock = t => quoteLock' = t
  PROVE  /\ \A t \in Sessions : t # s => Undisturbed(t)
         /\ ReservingAt(s)' /\ ChangingAt(s)'
  BY DEF Answer, Undisturbed, ReservingAt, ChangingAt, TypeOK

LEMMA RowsKept ==
  ASSUME RowsRest, UNCHANGED tables
  PROVE  RowsRest' /\ \A t \in Sessions : Visible(t)' = Visible(t)
  BY DEF RowsRest, tables, Visible

LEMMA RowsLocked ==
  ASSUME TypeOK, RowsRest, NEW s \in Sessions, NEW slot, LockCarRows(s, slot)
  PROVE  RowsRest' /\ \A t \in Sessions : Visible(t)' = Visible(t)
<1>1. RowsRest'
  BY BookingsAssumption DEF LockCarRows, RowsRest, TypeOK
<1>2. ASSUME NEW t \in Sessions, NEW r \in Refs
      PROVE  Visible(t)'[r] = Visible(t)[r]
  BY BookingsAssumption DEF LockCarRows, RowsRest, TypeOK, Visible, CarRows
<1> QED
  BY <1>1, <1>2 DEF Visible

LEMMA RowInserted ==
  ASSUME TypeOK, RowsRest, NEW s \in Sessions, NEW r \in Refs, NEW b \in Booking, Insert(s, r, b)
  PROVE  RowsRest' /\ \A t \in Sessions : RowsStay(t)
  BY BookingsAssumption, SentinelAssumption DEF Insert, RowsRest, TypeOK, Visible, RowsStay

LEMMA RowUpdated ==
  ASSUME TypeOK, RowsRest, NEW s \in Sessions, NEW r \in Refs, NEW b \in Booking, Update(s, r, b)
  PROVE  RowsRest' /\ \A t \in Sessions : RowsStay(t)
  BY BookingsAssumption, SentinelAssumption DEF Update, RowsRest, TypeOK, Visible, RowsStay

LEMMA RowsCommitted ==
  ASSUME TypeOK, RowsRest, NEW s \in Sessions, Commit(s)
  PROVE  RowsRest' /\ \A t \in Sessions : RowsStay(t)
  BY BookingsAssumption DEF Commit, RowsRest, TypeOK, Visible, RowsStay

LEMMA RowsRolledBack ==
  ASSUME TypeOK, RowsRest, NEW s \in Sessions, Rollback(s)
  PROVE  RowsRest' /\ \A t \in Sessions : t # s => Visible(t)' = Visible(t)
<1>1. RowsRest'
  BY BookingsAssumption DEF Rollback, RowsRest, TypeOK
<1>2. ASSUME NEW t \in Sessions, t # s, NEW r \in Refs
      PROVE  Visible(t)'[r] = Visible(t)[r]
  BY <1>2, BookingsAssumption DEF Rollback, RowsRest, TypeOK, Visible
<1> QED
  BY <1>1, <1>2 DEF Visible

LEMMA LedgerKept ==
  ASSUME LedgerRests, UNCHANGED <<ledger, quoteLock>>
  PROVE  LedgerRests' /\ \A t \in Sessions : VisibleQuotes(t)' = VisibleQuotes(t)
  BY DEF LedgerRests, ledger, VisibleQuotes

\* The quote counter's holder may write the ledger as long as it forgets nothing.
LEMMA LedgerWritten ==
  ASSUME TypeOK, LedgerRests, NEW s \in Sessions,
         quoteLock \in {Nobody, s}, quoteLock' = s, UNCHANGED quoteDb,
         \A q \in QuoteIds : quotes[q] # NoQuote =>
            quotes'[q] # NoQuote /\ quotes'[q].price = quotes[q].price
  PROVE  LedgerRests' /\ \A t \in Sessions : QuotesStay(t)
<1>1. LedgerRests'
  BY BookingsAssumption DEF LedgerRests, TypeOK
<1> QED
  BY <1>1, BookingsAssumption DEF LedgerRests, VisibleQuotes, QuotesStay

LEMMA SettleKeeps ==
  ASSUME TypeOK, NEW p \in QuoteIds, quotes[p] # NoQuote, NEW r \in Refs \cup {NoRef},
         NEW op \in {"none", "unsettled", "confirmed", "unavailable", "down"}, Settle(p, op, r)
  PROVE  \A q \in QuoteIds : quotes[q] # NoQuote =>
            quotes'[q] # NoQuote /\ quotes'[q].price = quotes[q].price
<1>1. quotes' \in [QuoteIds -> Quote \cup {NoQuote}]
  BY SettleType
<1>2. quotes[p] \in Quote
  BY DEF TypeOK
<1>3. [quotes[p] EXCEPT !.op = op, !.ref = r] \in Quote
  BY <1>2 DEF Quote
<1>4. [quotes[p] EXCEPT !.op = op, !.ref = r].price = quotes[p].price
  BY <1>2 DEF Quote
<1> QED
  BY <1>3, <1>4, SentinelAssumption DEF Settle, TypeOK

LEMMA ShapeStep == TypeOK /\ Shape /\ [Next]_vars => Shape'
<1> SUFFICES ASSUME TypeOK, Shape, [Next]_vars PROVE Shape'
  OBVIOUS
<1> USE BookingsAssumption DEF Sessions
<1>a. ASSUME NEW t \in Sessions, Visible(t)' = Visible(t) PROVE RowsStay(t)
  BY <1>a DEF RowsStay
<1>b. ASSUME NEW t \in Sessions, VisibleQuotes(t)' = VisibleQuotes(t) PROVE QuotesStay(t)
  BY <1>b DEF QuotesStay
<1>c. RowsRest /\ LedgerRests
  BY DEF Shape
<1>d. ASSUME NEW s \in Sessions, TakeQuoteLock(s)
      PROVE  \A t \in Sessions : t # s /\ quoteLock = t => quoteLock' = t
  BY <1>d DEF TakeQuoteLock
<1>1. ASSUME NEW s \in Turns, NEW slot \in Slots, NEW extras \in Extras, CreateQuote(s, slot, extras)
      PROVE  Shape'
  <2>1. RowsRest' /\ \A t \in Sessions : RowsStay(t)
    BY <1>1, <1>a, <1>c, RowsKept DEF CreateQuote
  <2>2. \A q \in QuoteIds : quotes[q] # NoQuote =>
            quotes'[q] # NoQuote /\ quotes'[q].price = quotes[q].price
    <3>1. CASE UNCHANGED quotes
      BY <3>1
    <3>2. ASSUME NEW q \in QuoteIds, quotes[q] = NoQuote, NEW price, quotes' = WithQuote(s, q, price),
                 NEW p \in QuoteIds, quotes[p] # NoQuote
          PROVE  quotes'[p] # NoQuote /\ quotes'[p].price = quotes[p].price
      <4>1. quotes[p] \in Quote
        BY <3>2 DEF TypeOK
      <4>2. [quotes[p] EXCEPT !.open = FALSE] \in Quote
        BY <4>1 DEF Quote
      <4>3. [quotes[p] EXCEPT !.open = FALSE].price = quotes[p].price
        BY <4>1 DEF Quote
      <4> QED
        BY <3>2, <4>2, <4>3, SentinelAssumption DEF WithQuote
    <3> QED
      BY <1>1, <3>1, <3>2 DEF CreateQuote
  <2>3. LedgerRests' /\ \A t \in Sessions : QuotesStay(t)
    BY <1>1, <1>c, <2>2, LedgerWritten DEF CreateQuote, TakeQuoteLock
  <2> QED
    BY <1>1, <1>d, <2>1, <2>3, AnswerDisturbsNone, ShapeFrom DEF CreateQuote
<1>2. ASSUME NEW s \in Turns, NEW q \in QuoteIds, ReserveStart(s, q)
      PROVE  Shape'
  <2>1. /\ RowsRest' /\ LedgerRests'
        /\ \A t \in Sessions : /\ RowsStay(t) /\ QuotesStay(t)
                               /\ VisibleQuotes(t)' = VisibleQuotes(t)
    BY <1>2, <1>a, <1>b, <1>c, RowsKept, LedgerKept DEF ReserveStart, counters
  <2>2. ReservingAt(s)' /\ ChangingAt(s)'
    BY <1>2, <2>1 DEF ReserveStart, Goto, ReservingAt, ChangingAt, TypeOK
  <2>3. \A t \in Sessions : t # s => Undisturbed(t)
    BY <1>2 DEF ReserveStart, Goto, Undisturbed, TypeOK, counters
  <2> QED
    BY <2>1, <2>2, <2>3, ShapeFrom
<1>e. ASSUME NEW s \in Sessions, Rollback(s)
      PROVE  Shape'
  <2>1. RowsRest' /\ \A t \in Sessions : t # s => RowsStay(t)
    BY <1>a, <1>c, <1>e, RowsRolledBack
  <2>2. LedgerRests' /\ \A t \in Sessions : t # s => VisibleQuotes(t)' = VisibleQuotes(t)
    BY <1>e, <1>c DEF Rollback, LedgerRests, VisibleQuotes, TypeOK
  <2>3. \A t \in Sessions : t # s /\ quoteLock = t => quoteLock' = t
    BY <1>e DEF Rollback
  <2> QED
    BY <1>b, <1>e, <2>1, <2>2, <2>3, AnswerDisturbsNone, ShapeFrom DEF Rollback
<1>3. ASSUME NEW s \in Turns, ReserveValidate(s)
      PROVE  Shape'
  <2>1. CASE Rollback(s)
    BY <2>1, <1>e
  <2>2. CASE TakeQuoteLock(s) /\ Answer(s) /\ UNCHANGED <<tables, ledger>>
    <3>1. RowsRest' /\ \A t \in Sessions : RowsStay(t)
      BY <2>2, <1>a, <1>c, RowsKept
    <3>2. LedgerRests' /\ \A t \in Sessions : QuotesStay(t)
      BY <2>2, <1>c, LedgerWritten DEF TakeQuoteLock, ledger
    <3> QED
      BY <2>2, <1>d, <3>1, <3>2, AnswerDisturbsNone, ShapeFrom
  <2>3. CASE /\ TakeQuoteLock(s) /\ Settle(qid[s], "unsettled", NoRef)
             /\ Goto(s, "reserving") /\ UNCHANGED <<tables, quoteDb, chosen>>
    <3>1. RowsRest' /\ \A t \in Sessions : RowsStay(t)
      BY <2>3, <1>a, <1>c, RowsKept
    <3>2. qid[s] \in QuoteIds /\ quotes[qid[s]] # NoQuote
      BY <1>3 DEF ReserveValidate, Shape, Reserving, ReservingAt, LedgerRests, VisibleQuotes
    <3>3. \A q \in QuoteIds : quotes[q] # NoQuote =>
              quotes'[q] # NoQuote /\ quotes'[q].price = quotes[q].price
      BY <2>3, <3>2, SettleKeeps
    <3>4. LedgerRests' /\ \A t \in Sessions : QuotesStay(t)
      BY <2>3, <1>c, <3>3, LedgerWritten DEF TakeQuoteLock
    <3>5. ReservingAt(s)' /\ ChangingAt(s)'
      BY <2>3, <3>2, <3>3 DEF TakeQuoteLock, Goto, ReservingAt, ChangingAt, VisibleQuotes, TypeOK, chosen
    <3>6. \A t \in Sessions : t # s => Undisturbed(t)
      BY <2>3, <1>d DEF Goto, Undisturbed, TypeOK, chosen
    <3> QED
      BY <3>1, <3>4, <3>5, <3>6, ShapeFrom
  <2> QED
    BY <1>3, <2>1, <2>2, <2>3 DEF ReserveValidate
<1>f. ASSUME NEW s \in Turns, pc[s] \in {"reserving", "taking"}
      PROVE  qid[s] \in QuoteIds /\ quotes[qid[s]] # NoQuote /\ quoteLock = s
  BY <1>f DEF Shape, Reserving, ReservingAt, VisibleQuotes
<1>5. ASSUME NEW s \in Turns, ReserveFails(s)
      PROVE  Shape'
  <2>1. RowsRest' /\ \A t \in Sessions : RowsStay(t)
    BY <1>5, <1>a, <1>c, RowsKept DEF ReserveFails
  <2>2. \A q \in QuoteIds : quotes[q] # NoQuote =>
            quotes'[q] # NoQuote /\ quotes'[q].price = quotes[q].price
    BY <1>5, <1>f, SettleKeeps DEF ReserveFails
  <2>3. LedgerRests' /\ \A t \in Sessions : QuotesStay(t)
    BY <1>5, <1>c, <1>f, <2>2, LedgerWritten DEF ReserveFails, counters
  <2> QED
    BY <1>5, <2>1, <2>3, AnswerDisturbsNone, ShapeFrom DEF ReserveFails, counters
<1>6. ASSUME NEW s \in Turns, ReserveConflict(s)
      PROVE  Shape'
  <2>1. RowsRest' /\ \A t \in Sessions : RowsStay(t)
    BY <1>6, <1>a, <1>c, RowsLocked DEF ReserveConflict
  <2>2. \A q \in QuoteIds : quotes[q] # NoQuote =>
            quotes'[q] # NoQuote /\ quotes'[q].price = quotes[q].price
    BY <1>6, <1>f, SettleKeeps DEF ReserveConflict
  <2>3. LedgerRests' /\ \A t \in Sessions : QuotesStay(t)
    BY <1>6, <1>c, <1>f, <2>2, LedgerWritten DEF ReserveConflict, counters
  <2>4. CASE Answer(s)
    BY <1>6, <2>1, <2>3, <2>4, AnswerDisturbsNone, ShapeFrom DEF ReserveConflict, counters
  <2>5. CASE Goto(s, "taking") /\ UNCHANGED <<quotes, chosen>>
    <3>1. ReservingAt(s)' /\ ChangingAt(s)'
      BY <1>6, <1>f, <2>5 DEF ReserveConflict, Goto, ReservingAt, ChangingAt, VisibleQuotes,
                              TypeOK, chosen, counters
    <3>2. \A t \in Sessions : t # s => Undisturbed(t)
      BY <1>6, <2>5 DEF ReserveConflict, Goto, Undisturbed, TypeOK, chosen, counters
    <3> QED
      BY <2>1, <2>3, <3>1, <3>2, ShapeFrom
  <2> QED
    BY <1>6, <2>4, <2>5 DEF ReserveConflict
<1>7. ASSUME NEW s \in Turns, ReserveInsert(s)
      PROVE  Shape'
  <2> DEFINE booking == [owner |-> CustomerOf[s], slot |-> quotes[qid[s]].price.slot,
                         status |-> "confirmed", price |-> quotes[qid[s]].price,
                         origin |-> qid[s]]
  <2>1. PICK r \in Refs : Insert(s, r, booking) /\ Settle(qid[s], "confirmed", r)
    BY <1>7 DEF ReserveInsert
  <2>2. quotes[qid[s]] \in Quote
    BY <1>7, <1>f DEF ReserveInsert, TypeOK
  <2>3. booking \in Booking
    BY <1>7, <1>f, <2>2 DEF ReserveInsert, Quote, Price, Booking, Slots
  <2>4. RowsRest' /\ \A t \in Sessions : RowsStay(t)
    BY <1>c, <2>1, <2>3, RowInserted
  <2>5. \A q \in QuoteIds : quotes[q] # NoQuote =>
            quotes'[q] # NoQuote /\ quotes'[q].price = quotes[q].price
    BY <1>7, <1>f, <2>1, SettleKeeps DEF ReserveInsert
  <2>6. LedgerRests' /\ \A t \in Sessions : QuotesStay(t)
    BY <1>7, <1>c, <1>f, <2>5, LedgerWritten DEF ReserveInsert, TakeRefLock
  <2> QED
    BY <1>7, <2>4, <2>6, AnswerDisturbsNone, ShapeFrom DEF ReserveInsert, TakeRefLock
<1>8. ASSUME NEW s \in Turns, NEW r \in Refs, NEW slot, CheckChange(s, r, slot), Mine(s, r)
      PROVE  Shape'
  <2>1. /\ RowsRest' /\ LedgerRests' /\ quoteLock' = quoteLock
        /\ \A t \in Sessions : RowsStay(t) /\ QuotesStay(t) /\ Visible(t)' = Visible(t)
    BY <1>8, <1>a, <1>b, <1>c, RowsKept, LedgerKept DEF CheckChange, counters
  <2>2. CASE Answer(s)
    BY <2>1, <2>2, AnswerDisturbsNone, ShapeFrom
  <2>3. CASE Free(s, slot, {r}) /\ Goto(s, "modifying")
             /\ ref' = [ref EXCEPT ![s] = r]
             /\ seen' = [seen EXCEPT ![s] = Visible(s)[r]]
             /\ want' = [want EXCEPT ![s] = PriceOf(slot)]
             /\ UNCHANGED qid
    <3>1. PriceOf(slot) \in Price
      BY <2>3, PriceType DEF Free
    <3>2. ReservingAt(s)' /\ ChangingAt(s)'
      BY <1>8, <2>1, <2>3, <3>1, SentinelAssumption
      DEF Mine, Live, Goto, ReservingAt, ChangingAt, TypeOK
    <3>3. \A t \in Sessions : t # s => Undisturbed(t)
      BY <2>1, <2>3 DEF Goto, Undisturbed, TypeOK
    <3> QED
      BY <2>1, <3>2, <3>3, ShapeFrom
  <2> QED
    BY <1>8, <2>2, <2>3 DEF CheckChange
<1>g. ASSUME NEW s \in Turns, pc[s] \in {"modifying", "writing", "cancelling"}
      PROVE  ref[s] \in Refs /\ latest[ref[s]] \in Booking
  BY <1>g DEF Shape, Changing, ChangingAt, RowsRest, Visible, TypeOK
<1>10. ASSUME NEW s \in Turns, ModifyPrice(s)
       PROVE  Shape'
  <2>1. /\ RowsRest'
        /\ \A t \in Sessions : RowsStay(t) /\ Visible(t)' = Visible(t)
    BY <1>10, <1>a, <1>c, RowsKept DEF ModifyPrice
  <2>2. LedgerRests' /\ \A t \in Sessions : QuotesStay(t)
    BY <1>10, <1>c, LedgerWritten DEF ModifyPrice, TakeQuoteLock, ledger
  <2>3. CASE Answer(s)
    BY <1>10, <1>d, <2>1, <2>2, <2>3, AnswerDisturbsNone, ShapeFrom DEF ModifyPrice
  <2>4. CASE /\ Free(s, want[s].slot, {ref[s]}) /\ Goto(s, "writing")
             /\ want' = [want EXCEPT ![s] = PriceOf(want[s].slot)]
             /\ UNCHANGED <<qid, ref, seen>>
    <3>1. PriceOf(want[s].slot) \in Price
      BY <2>4, PriceType DEF Free
    <3>2. ChangingAt(s)
      BY DEF Shape, Changing
    <3>3. ReservingAt(s)' /\ ChangingAt(s)'
      BY <1>10, <2>1, <2>4, <3>1, <3>2, SentinelAssumption
      DEF ModifyPrice, TakeQuoteLock, Goto, ReservingAt, ChangingAt, TypeOK
    <3>4. \A t \in Sessions : t # s => Undisturbed(t)
      BY <1>10, <1>d, <2>4 DEF ModifyPrice, Goto, Undisturbed, TypeOK
    <3> QED
      BY <2>1, <2>2, <3>3, <3>4, ShapeFrom
  <2> QED
    BY <1>10, <2>3, <2>4 DEF ModifyPrice
<1>h. ASSUME NEW s \in Turns, NEW b \in Booking, ref[s] \in Refs, Update(s, ref[s], b),
             Answer(s), UNCHANGED <<ledger, quoteLock>>
      PROVE  Shape'
  <2>1. RowsRest' /\ \A t \in Sessions : RowsStay(t)
    BY <1>c, <1>h, RowUpdated
  <2>2. LedgerRests' /\ \A t \in Sessions : QuotesStay(t)
    BY <1>b, <1>c, <1>h, LedgerKept
  <2> QED
    BY <1>h, <2>1, <2>2, AnswerDisturbsNone, ShapeFrom
<1>12. ASSUME NEW s \in Turns, ModifyWrite(s)
       PROVE  Shape'
  <2>1. seen[s] \in Booking /\ want[s] \in Price
    BY <1>12 DEF ModifyWrite, Shape, Changing, ChangingAt, TypeOK
  <2>2. Merged(latest[ref[s]], seen[s], want[s]) \in Booking
    BY <1>g, <1>12, <2>1, MergedType DEF ModifyWrite
  <2> QED
    BY <1>g, <1>h, <1>12, <2>2 DEF ModifyWrite, counters
<1>13. ASSUME NEW s \in Turns, Begins(s)
       PROVE  Shape'
  <2>1. /\ RowsRest' /\ LedgerRests' /\ quoteLock' = quoteLock
        /\ \A t \in Sessions : RowsStay(t) /\ QuotesStay(t) /\ Visible(t)' = Visible(t)
    BY <1>13, <1>a, <1>b, <1>c, RowsKept, LedgerKept DEF Begins, Begin, counters
  <2>2. ReservingAt(s)' /\ ChangingAt(s)'
    BY <1>13, <2>1 DEF Begins, Begin, Goto, ReservingAt, ChangingAt, TypeOK
  <2>3. \A t \in Sessions : t # s => Undisturbed(t)
    BY <1>13, <2>1 DEF Begins, Begin, Goto, Undisturbed, TypeOK
  <2> QED
    BY <2>1, <2>2, <2>3, ShapeFrom
<1>14. ASSUME NEW s \in Turns, CancelWrite(s)
       PROVE  Shape'
  <2>1. [latest[ref[s]] EXCEPT !.status = "cancelled"] \in Booking
    BY <1>g, <1>14 DEF CancelWrite, Booking
  <2> QED
    BY <1>g, <1>h, <1>14, <2>1 DEF CancelWrite, Aside
<1>25. ASSUME NEW s \in Turns, Notes(s)
       PROVE  Shape'
  <2>1. RowsRest' /\ \A t \in Sessions : RowsStay(t)
    <3>1. RowsRest'
      BY <1>25, <1>c, NotesLock DEF RowsRest, TypeOK
    <3> QED
      BY <1>25, <1>a, <3>1, NotesLock
  <2>2. LedgerRests' /\ \A t \in Sessions : QuotesStay(t)
    BY <1>25, <1>b, <1>c, NotesLock, LedgerKept
  <2>3. CASE Answer(s)
    BY <1>25, <2>1, <2>2, <2>3, NotesLock, AnswerDisturbsNone, ShapeFrom
  <2>4. CASE (Goto(s, "paying") \/ Goto(s, "noting")) /\ UNCHANGED chosen
    <3>1. ref[s] \in Refs /\ Visible(s)[ref[s]] # NoBooking /\ ReservingAt(s)
      BY <1>25
      DEF Notes, LockBooking, TakePayment, NoteBooking, Shape, Reserving, Changing, ChangingAt
    <3>2. ReservingAt(s)' /\ ChangingAt(s)'
      BY <1>25, <2>4, <3>1, NotesLock DEF Goto, ReservingAt, ChangingAt, chosen, TypeOK
    <3>3. \A t \in Sessions : t # s => Undisturbed(t)
      BY <1>25, <2>4, NotesLock DEF Goto, Undisturbed, chosen, TypeOK
    <3> QED
      BY <2>1, <2>2, <3>2, <3>3, ShapeFrom
  <2> QED
    BY <1>25, <2>3, <2>4, NotesLock
<1>15. ASSUME NEW s \in Desks, NEW slot \in Slots, DeskCheck(s, slot)
       PROVE  Shape'
  <2>1. /\ RowsRest' /\ LedgerRests' /\ quoteLock' = quoteLock
        /\ \A t \in Sessions : RowsStay(t) /\ QuotesStay(t) /\ Visible(t)' = Visible(t)
    BY <1>15, <1>a, <1>b, <1>c, RowsLocked, LedgerKept DEF DeskCheck, counters
  <2>2. CASE Answer(s)
    BY <2>1, <2>2, AnswerDisturbsNone, ShapeFrom
  <2>3. CASE /\ Goto(s, "inserting") /\ want' = [want EXCEPT ![s] = NoCharge(slot)]
             /\ UNCHANGED <<qid, ref, seen>>
    <3>1. NoCharge(slot) \in Price
      BY PriceType
    <3>2. ReservingAt(s)' /\ ChangingAt(s)'
      BY <2>1, <2>3, <3>1, SentinelAssumption DEF Goto, ReservingAt, ChangingAt, TypeOK
    <3>3. \A t \in Sessions : t # s => Undisturbed(t)
      BY <2>1, <2>3 DEF Goto, Undisturbed, TypeOK
    <3> QED
      BY <2>1, <3>2, <3>3, ShapeFrom
  <2> QED
    BY <1>15, <2>2, <2>3 DEF DeskCheck
<1>16. ASSUME NEW s \in Desks, DeskInsert(s)
       PROVE  Shape'
  <2> DEFINE booking == [owner |-> CustomerOf[s], slot |-> want[s].slot, status |-> "confirmed",
                         price |-> want[s], origin |-> NoQuote]
  <2>1. PICK r \in Refs : Insert(s, r, booking)
    BY <1>16 DEF DeskInsert
  <2>2. want[s] \in Price
    BY <1>16 DEF DeskInsert, Shape, Changing, ChangingAt, TypeOK
  <2>3. booking \in Booking
    BY <2>2 DEF Price, Booking, Slots
  <2>4. RowsRest' /\ \A t \in Sessions : RowsStay(t)
    BY <1>c, <2>1, <2>3, RowInserted
  <2>5. LedgerRests' /\ \A t \in Sessions : QuotesStay(t)
    BY <1>16, <1>b, <1>c, LedgerKept DEF DeskInsert, TakeRefLock
  <2> QED
    BY <1>16, <2>4, <2>5, AnswerDisturbsNone, ShapeFrom DEF DeskInsert, TakeRefLock
<1>17. ASSUME NEW s \in Sessions, Commit(s)
       PROVE  Shape'
  <2>1. RowsRest' /\ \A t \in Sessions : RowsStay(t)
    BY <1>17, <1>c, RowsCommitted
  <2>2. LedgerRests' /\ \A t \in Sessions : t # s => QuotesStay(t)
    BY <1>17, <1>c DEF Commit, LedgerRests, VisibleQuotes, QuotesStay, TypeOK
  <2>3. \A t \in Sessions : t # s /\ quoteLock = t => quoteLock' = t
    BY <1>17 DEF Commit
  <2> QED
    BY <1>17, <2>1, <2>2, <2>3, AnswerDisturbsNone, ShapeFrom DEF Commit
<1>18. ASSUME NEW s \in Sessions, Abort(s)
       PROVE  Shape'
  BY <1>18, <1>e DEF Abort
<1>19. ASSUME UNCHANGED <<tables, ledger, counters, pc, chosen>>
       PROVE  Shape'
  <2>1. RowsRest' /\ \A t \in Sessions : Visible(t)' = Visible(t)
    BY <1>19, <1>c, RowsKept
  <2>2. LedgerRests' /\ \A t \in Sessions : VisibleQuotes(t)' = VisibleQuotes(t)
    BY <1>19, <1>c, LedgerKept DEF counters
  <2> QED
    BY <1>19, <2>1, <2>2
    DEF Shape, Reserving, ReservingAt, Changing, ChangingAt, chosen, counters
<1>21. ASSUME NEW q \in QuoteIds, QuoteExpires(q)
       PROVE  Shape'
  <2>1. quoteDb[q] \in Quote /\ quotes[q] \in Quote
    BY <1>21, <1>c DEF QuoteExpires, LedgerRests, TypeOK
  <2>2. /\ [quoteDb[q] EXCEPT !.open = FALSE] \in Quote
        /\ [quotes[q] EXCEPT !.open = FALSE] \in Quote
        /\ [quoteDb[q] EXCEPT !.open = FALSE].price = quoteDb[q].price
        /\ [quotes[q] EXCEPT !.open = FALSE].price = quotes[q].price
    BY <2>1 DEF Quote
  <2>3. \A p \in QuoteIds : /\ quotes[p] # NoQuote <=> quotes'[p] # NoQuote
                            /\ quoteDb[p] # NoQuote <=> quoteDb'[p] # NoQuote
                            /\ quotes[p] # NoQuote => quotes'[p].price = quotes[p].price
                            /\ quoteDb[p] # NoQuote => quoteDb'[p].price = quoteDb[p].price
    BY <1>21, <2>1, <2>2, SentinelAssumption DEF QuoteExpires, TypeOK
  <2>4. LedgerRests'
    BY <1>21, <1>c, <2>3 DEF QuoteExpires, LedgerRests, counters
  <2>5. \A t \in Sessions : QuotesStay(t)
    BY <1>21, <2>3 DEF QuoteExpires, QuotesStay, VisibleQuotes, counters
  <2>6. RowsRest' /\ \A t \in Sessions : RowsStay(t)
    BY <1>21, <1>a, <1>c, RowsKept DEF QuoteExpires
  <2>7. \A t \in Sessions : Undisturbed(t)
    BY <1>21 DEF QuoteExpires, Undisturbed, chosen, counters
  <2>8. \A t \in Sessions : ReservingAt(t)' /\ ChangingAt(t)'
    BY <2>5, <2>6, <2>7
    DEF Shape, Reserving, ReservingAt, Changing, ChangingAt, Undisturbed, QuotesStay, RowsStay
  <2> QED
    BY <2>4, <2>6, <2>8 DEF Shape, Reserving, Changing
<1>23. ASSUME NEW s \in Turns, TurnStep(s)
       PROVE  Shape'
  BY <1>1, <1>2, <1>3, <1>5, <1>6, <1>7, <1>8, <1>10, <1>12, <1>13, <1>14, <1>23, <1>25,
     StartsBegin
  DEF TurnStep, ModifyStart, ExtendStart, Notes
<1>24. ASSUME NEW s \in Desks, DeskStep(s)
       PROVE  Shape'
  BY <1>15, <1>16, <1>24 DEF DeskStep
<1> QED
  BY <1>17, <1>18, <1>19, <1>21, <1>23, <1>24 DEF Next, vars, FleetChange, TariffChange

\* Every variable keeps to its type, and a session half-way through a tool always
\* finds what it loaded, whatever the others do and however many they are.
THEOREM TypeCorrect == Spec => []TypeOK
<1>1. Spec => [](TypeOK /\ Shape)
  BY InitShape, TypeStep, ShapeStep, PTL DEF Spec
<1> QED
  BY <1>1, PTL

-----------------------------------------------------------------------------
(***************************************************************************)
(* The ledger of reserve operations and the bookings agree, for turns of   *)
(* one customer side by side as well.                                      *)
(*                                                                         *)
(* Two copies of both exist while a transaction runs: what is committed,   *)
(* and the newest.  They agree each on its own, because only the holder of *)
(* the quote counter makes bookings out of quotes.                         *)
(***************************************************************************)
\* The quote a row was made from, if any.
Source(b) == IF b = NoBooking THEN NoQuote ELSE b.origin

Settled(book, q, op) == book[q] # NoQuote /\ book[q].op = op

Agree(book, rows) ==
    /\ \A q \in QuoteIds : Settled(book, q, "confirmed") =>
          book[q].ref \in Refs /\ Source(rows[book[q].ref]) = q
    /\ \A r \in Refs : Source(rows[r]) # NoQuote =>
          Settled(book, Source(rows[r]), "confirmed") /\ book[Source(rows[r])].ref = r

\* Bookings made from quotes wait for their commit under the quote counter's lock.
SourcesUnderLock == \A r \in Refs :
    rowLock[r] # quoteLock => Source(latest[r]) = Source(db[r])

\* An operation left open stays open, and the one being carried out is new.
OpenStaysOpen == \A q \in QuoteIds :
    Settled(quoteDb, q, "unsettled") => Settled(quotes, q, "unsettled")

Underway(s) == pc[s] \in {"reserving", "taking"} =>
    Settled(quotes, qid[s], "unsettled") /\ ~Settled(quoteDb, qid[s], "unsettled")

Accounted == /\ Agree(quoteDb, db)
             /\ Agree(quotes, latest)
             /\ SourcesUnderLock
             /\ OpenStaysOpen
             /\ \A s \in Sessions : Underway(s)

-----------------------------------------------------------------------------
(* What keeps the two in agreement *)

SameSources(new, old) == \A r \in Refs : Source(new[r]) = Source(old[r])

SameAnswers(new, old) == \A q \in QuoteIds :
    /\ Settled(new, q, "confirmed") <=> Settled(old, q, "confirmed")
    /\ Settled(old, q, "confirmed") => new[q].ref = old[q].ref

LEMMA SourceType ==
  ASSUME TypeOK, NEW r \in Refs
  PROVE  Source(db[r]) \in QuoteIds \cup {NoQuote} /\ Source(latest[r]) \in QuoteIds \cup {NoQuote}
  BY DEF TypeOK, Source, Booking

LEMMA AgreeKept ==
  ASSUME NEW book, NEW was, NEW new, NEW old, Agree(was, old),
         \A r \in Refs : Source(old[r]) \in QuoteIds \cup {NoQuote},
         SameSources(new, old), SameAnswers(book, was)
  PROVE  Agree(book, new)
<1>1. ASSUME NEW q \in QuoteIds, Settled(book, q, "confirmed")
      PROVE  book[q].ref \in Refs /\ Source(new[book[q].ref]) = q
  BY <1>1 DEF Agree, SameSources, SameAnswers
<1>2. ASSUME NEW r \in Refs, Source(new[r]) # NoQuote
      PROVE  Settled(book, Source(new[r]), "confirmed") /\ book[Source(new[r])].ref = r
  <2>1. Source(new[r]) = Source(old[r]) /\ Source(old[r]) \in QuoteIds
    BY <1>2 DEF SameSources
  <2> QED
    BY <1>2, <2>1 DEF Agree, SameAnswers
<1> QED
  BY <1>1, <1>2 DEF Agree

\* Writing a row without giving it a new source.
LEMMA RowWritten ==
  ASSUME TypeOK, NEW r \in Refs, NEW b \in Booking, latest' = [latest EXCEPT ![r] = b],
         Source(b) = Source(latest[r])
  PROVE  SameSources(latest', latest)
  BY DEF SameSources, TypeOK

\* What settling one operation does to the ledger.
LEMMA QuoteSettled ==
  ASSUME TypeOK, NEW q \in QuoteIds, quotes[q] # NoQuote, NEW r \in Refs \cup {NoRef},
         NEW op \in {"none", "unsettled", "confirmed", "unavailable", "down"}, Settle(q, op, r)
  PROVE  /\ \A p \in QuoteIds : p # q => quotes'[p] = quotes[p]
         /\ quotes'[q] # NoQuote /\ quotes'[q].op = op /\ quotes'[q].ref = r
<1>1. quotes[q] \in Quote
  BY DEF TypeOK
<1>2. /\ [quotes[q] EXCEPT !.op = op, !.ref = r] \in Quote
      /\ [quotes[q] EXCEPT !.op = op, !.ref = r].op = op
      /\ [quotes[q] EXCEPT !.op = op, !.ref = r].ref = r
  BY <1>1 DEF Quote
<1> QED
  BY <1>2, SentinelAssumption DEF Settle, TypeOK

\* Taking free locks, the quote counter's among them, and writing rows without
\* giving them a new source.
LEMMA SourcesKept ==
  ASSUME TypeOK, Shape, SourcesUnderLock, NEW s \in Sessions, UNCHANGED db,
         SameSources(latest', latest),
         quoteLock' = quoteLock \/ (quoteLock = Nobody /\ quoteLock' = s),
         \A r \in Refs : rowLock'[r] = rowLock[r] \/ (rowLock[r] \in {Nobody, s} /\ rowLock'[r] = s)
                         \/ Source(latest[r]) = Source(db[r])
  PROVE  SourcesUnderLock'
<1> SUFFICES ASSUME NEW r \in Refs, rowLock'[r] # quoteLock'
             PROVE  Source(latest'[r]) = Source(db[r])
  BY DEF SourcesUnderLock
<1>1. Source(latest'[r]) = Source(latest[r])
  BY DEF SameSources
<1>2. CASE rowLock[r] = Nobody
  BY <1>1, <1>2 DEF Shape, RowsRest
<1>3. CASE rowLock[r] # Nobody
  BY <1>1, <1>3, BookingsAssumption DEF SourcesUnderLock
<1> QED
  BY <1>2, <1>3

\* The step confirms no operation, and settles none that is open in the committed
\* ledger.
Careful == /\ SameAnswers(quotes', quotes) /\ SameAnswers(quoteDb', quoteDb)
           /\ \A q \in QuoteIds :
                 /\ Settled(quoteDb', q, "unsettled") <=> Settled(quoteDb, q, "unsettled")
                 /\ Settled(quoteDb, q, "unsettled") => Settled(quotes', q, "unsettled")

LEMMA AccountedFrom ==
  ASSUME TypeOK, Shape, Accounted, NEW s \in Sessions, UNCHANGED db,
         SameSources(latest', latest), SourcesUnderLock', Careful,
         \A t \in Sessions : t # s => pc'[t] = pc[t] /\ qid'[t] = qid[t],
         quoteLock \in {Nobody, s} \/ UNCHANGED quotes,
         Underway(s)'
  PROVE  Accounted'
<1>1. Agree(quoteDb', db)
  <2>1. SameSources(db, db)
    BY DEF SameSources
  <2> QED
    BY <2>1, AgreeKept, SourceType DEF Accounted, Careful
<1>2. Agree(quotes', latest')
  BY AgreeKept, SourceType DEF Accounted, Careful
<1>3. OpenStaysOpen'
  BY DEF Careful, OpenStaysOpen
<1>4. ASSUME NEW t \in Sessions, t # s PROVE Underway(t)'
  <2>1. CASE pc[t] \in {"reserving", "taking"}
    <3>1. quoteLock = t /\ qid[t] \in QuoteIds
      BY <2>1 DEF Shape, Reserving, ReservingAt
    <3>2. quotes' = quotes
      BY <1>4, <3>1, BookingsAssumption
    <3> QED
      BY <1>4, <2>1, <3>1, <3>2 DEF Accounted, Underway, Careful, Settled
  <2> QED
    BY <1>4, <2>1 DEF Underway
<1> QED
  BY <1>1, <1>2, <1>3, <1>4 DEF Accounted

LEMMA CarefulSame ==
  ASSUME Accounted, UNCHANGED ledger
  PROVE  Careful
  BY DEF Careful, SameAnswers, Accounted, OpenStaysOpen, ledger, Settled

\* Settling an operation that is neither confirmed nor open in what is committed.
LEMMA CarefulSettle ==
  ASSUME TypeOK, Accounted, NEW q \in QuoteIds, quotes[q] # NoQuote, UNCHANGED quoteDb,
         NEW op \in {"unsettled", "unavailable", "down"}, Settle(q, op, NoRef),
         quotes[q].op # "confirmed", ~Settled(quoteDb, q, "unsettled")
  PROVE  Careful
<1>1. /\ \A p \in QuoteIds : p # q => quotes'[p] = quotes[p]
      /\ quotes'[q] # NoQuote /\ quotes'[q].op = op
  BY QuoteSettled
<1> QED
  BY <1>1 DEF Careful, SameAnswers, Accounted, OpenStaysOpen, Settled

LEMMA SameTables ==
  ASSUME TypeOK, Shape, Accounted, NEW s \in Sessions, UNCHANGED tables,
         quoteLock' = quoteLock \/ (quoteLock = Nobody /\ quoteLock' = s)
  PROVE  UNCHANGED db /\ SameSources(latest', latest) /\ SourcesUnderLock'
<1>1. UNCHANGED db /\ SameSources(latest', latest)
  BY DEF tables, SameSources
<1> QED
  BY <1>1, SourcesKept DEF tables, Accounted

LEMMA SameRows ==
  ASSUME TypeOK, Shape, Accounted, NEW s \in Sessions, NEW slot, LockCarRows(s, slot),
         quoteLock' = quoteLock
  PROVE  UNCHANGED db /\ SameSources(latest', latest) /\ SourcesUnderLock'
<1>1. UNCHANGED db /\ SameSources(latest', latest)
  BY DEF LockCarRows, SameSources
<1> QED
  BY <1>1, SourcesKept DEF LockCarRows, Accounted, TypeOK

LEMMA RowPut ==
  ASSUME TypeOK, Shape, Accounted, NEW s \in Sessions, NEW r \in Refs, NEW b \in Booking,
         Source(b) = Source(latest[r]), quoteLock' = quoteLock,
         Update(s, r, b) \/ Insert(s, r, b)
  PROVE  UNCHANGED db /\ SameSources(latest', latest) /\ SourcesUnderLock'
<1>1. UNCHANGED db /\ SameSources(latest', latest)
  BY RowWritten DEF Update, Insert
<1>2. rowLock[r] \in {Nobody, s} \/ Source(latest[r]) = Source(db[r])
  BY DEF Update, Insert, Shape, RowsRest
<1>3. rowLock' = [rowLock EXCEPT ![r] = s]
  BY DEF Update, Insert
<1> QED
  BY <1>1, <1>2, <1>3, SourcesKept DEF Accounted, TypeOK

\* A tool that answers is not carrying out an operation any more.
LEMMA Answered ==
  ASSUME TypeOK, NEW s \in Sessions, Answer(s)
  PROVE  /\ Underway(s)'
         /\ \A t \in Sessions : t # s => pc'[t] = pc[t] /\ qid'[t] = qid[t]
  BY DEF Answer, Underway, TypeOK

LEMMA WentOn ==
  ASSUME TypeOK, NEW s \in Sessions, NEW step, Goto(s, step), step \notin {"reserving", "taking"},
         qid' = qid \/ \E q \in QuoteIds : qid' = [qid EXCEPT ![s] = q]
  PROVE  /\ Underway(s)'
         /\ \A t \in Sessions : t # s => pc'[t] = pc[t] /\ qid'[t] = qid[t]
  BY DEF Goto, Underway, TypeOK

-----------------------------------------------------------------------------
(* The steps *)

\* A new quote has no operation, and an older one keeps the one it has.
LEMMA QuoteMade ==
  ASSUME TypeOK, Accounted, NEW s \in Sessions, NEW q \in QuoteIds, quotes[q] = NoQuote,
         quoteDb[q] = NoQuote, NEW price \in Price, quotes' = WithQuote(s, q, price), UNCHANGED quoteDb
  PROVE  Careful
<1>1. ASSUME NEW p \in QuoteIds, p # q
      PROVE  /\ quotes'[p] # NoQuote <=> quotes[p] # NoQuote
             /\ quotes[p] # NoQuote => quotes'[p].op = quotes[p].op /\ quotes'[p].ref = quotes[p].ref
  <2>1. CASE quotes[p] # NoQuote
    <3>1. quotes[p] \in Quote
      BY <2>1 DEF TypeOK
    <3>2. /\ [quotes[p] EXCEPT !.open = FALSE] \in Quote
          /\ [quotes[p] EXCEPT !.open = FALSE].op = quotes[p].op
          /\ [quotes[p] EXCEPT !.open = FALSE].ref = quotes[p].ref
      BY <3>1 DEF Quote
    <3> QED
      BY <1>1, <2>1, <3>2, SentinelAssumption DEF WithQuote
  <2>2. CASE quotes[p] = NoQuote
    BY <1>1, <2>2 DEF WithQuote
  <2> QED
    BY <2>1, <2>2
<1>2. ~Settled(quotes', q, "confirmed")
  BY DEF WithQuote, Settled
<1> QED
  BY <1>1, <1>2 DEF Careful, SameAnswers, Accounted, OpenStaysOpen, Settled

LEMMA CreateAccounted ==
  ASSUME TypeOK, Shape, Accounted, NEW s \in Turns, NEW slot \in Slots, NEW extras \in Extras,
         CreateQuote(s, slot, extras)
  PROVE  Accounted'
<1> USE BookingsAssumption DEF Sessions
<1>1. Careful
  <2>1. CASE UNCHANGED quotes
    BY <2>1, CarefulSame DEF CreateQuote, ledger
  <2>2. ASSUME NEW q \in QuoteIds, quotes[q] = NoQuote,
               quotes' = WithQuote(s, q, [PriceOf(slot) EXCEPT !.extras = extras])
        PROVE  Careful
    <3>1. PriceOf(slot) \in Price
      BY PriceType
    <3>2. [PriceOf(slot) EXCEPT !.extras = extras] \in Price
      BY <3>1 DEF Price
    <3>3. quoteDb[q] = NoQuote
      BY <2>2 DEF Shape, LedgerRests
    <3> QED
      BY <2>2, <3>2, <3>3, QuoteMade DEF CreateQuote
  <2> QED
    BY <2>1, <2>2 DEF CreateQuote
<1>2. UNCHANGED db /\ SameSources(latest', latest) /\ SourcesUnderLock'
  BY SameTables DEF CreateQuote, TakeQuoteLock
<1> QED
  BY <1>1, <1>2, Answered, AccountedFrom DEF CreateQuote, TakeQuoteLock

LEMMA RollbackAccounted ==
  ASSUME TypeOK, Shape, Accounted, NEW s \in Sessions, Rollback(s)
  PROVE  Accounted'
<1>1. ASSUME NEW r \in Refs
      PROVE  latest'[r] = IF rowLock[r] = s THEN db[r] ELSE latest[r]
  BY DEF Rollback
<1>2. Agree(quotes', latest')
  <2>1. CASE quoteLock = s
    <3>1. ASSUME NEW r \in Refs PROVE Source(latest'[r]) = Source(db[r])
      BY <1>1, <2>1 DEF Accounted, SourcesUnderLock
    <3>2. quotes' = quoteDb /\ SameAnswers(quoteDb, quoteDb)
      BY <2>1 DEF Rollback, SameAnswers
    <3> QED
      BY <3>1, <3>2, AgreeKept, SourceType DEF SameSources, Accounted
  <2>2. CASE quoteLock # s
    <3>1. ASSUME NEW r \in Refs PROVE Source(latest'[r]) = Source(latest[r])
      BY <1>1, <2>2 DEF Accounted, SourcesUnderLock
    <3>2. quotes' = quotes /\ SameAnswers(quotes, quotes)
      BY <2>2 DEF Rollback, SameAnswers
    <3> QED
      BY <3>1, <3>2, AgreeKept, SourceType DEF SameSources, Accounted
  <2> QED
    BY <2>1, <2>2
<1>3. SourcesUnderLock'
  BY BookingsAssumption DEF Rollback, Accounted, SourcesUnderLock, Shape, RowsRest, TypeOK
<1>4. OpenStaysOpen'
  BY DEF Rollback, Accounted, OpenStaysOpen
<1>5. ASSUME NEW t \in Sessions PROVE Underway(t)'
  <2>1. CASE t = s
    BY <2>1, Answered DEF Rollback
  <2>2. CASE t # s
    BY <2>2, Answered DEF Rollback, Accounted, Underway, Shape, Reserving, ReservingAt
  <2> QED
    BY <2>1, <2>2
<1> QED
  BY <1>2, <1>3, <1>4, <1>5 DEF Accounted, Rollback

\* The holder of the quote counter commits the ledger with the bookings; nobody
\* else commits a booking made from a quote.
LEMMA CommitAccounted ==
  ASSUME TypeOK, Shape, Accounted, NEW s \in Sessions, Commit(s)
  PROVE  Accounted'
<1>1. ASSUME NEW r \in Refs
      PROVE  db'[r] = IF rowLock[r] = s THEN latest[r] ELSE db[r]
  BY DEF Commit, Visible
<1>2. Agree(quoteDb', db')
  <2>1. CASE quoteLock = s
    <3>1. ASSUME NEW r \in Refs PROVE Source(db'[r]) = Source(latest[r])
      BY <1>1, <2>1 DEF Accounted, SourcesUnderLock
    <3>2. quoteDb' = quotes /\ SameAnswers(quotes, quotes)
      BY <2>1 DEF Commit, VisibleQuotes, SameAnswers
    <3> QED
      BY <3>1, <3>2, AgreeKept, SourceType DEF SameSources, Accounted
  <2>2. CASE quoteLock # s
    <3>1. ASSUME NEW r \in Refs PROVE Source(db'[r]) = Source(db[r])
      BY <1>1, <2>2 DEF Accounted, SourcesUnderLock
    <3>2. quoteDb' = quoteDb /\ SameAnswers(quoteDb, quoteDb)
      BY <2>2 DEF Commit, VisibleQuotes, SameAnswers
    <3> QED
      BY <3>1, <3>2, AgreeKept, SourceType DEF SameSources, Accounted
  <2> QED
    BY <2>1, <2>2
<1>3. Agree(quotes', latest')
  BY DEF Commit, Accounted
<1>4. SourcesUnderLock'
  BY <1>1, BookingsAssumption DEF Commit, Accounted, SourcesUnderLock, Shape, RowsRest, TypeOK
<1>5. OpenStaysOpen'
  BY DEF Commit, VisibleQuotes, Accounted, OpenStaysOpen, Settled
<1>6. ASSUME NEW t \in Sessions PROVE Underway(t)'
  <2>1. CASE t = s
    BY <2>1, Answered DEF Commit
  <2>2. CASE t # s
    BY <2>2, Answered
    DEF Commit, VisibleQuotes, Accounted, Underway, Settled, Shape, Reserving, ReservingAt
  <2> QED
    BY <2>1, <2>2
<1> QED
  BY <1>2, <1>3, <1>4, <1>5, <1>6 DEF Accounted

\* The one step that makes a booking from a quote settles the quote's operation.
LEMMA InsertAccounted ==
  ASSUME TypeOK, Shape, Accounted, NEW s \in Turns, ReserveInsert(s)
  PROVE  Accounted'
<1> USE BookingsAssumption DEF Sessions
<1> DEFINE booking == [owner |-> CustomerOf[s], slot |-> quotes[qid[s]].price.slot,
                       status |-> "confirmed", price |-> quotes[qid[s]].price,
                       origin |-> qid[s]]
           q == qid[s]
<1>1. PICK r \in Refs : Insert(s, r, booking) /\ Settle(q, "confirmed", r)
  BY DEF ReserveInsert
<1>2. /\ q \in QuoteIds /\ quotes[q] \in Quote /\ quotes[q] # NoQuote
      /\ quoteLock = s /\ quoteLock' = s
  BY SentinelAssumption
  DEF ReserveInsert, TakeRefLock, Shape, Reserving, ReservingAt, VisibleQuotes, TypeOK
<1>3. booking \in Booking /\ Source(booking) = q
  BY <1>2, SentinelAssumption DEF Quote, Price, Booking, Slots, Source
<1>4. /\ \A p \in QuoteIds : p # q => quotes'[p] = quotes[p]
      /\ quotes'[q] # NoQuote /\ quotes'[q].op = "confirmed" /\ quotes'[q].ref = r
  BY <1>1, <1>2, QuoteSettled
<1>5. Settled(quotes, q, "unsettled") /\ ~Settled(quoteDb, q, "unsettled")
  BY DEF ReserveInsert, Accounted, Underway
<1>6. /\ \A x \in Refs : x # r => latest'[x] = latest[x] /\ rowLock'[x] = rowLock[x]
      /\ Source(latest'[r]) = q /\ Source(latest[r]) = NoQuote /\ rowLock'[r] = s
  BY <1>1, <1>3 DEF Insert, TypeOK, Source
<1> HIDE DEF booking, q
<1>7. Agree(quotes', latest')
  BY <1>2, <1>4, <1>5, <1>6, SourceType DEF Accounted, Agree, Settled
<1>8. Agree(quoteDb', db')
  BY <1>1 DEF Insert, ReserveInsert, Accounted
<1>9. SourcesUnderLock'
  BY <1>1, <1>2, <1>6 DEF Insert, Accounted, SourcesUnderLock
<1>10. OpenStaysOpen'
  BY <1>4, <1>5 DEF ReserveInsert, Accounted, OpenStaysOpen, Settled
<1>11. ASSUME NEW t \in Sessions PROVE Underway(t)'
  <2>1. CASE t = s
    BY <2>1, Answered DEF ReserveInsert
  <2>2. CASE t # s
    BY <1>2, <2>2, Answered DEF ReserveInsert, Underway, Shape, Reserving, ReservingAt
  <2> QED
    BY <2>1, <2>2
<1> QED
  BY <1>7, <1>8, <1>9, <1>10, <1>11 DEF Accounted

LEMMA ValidateAccounted ==
  ASSUME TypeOK, Shape, Accounted, NEW s \in Turns, ReserveValidate(s)
  PROVE  Accounted'
<1> USE BookingsAssumption DEF Sessions
<1>1. CASE Rollback(s)
  BY <1>1, RollbackAccounted
<1>2. CASE TakeQuoteLock(s) /\ Answer(s) /\ UNCHANGED <<tables, ledger>>
  <2>1. UNCHANGED db /\ SameSources(latest', latest) /\ SourcesUnderLock'
    BY <1>2, SameTables DEF TakeQuoteLock
  <2> QED
    BY <1>2, <2>1, CarefulSame, Answered, AccountedFrom DEF TakeQuoteLock
<1>3. CASE /\ TakeQuoteLock(s) /\ quotes[qid[s]].op = "none"
           /\ Settle(qid[s], "unsettled", NoRef)
           /\ Goto(s, "reserving") /\ UNCHANGED <<tables, quoteDb, chosen>>
  <2>1. qid[s] \in QuoteIds /\ quotes[qid[s]] # NoQuote
    BY DEF ReserveValidate, Shape, Reserving, ReservingAt, LedgerRests, VisibleQuotes
  <2>2. ~Settled(quoteDb, qid[s], "unsettled")
    BY <1>3, <2>1 DEF Accounted, OpenStaysOpen, Settled
  <2>3. Careful
    BY <1>3, <2>1, <2>2, CarefulSettle
  <2>4. UNCHANGED db /\ SameSources(latest', latest) /\ SourcesUnderLock'
    BY <1>3, SameTables DEF TakeQuoteLock
  <2>5. quotes'[qid[s]] # NoQuote /\ quotes'[qid[s]].op = "unsettled"
    BY <1>3, <2>1, QuoteSettled
  <2>6. Underway(s)' /\ \A t \in Sessions : t # s => pc'[t] = pc[t] /\ qid'[t] = qid[t]
    BY <1>3, <2>2, <2>5 DEF Goto, chosen, Underway, Settled, TypeOK
  <2> QED
    BY <1>3, <2>3, <2>4, <2>6, AccountedFrom DEF TakeQuoteLock
<1> QED
  BY <1>1, <1>2, <1>3 DEF ReserveValidate

LEMMA AttemptAccounted ==
  ASSUME TypeOK, Shape, Accounted, NEW s \in Turns, ReserveFails(s) \/ ReserveConflict(s)
  PROVE  Accounted'
<1> USE BookingsAssumption DEF Sessions
<1>1. /\ qid[s] \in QuoteIds /\ quotes[qid[s]] # NoQuote /\ quoteLock = s
      /\ Settled(quotes, qid[s], "unsettled") /\ ~Settled(quoteDb, qid[s], "unsettled")
      /\ quoteLock' = s /\ UNCHANGED quoteDb /\ pc[s] = "reserving"
  BY DEF ReserveFails, ReserveConflict, counters, Shape, Reserving, ReservingAt, VisibleQuotes,
         Accounted, Underway
<1>2. Careful
  <2>1. CASE UNCHANGED quotes
    BY <1>1, <2>1, CarefulSame DEF ledger
  <2>2. ASSUME NEW op \in {"unavailable", "down"}, Settle(qid[s], op, NoRef) PROVE Careful
    BY <1>1, <2>2, CarefulSettle DEF Settled
  <2> QED
    BY <2>1, <2>2 DEF ReserveFails, ReserveConflict
<1>3. UNCHANGED db /\ SameSources(latest', latest) /\ SourcesUnderLock'
  BY <1>1, SameTables, SameRows DEF ReserveFails, ReserveConflict
<1>4. CASE Answer(s)
  BY <1>1, <1>2, <1>3, <1>4, Answered, AccountedFrom
<1>5. CASE Goto(s, "taking") /\ UNCHANGED <<quotes, chosen>>
  <2>1. Underway(s)' /\ \A t \in Sessions : t # s => pc'[t] = pc[t] /\ qid'[t] = qid[t]
    BY <1>1, <1>5 DEF Goto, chosen, Underway, TypeOK
  <2> QED
    BY <1>1, <1>2, <1>3, <2>1, AccountedFrom
<1> QED
  BY <1>4, <1>5 DEF ReserveFails, ReserveConflict

\* Loading, pricing and checking leave rows and ledger alone.
LEMMA ChecksAccounted ==
  ASSUME TypeOK, Shape, Accounted, NEW s \in Sessions, UNCHANGED ledger,
         UNCHANGED tables \/ (quoteLock' = quoteLock /\ \E slot \in Slots : LockCarRows(s, slot)),
         quoteLock' = quoteLock \/ (quoteLock = Nobody /\ quoteLock' = s),
         \/ Answer(s)
         \/ /\ \E step \in PCs \ {"reserving", "taking"} : Goto(s, step)
            /\ qid' = qid \/ \E q \in QuoteIds : qid' = [qid EXCEPT ![s] = q]
  PROVE  Accounted'
<1>1. UNCHANGED db /\ SameSources(latest', latest) /\ SourcesUnderLock'
  BY SameTables, SameRows
<1>2. Underway(s)' /\ \A t \in Sessions : t # s => pc'[t] = pc[t] /\ qid'[t] = qid[t]
  BY Answered, WentOn
<1> QED
  BY <1>1, <1>2, CarefulSame, AccountedFrom DEF ledger

\* A row changed or put in by a session that books no quote.
LEMMA PutAccounted ==
  ASSUME TypeOK, Shape, Accounted, NEW s \in Sessions, NEW r \in Refs, NEW b \in Booking,
         Source(b) = Source(latest[r]), Update(s, r, b) \/ Insert(s, r, b),
         quoteLock' = quoteLock, UNCHANGED ledger, Answer(s)
  PROVE  Accounted'
  BY RowPut, CarefulSame, Answered, AccountedFrom DEF ledger

LEMMA WriteAccounted ==
  ASSUME TypeOK, Shape, Accounted, NEW s \in Turns, ModifyWrite(s) \/ CancelWrite(s)
  PROVE  Accounted'
<1> USE BookingsAssumption DEF Sessions
<1> DEFINE row == latest[ref[s]]
<1>1. /\ ref[s] \in Refs /\ row \in Booking /\ row # NoBooking
      /\ quoteLock' = quoteLock /\ UNCHANGED ledger /\ Answer(s)
  <2>1. ref[s] \in Refs /\ Visible(s)[ref[s]] # NoBooking
    BY DEF ModifyWrite, CancelWrite, Shape, Changing, ChangingAt
  <2>2. row # NoBooking
    BY <2>1 DEF Shape, RowsRest, Visible
  <2> QED
    BY <2>1, <2>2 DEF ModifyWrite, CancelWrite, Aside, counters, TypeOK
<1>2. CASE ModifyWrite(s)
  <2> DEFINE booking == Merged(row, seen[s], want[s])
  <2>1. seen[s] \in Booking /\ want[s] \in Price
    BY <1>2 DEF ModifyWrite, Shape, Changing, ChangingAt, TypeOK
  <2>2. booking \in Booking
    BY <1>1, <2>1, MergedType
  <2>3. booking.origin = row.origin
    BY <1>1 DEF Merged, Booking
  <2>4. Source(booking) = Source(row)
    BY <1>1, <2>2, <2>3, SentinelAssumption DEF Source
  <2>5. Update(s, ref[s], booking)
    BY <1>2 DEF ModifyWrite
  <2> HIDE DEF booking
  <2> QED
    BY <1>1, <2>2, <2>4, <2>5, PutAccounted
<1>3. CASE CancelWrite(s)
  <2> DEFINE booking == [row EXCEPT !.status = "cancelled"]
  <2>1. booking \in Booking /\ booking.origin = row.origin
    BY <1>1 DEF Booking
  <2>2. Source(booking) = Source(row)
    BY <1>1, <2>1, SentinelAssumption DEF Source
  <2>3. Update(s, ref[s], booking)
    BY <1>3 DEF CancelWrite
  <2> HIDE DEF booking
  <2> QED
    BY <1>1, <2>1, <2>2, <2>3, PutAccounted
<1> QED
  BY <1>2, <1>3

LEMMA NotesAccounted ==
  ASSUME TypeOK, Shape, Accounted, NEW s \in Turns, Notes(s)
  PROVE  Accounted'
<1> USE DEF Sessions
<1>1. SameSources(latest', latest)
  BY NotesLock DEF SameSources
<1>2. SourcesUnderLock'
  BY <1>1, NotesLock, SourcesKept DEF Accounted, TypeOK
<1>3. Underway(s)' /\ \A t \in Sessions : t # s => pc'[t] = pc[t] /\ qid'[t] = qid[t]
  BY NotesLock, Answered, WentOn DEF chosen
<1> QED
  BY <1>1, <1>2, <1>3, NotesLock, CarefulSame, AccountedFrom DEF ledger

LEMMA DeskAccounted ==
  ASSUME TypeOK, Shape, Accounted, NEW s \in Desks, DeskInsert(s)
  PROVE  Accounted'
<1> USE BookingsAssumption DEF Sessions
<1> DEFINE booking == [owner |-> CustomerOf[s], slot |-> want[s].slot, status |-> "confirmed",
                       price |-> want[s], origin |-> NoQuote]
<1>1. PICK r \in Refs : Insert(s, r, booking)
  BY DEF DeskInsert
<1>2. want[s] \in Price
  BY DEF DeskInsert, Shape, Changing, ChangingAt, TypeOK
<1>3. booking \in Booking /\ Source(booking) = NoQuote
  BY <1>2 DEF Price, Booking, Slots, Source
<1>4. Source(latest[r]) = NoQuote
  BY <1>1 DEF Insert, Source
<1> HIDE DEF booking
<1> QED
  BY <1>1, <1>3, <1>4, PutAccounted DEF DeskInsert, TakeRefLock

\* Nobody moves, and no operation does.
LEMMA OutsideAccounted ==
  ASSUME TypeOK, Shape, Accounted, UNCHANGED <<tables, counters, pc, chosen>>,
         \A q \in QuoteIds :
            /\ quotes'[q] # NoQuote <=> quotes[q] # NoQuote
            /\ quotes'[q].op = quotes[q].op /\ quotes'[q].ref = quotes[q].ref
            /\ quoteDb'[q] # NoQuote <=> quoteDb[q] # NoQuote
            /\ quoteDb'[q].op = quoteDb[q].op /\ quoteDb'[q].ref = quoteDb[q].ref
  PROVE  Accounted'
<1>1. SameAnswers(quotes', quotes) /\ SameAnswers(quoteDb', quoteDb)
  BY DEF SameAnswers, Settled
<1>2. SameSources(db', db) /\ SameSources(latest', latest)
  BY DEF tables, SameSources
<1>3. Agree(quoteDb', db') /\ Agree(quotes', latest')
  BY <1>1, <1>2, AgreeKept, SourceType DEF Accounted
<1>4. SourcesUnderLock' /\ OpenStaysOpen'
  BY DEF Accounted, SourcesUnderLock, OpenStaysOpen, Settled, tables, counters
<1>5. \A s \in Sessions : Underway(s)'
  BY DEF Accounted, Underway, Settled, chosen, Shape, Reserving, ReservingAt
<1> QED
  BY <1>3, <1>4, <1>5 DEF Accounted

LEMMA ExpiresAccounted ==
  ASSUME TypeOK, Shape, Accounted, NEW q \in QuoteIds, QuoteExpires(q)
  PROVE  Accounted'
<1>1. quoteDb[q] \in Quote /\ quotes[q] \in Quote
  BY DEF QuoteExpires, Shape, LedgerRests, TypeOK
<1>2. /\ [quoteDb[q] EXCEPT !.open = FALSE] \in Quote
      /\ [quotes[q] EXCEPT !.open = FALSE] \in Quote
      /\ [quoteDb[q] EXCEPT !.open = FALSE].op = quoteDb[q].op
      /\ [quoteDb[q] EXCEPT !.open = FALSE].ref = quoteDb[q].ref
      /\ [quotes[q] EXCEPT !.open = FALSE].op = quotes[q].op
      /\ [quotes[q] EXCEPT !.open = FALSE].ref = quotes[q].ref
  BY <1>1 DEF Quote
<1>3. ASSUME NEW p \in QuoteIds
      PROVE  /\ quotes'[p] # NoQuote <=> quotes[p] # NoQuote
             /\ quotes'[p].op = quotes[p].op /\ quotes'[p].ref = quotes[p].ref
             /\ quoteDb'[p] # NoQuote <=> quoteDb[p] # NoQuote
             /\ quoteDb'[p].op = quoteDb[p].op /\ quoteDb'[p].ref = quoteDb[p].ref
  BY <1>1, <1>2, SentinelAssumption DEF QuoteExpires, TypeOK
<1> QED
  BY <1>3, OutsideAccounted DEF QuoteExpires

LEMMA AccountedStep == TypeOK /\ Shape /\ Accounted /\ [Next]_vars => Accounted'
<1> SUFFICES ASSUME TypeOK, Shape, Accounted, [Next]_vars PROVE Accounted'
  OBVIOUS
<1> USE BookingsAssumption DEF Sessions
<1>1. ASSUME NEW s \in Turns, NEW q \in QuoteIds, ReserveStart(s, q) PROVE Accounted'
  BY <1>1, ChecksAccounted DEF ReserveStart, PCs, counters
<1>2. ASSUME NEW s \in Turns, NEW r \in Refs, NEW slot, CheckChange(s, r, slot) PROVE Accounted'
  BY <1>2, ChecksAccounted DEF CheckChange, PCs, counters
<1>3. ASSUME NEW s \in Turns, ModifyPrice(s) PROVE Accounted'
  BY <1>3, ChecksAccounted DEF ModifyPrice, TakeQuoteLock, PCs
<1>4. ASSUME NEW s \in Turns, Begins(s) PROVE Accounted'
  BY <1>4, ChecksAccounted DEF Begins, Begin, PCs, counters
<1>9. ASSUME NEW s \in Turns, Notes(s) PROVE Accounted'
  BY <1>9, NotesAccounted
<1>5. ASSUME NEW s \in Desks, NEW slot \in Slots, DeskCheck(s, slot) PROVE Accounted'
  BY <1>5, ChecksAccounted DEF DeskCheck, PCs, counters
<1>6. ASSUME UNCHANGED <<tables, ledger, counters, pc, chosen>> PROVE Accounted'
  BY <1>6, OutsideAccounted DEF ledger
<1>7. ASSUME NEW s \in Turns, TurnStep(s) PROVE Accounted'
  BY <1>1, <1>2, <1>3, <1>4, <1>7, <1>9, StartsBegin, CreateAccounted, ValidateAccounted,
     AttemptAccounted, InsertAccounted, WriteAccounted
  DEF TurnStep, ModifyStart, ExtendStart, Notes
<1>8. ASSUME NEW s \in Desks, DeskStep(s) PROVE Accounted'
  BY <1>5, <1>8, DeskAccounted DEF DeskStep
<1> QED
  BY <1>6, <1>7, <1>8, CommitAccounted, RollbackAccounted, ExpiresAccounted
  DEF Next, vars, Abort, FleetChange, TariffChange

LEMMA AccountedAlways == Spec => [](TypeOK /\ Shape /\ Accounted)
<1>1. Init => TypeOK /\ Shape /\ Accounted
  BY InitShape, BookingsAssumption
  DEF Init, Accounted, Agree, Settled, Source, SourcesUnderLock, OpenStaysOpen, Underway
<1>2. TypeOK /\ Shape /\ Accounted /\ [Next]_vars => (TypeOK /\ Shape /\ Accounted)'
  BY TypeStep, ShapeStep, AccountedStep
<1> QED
  BY <1>1, <1>2, PTL DEF Spec

\* A confirmed operation has its booking and a booking its operation, at every
\* moment another session could look, whatever was retried, repeated or rolled
\* back, even with two turns of one customer side by side.
THEOREM LedgerAndBookingsAgree == Spec => []SettledMeansBooked
<1>1. ASSUME TypeOK, Accounted PROVE SettledMeansBooked
  <2>1. Agree(quoteDb, db)
    BY <1>1 DEF Accounted
  <2>2. ASSUME NEW q \in QuoteIds, quoteDb[q] # NoQuote, quoteDb[q].op = "confirmed"
        PROVE  /\ quoteDb[q].ref \in Refs
               /\ Chat(db[quoteDb[q].ref])
               /\ db[quoteDb[q].ref].origin = q
    <3>1. quoteDb[q].ref \in Refs /\ Source(db[quoteDb[q].ref]) = q /\ q # NoQuote
      BY <2>1, <2>2, BookingsAssumption DEF Agree, Settled
    <3> QED
      BY <3>1 DEF Source, Chat
  <2>3. ASSUME NEW r \in Refs, Chat(db[r])
        PROVE  LET quote == quoteDb[db[r].origin]
               IN  quote # NoQuote /\ quote.op = "confirmed" /\ quote.ref = r
    <3>1. Source(db[r]) = db[r].origin /\ db[r].origin # NoQuote
      BY <2>3 DEF Source, Chat
    <3> QED
      BY <2>1, <3>1 DEF Agree, Settled
  <2> QED
    BY <2>2, <2>3 DEF SettledMeansBooked
<1> QED
  BY <1>1, AccountedAlways, PTL

\* An attempt that was sent and never answered is never settled by a later one:
\* a customer's retry cannot turn it into a booking or a refusal.
THEOREM UnansweredStaysOpen == Spec => UnknownStaysUnknown
<1> DEFINE Stays == \A q \in QuoteIds : (quoteDb[q] # NoQuote /\ quoteDb[q].op = "unsettled")
                        => quoteDb'[q].op = "unsettled"
<1>1. ASSUME TypeOK, Shape, Accounted, [Next]_vars PROVE Stays
  <2>1. CASE UNCHANGED quoteDb
    BY <2>1
  <2>2. ASSUME NEW s \in Sessions, Commit(s) PROVE Stays
    BY <1>1, <2>2 DEF Commit, VisibleQuotes, Accounted, OpenStaysOpen, Settled
  <2>3. ASSUME NEW q \in QuoteIds, QuoteExpires(q) PROVE Stays
    <3>1. quoteDb[q] \in Quote
      BY <1>1, <2>3 DEF QuoteExpires, TypeOK
    <3>2. [quoteDb[q] EXCEPT !.open = FALSE].op = quoteDb[q].op
      BY <3>1 DEF Quote
    <3> QED
      BY <1>1, <2>3, <3>2 DEF QuoteExpires, TypeOK
  <2>4. ASSUME NEW s \in Turns, TurnStep(s) PROVE UNCHANGED quoteDb
    BY <2>4 DEF TurnStep, CreateQuote, ReserveStart, ReserveValidate, Rollback, ReserveFails,
                ReserveConflict, ReserveInsert, ModifyStart, ExtendStart, CheckChange, ModifyPrice,
                ModifyWrite, CancelStart, CancelWrite, LinkStart, PayStart, ScheduleStart,
                DocumentsStart, Begin, LockBooking, TakePayment, NoteBooking, ledger
  <2>5. ASSUME NEW s \in Desks, DeskStep(s) PROVE UNCHANGED quoteDb
    BY <2>5 DEF DeskStep, DeskCheck, DeskInsert, ledger
  <2> QED
    BY <1>1, <2>1, <2>2, <2>3, <2>4, <2>5
    DEF Next, Abort, Rollback, FleetChange, TariffChange, vars, ledger
<1> QED
  BY <1>1, AccountedAlways, PTL DEF Spec, UnknownStaysUnknown

-----------------------------------------------------------------------------
(* What the bookings are worth *)

\* One session at a time for a customer, as the message queue runs them.
Lanes == \A s, t \in Sessions : CustomerOf[s] = CustomerOf[t] => s = t

-----------------------------------------------------------------------------
(* What a step can be *)

\* The window session s is about to take.
Offer(s) == quotes[qid[s]].price.slot

\* Rows are locked, no more.
Quiet(s) ==
    /\ UNCHANGED <<db, latest>>
    /\ \A r \in Refs : rowLock'[r] = rowLock[r] \/ (rowLock[r] = Nobody /\ rowLock'[r] = s)

\* Where a tool that has written no booking yet can be next, and what it knows.
Reads(s) ==
    /\ Quiet(s)
    /\ quoteLock' = quoteLock \/ quoteLock' = s
    /\ \/ pc'[s] \notin {"taking", "modifying", "writing", "cancelling"}
       \/ pc'[s] = "taking" /\ Clear(s, Offer(s)', {})
       \/ pc'[s] = "cancelling" /\ Mine(s, ref'[s])
       \/ pc'[s] = "modifying" /\ Mine(s, ref'[s]) /\ seen'[s] = Visible(s)[ref'[s]]
       \/ /\ pc[s] = "modifying" /\ pc'[s] = "writing"
          /\ ref'[s] = ref[s] /\ seen'[s] = seen[s]
          /\ Clear(s, want'[s].slot, {ref'[s]})

Writes(s) == \/ ReserveInsert(s) \/ ModifyWrite(s) \/ CancelWrite(s)
             \/ s \in Desks /\ DeskInsert(s)

Ends(s) == Commit(s) \/ Rollback(s)

\* Everybody else is where they were, about to take what they were.
Alone(s) == \A t \in Sessions : t # s =>
    Undisturbed(t) /\ (pc[t] = "taking" => Offer(t)' = Offer(t))

\* The world moves and no session does.
Outside ==
    /\ UNCHANGED <<tables, counters, pc, chosen>>
    /\ \A s \in Sessions : pc[s] = "taking" => Offer(s)' = Offer(s)

Stepped(s) == Alone(s) /\ (Reads(s) \/ Writes(s) \/ Ends(s))

LEMMA AloneFrom ==
  ASSUME TypeOK, Shape, NEW s \in Sessions,
         \A t \in Sessions : t # s => Undisturbed(t),
         quoteLock \in {Nobody, s} \/ UNCHANGED quotes
  PROVE  Alone(s)
  BY BookingsAssumption DEF Shape, Reserving, ReservingAt, Alone, Undisturbed, Offer

LEMMA QuietTables ==
  ASSUME TypeOK, NEW s \in Sessions, UNCHANGED tables
  PROVE  Quiet(s) /\ rowLock' = rowLock
  BY DEF Quiet, tables

LEMMA QuietLocks ==
  ASSUME TypeOK, NEW s \in Sessions, NEW slot, LockCarRows(s, slot)
  PROVE  Quiet(s)
  BY DEF Quiet, LockCarRows, TypeOK

\* A tool that answers leaves everybody alone.
LEMMA AnswerAlone ==
  ASSUME TypeOK, Shape, NEW s \in Sessions, Answer(s),
         \A t \in Sessions : t # s /\ quoteLock = t => quoteLock' = t,
         quoteLock \in {Nobody, s} \/ UNCHANGED quotes
  PROVE  Alone(s) /\ pc'[s] = "ready"
  BY AnswerDisturbsNone, AloneFrom DEF Answer, TypeOK

LEMMA GotoAlone ==
  ASSUME TypeOK, Shape, NEW s \in Sessions, NEW step, Goto(s, step),
         \A t \in Sessions : t # s =>
            qid'[t] = qid[t] /\ ref'[t] = ref[t] /\ seen'[t] = seen[t] /\ want'[t] = want[t],
         \A t \in Sessions : t # s /\ quoteLock = t => quoteLock' = t,
         quoteLock \in {Nobody, s} \/ UNCHANGED quotes
  PROVE  Alone(s) /\ pc'[s] = step
  BY AloneFrom DEF Goto, Undisturbed, TypeOK

LEMMA Steps ==
  ASSUME TypeOK, Shape, [Next]_vars
  PROVE  Outside \/ \E s \in Sessions : Stepped(s)
<1> USE BookingsAssumption DEF Sessions
<1>r. ASSUME NEW s \in Turns, pc[s] \in {"reserving", "taking"}
      PROVE  quoteLock = s
  BY <1>r DEF Shape, Reserving, ReservingAt
<1>1. ASSUME NEW s \in Turns, NEW slot \in Slots, NEW extras \in Extras, CreateQuote(s, slot, extras)
      PROVE  Stepped(s)
  BY <1>1, AnswerAlone, QuietTables DEF CreateQuote, TakeQuoteLock, Stepped, Reads
<1>2. ASSUME NEW s \in Turns, NEW q \in QuoteIds, ReserveStart(s, q)
      PROVE  Stepped(s)
  BY <1>2, GotoAlone, QuietTables DEF ReserveStart, Stepped, Reads, counters, ledger, TypeOK
<1>e. ASSUME NEW s \in Sessions, Rollback(s)
      PROVE  Stepped(s)
  <2>1. quoteLock \in {Nobody, s} \/ UNCHANGED quotes
    BY <1>e DEF Rollback
  <2> QED
    BY <1>e, <2>1, AnswerAlone DEF Rollback, Stepped, Ends
<1>3. ASSUME NEW s \in Turns, ReserveValidate(s)
      PROVE  Stepped(s)
  <2>1. CASE TakeQuoteLock(s) /\ Answer(s) /\ UNCHANGED tables
    BY <2>1, AnswerAlone, QuietTables DEF TakeQuoteLock, Stepped, Reads
  <2>2. CASE /\ TakeQuoteLock(s) /\ Goto(s, "reserving") /\ UNCHANGED <<tables, chosen>>
    BY <2>2, GotoAlone, QuietTables DEF TakeQuoteLock, Stepped, Reads, chosen
  <2> QED
    BY <1>3, <1>e, <2>1, <2>2 DEF ReserveValidate
<1>4. ASSUME NEW s \in Turns, ReserveFails(s)
      PROVE  Stepped(s)
  BY <1>4, <1>r, AnswerAlone, QuietTables DEF ReserveFails, counters, Stepped, Reads
<1>5. ASSUME NEW s \in Turns, ReserveConflict(s)
      PROVE  Stepped(s)
  <2>1. quoteLock = s /\ UNCHANGED <<quoteLock, refLock>> /\ Quiet(s)
    BY <1>5, <1>r, QuietLocks DEF ReserveConflict, counters
  <2>2. CASE Answer(s)
    BY <2>1, <2>2, AnswerAlone DEF Stepped, Reads
  <2>3. CASE /\ Clear(s, quotes[qid[s]].price.slot, {}) /\ Goto(s, "taking")
             /\ UNCHANGED <<quotes, chosen>>
    BY <2>1, <2>3, GotoAlone DEF Stepped, Reads, chosen, Offer
  <2> QED
    BY <1>5, <2>2, <2>3 DEF ReserveConflict
<1>6. ASSUME NEW s \in Turns, ReserveInsert(s)
      PROVE  Stepped(s)
  BY <1>6, <1>r, AnswerAlone DEF ReserveInsert, TakeRefLock, Stepped, Writes
<1>7. ASSUME NEW s \in Turns, NEW r \in Refs, NEW slot, CheckChange(s, r, slot), Mine(s, r)
      PROVE  Stepped(s)
  <2>1. Quiet(s) /\ UNCHANGED <<rowLock, ledger, counters>>
    BY <1>7, QuietTables DEF CheckChange
  <2>2. CASE Answer(s)
    BY <2>1, <2>2, AnswerAlone DEF Stepped, Reads, ledger, counters
  <2>3. CASE /\ Goto(s, "modifying") /\ ref' = [ref EXCEPT ![s] = r]
             /\ seen' = [seen EXCEPT ![s] = Visible(s)[r]]
             /\ want' = [want EXCEPT ![s] = PriceOf(slot)]
             /\ UNCHANGED qid
    <3>1. Alone(s) /\ pc'[s] = "modifying"
      BY <2>1, <2>3, GotoAlone DEF ledger, counters, TypeOK
    <3>2. ref'[s] = r /\ seen'[s] = Visible(s)[r]
      BY <2>3 DEF TypeOK
    <3> QED
      BY <1>7, <2>1, <3>1, <3>2 DEF Stepped, Reads, counters
  <2> QED
    BY <1>7, <2>2, <2>3 DEF CheckChange
<1>8. ASSUME NEW s \in Turns, ModifyPrice(s)
      PROVE  Stepped(s)
  <2>1. Quiet(s) /\ TakeQuoteLock(s) /\ UNCHANGED <<rowLock, ledger>> /\ pc[s] = "modifying"
    BY <1>8, QuietTables DEF ModifyPrice
  <2>2. CASE Answer(s)
    BY <2>1, <2>2, AnswerAlone DEF TakeQuoteLock, Stepped, Reads
  <2>3. CASE /\ Free(s, want[s].slot, {ref[s]}) /\ Goto(s, "writing")
             /\ want' = [want EXCEPT ![s] = PriceOf(want[s].slot)]
             /\ UNCHANGED <<qid, ref, seen>>
    <3>1. Alone(s) /\ pc'[s] = "writing"
      BY <2>1, <2>3, GotoAlone DEF TakeQuoteLock, TypeOK
    <3>2. want'[s].slot = want[s].slot
      BY <2>3 DEF TypeOK, PriceOf
    <3> QED
      BY <2>1, <2>3, <3>1, <3>2 DEF Stepped, Reads, TakeQuoteLock, Free
  <2> QED
    BY <1>8, <2>2, <2>3 DEF ModifyPrice
<1>9. ASSUME NEW s \in Turns, ModifyWrite(s) \/ CancelWrite(s)
      PROVE  Stepped(s)
  BY <1>9, AnswerAlone DEF ModifyWrite, CancelWrite, Aside, ledger, counters, Stepped, Writes
<1>10. ASSUME NEW s \in Turns, NEW r \in Refs,
              NEW step \in {"cancelling", "locking", "paying", "noting"},
              step = "cancelling" => Mine(s, r), Begin(s, r, step)
       PROVE  Stepped(s)
  <2>1. Alone(s) /\ pc'[s] = step
    BY <1>10, GotoAlone DEF Begin, ledger, counters, TypeOK
  <2>2. ref'[s] = r
    BY <1>10 DEF Begin, TypeOK
  <2> QED
    BY <1>10, <2>1, <2>2, QuietTables DEF Begin, counters, Stepped, Reads
<1>18. ASSUME NEW s \in Turns, Notes(s)
       PROVE  Stepped(s)
  <2>1. Quiet(s) /\ UNCHANGED <<quotes, quoteLock>>
    BY <1>18, NotesLock DEF Quiet, ledger, TypeOK
  <2>2. CASE Answer(s)
    BY <2>1, <2>2, AnswerAlone DEF Stepped, Reads
  <2>3. ASSUME NEW step \in {"paying", "noting"}, Goto(s, step), UNCHANGED chosen
        PROVE  Stepped(s)
    BY <2>1, <2>3, GotoAlone DEF Stepped, Reads, chosen
  <2> QED
    BY <1>18, <2>2, <2>3, NotesLock
<1>11. ASSUME NEW s \in Desks, NEW slot \in Slots, DeskCheck(s, slot)
       PROVE  Stepped(s)
  <2>1. Quiet(s) /\ UNCHANGED <<ledger, counters>>
    BY <1>11, QuietLocks DEF DeskCheck
  <2>2. CASE Answer(s)
    BY <2>1, <2>2, AnswerAlone DEF Stepped, Reads, ledger, counters
  <2>3. CASE /\ Goto(s, "inserting") /\ want' = [want EXCEPT ![s] = NoCharge(slot)]
             /\ UNCHANGED <<qid, ref, seen>>
    <3>1. Alone(s) /\ pc'[s] = "inserting"
      BY <2>1, <2>3, GotoAlone DEF ledger, counters, TypeOK
    <3> QED
      BY <2>1, <3>1 DEF Stepped, Reads, counters
  <2> QED
    BY <1>11, <2>2, <2>3 DEF DeskCheck
<1>12. ASSUME NEW s \in Desks, DeskInsert(s)
       PROVE  Stepped(s)
  BY <1>12, AnswerAlone DEF DeskInsert, TakeRefLock, ledger, Stepped, Writes
<1>13. ASSUME NEW s \in Sessions, Commit(s)
       PROVE  Stepped(s)
  BY <1>13, AnswerAlone DEF Commit, Stepped, Ends
<1>14. ASSUME UNCHANGED <<tables, ledger, counters, pc, chosen>>
       PROVE  Outside
  BY <1>14 DEF Outside, Offer, ledger, chosen
<1>15. ASSUME NEW q \in QuoteIds, QuoteExpires(q)
       PROVE  Outside
  <2>1. quotes[q] \in Quote
    BY <1>15 DEF QuoteExpires, Shape, LedgerRests, TypeOK
  <2>2. [quotes[q] EXCEPT !.open = FALSE].price = quotes[q].price
    BY <2>1 DEF Quote
  <2>3. \A p \in QuoteIds : quotes'[p].price = quotes[p].price
    BY <1>15, <2>2 DEF QuoteExpires, TypeOK
  <2> QED
    BY <1>15, <2>3 DEF QuoteExpires, Outside, Offer, chosen, Shape, Reserving, ReservingAt
<1>16. ASSUME NEW s \in Turns, TurnStep(s)
       PROVE  Stepped(s)
  BY <1>1, <1>2, <1>3, <1>4, <1>5, <1>6, <1>7, <1>8, <1>9, <1>10, <1>16, <1>18, StartsBegin
  DEF TurnStep, ModifyStart, ExtendStart, Begins, Notes
<1>17. ASSUME NEW s \in Desks, DeskStep(s)
       PROVE  Stepped(s)
  BY <1>11, <1>12, <1>17 DEF DeskStep
<1> QED
  BY <1>e, <1>13, <1>14, <1>15, <1>16, <1>17 DEF Next, vars, Abort, FleetChange, TariffChange

-----------------------------------------------------------------------------
(* A customer's bookings are written by that customer's session alone *)

\* What a session has written and not committed is its customer's, and a change
\* of a booking that was live: nobody's booking is replaced.
OwnWrites == \A s \in Sessions, r \in Refs :
    (rowLock[r] = s /\ latest[r] # db[r]) =>
        /\ latest[r].owner = CustomerOf[s]
        /\ db[r] # NoBooking => /\ db[r].owner = CustomerOf[s]
                                /\ db[r].origin = latest[r].origin
                                /\ Live(db[r])

\* The booking a session is changing is still the one it loaded.
StillMine(s) ==
    /\ pc[s] \in {"modifying", "writing", "cancelling"} => Mine(s, ref[s])
    /\ pc[s] \in {"modifying", "writing"} => seen[s] = Visible(s)[ref[s]]

Priced(rows) == \A r \in Refs : rows[r] # NoBooking => rows[r].price.slot = rows[r].slot

Owned == /\ OwnWrites
         /\ \A s \in Sessions : StillMine(s)
         /\ Priced(db) /\ Priced(latest)

\* The bookings of t's customer that t sees stay as they are.
OwnStay(t) == \A r \in Refs :
    (Visible(t)[r] # NoBooking /\ Visible(t)[r].owner = CustomerOf[t])
        => Visible(t)'[r] = Visible(t)[r]

LEMMA QuietKeeps ==
  ASSUME TypeOK, Shape, NEW s \in Sessions, Quiet(s)
  PROVE  /\ \A t \in Sessions : Visible(t)' = Visible(t)
         /\ OwnWrites => OwnWrites'
<1>1. ASSUME NEW t \in Sessions, NEW r \in Refs
      PROVE  Visible(t)'[r] = Visible(t)[r]
  BY BookingsAssumption DEF Quiet, Visible, Shape, RowsRest, TypeOK
<1>2. ASSUME OwnWrites PROVE OwnWrites'
  BY <1>2, BookingsAssumption DEF Quiet, OwnWrites, Shape, RowsRest, TypeOK, Live
<1> QED
  BY <1>1, <1>2 DEF Visible

\* A new booking is nobody's until it is made.
LEMMA InsertOwned ==
  ASSUME TypeOK, Shape, OwnWrites, NEW s \in Sessions, NEW r \in Refs, NEW b \in Booking,
         b.owner = CustomerOf[s], Insert(s, r, b)
  PROVE  /\ OwnWrites'
         /\ \A t \in Sessions : t # s => OwnStay(t)
<1>1. db[r] = NoBooking
  BY DEF Insert, Shape, RowsRest
<1>2. OwnWrites'
  BY <1>1 DEF Insert, OwnWrites, TypeOK, Live
<1> QED
  BY <1>1, <1>2, BookingsAssumption DEF Insert, OwnStay, Visible, TypeOK

\* A change is of a booking that is the customer's own and live.
LEMMA UpdateOwned ==
  ASSUME TypeOK, Shape, OwnWrites, NEW s \in Sessions, NEW r \in Refs, NEW b \in Booking,
         Mine(s, r), b.owner = latest[r].owner, b.origin = latest[r].origin, Update(s, r, b)
  PROVE  /\ OwnWrites' /\ latest[r] = Visible(s)[r]
         /\ \A t \in Sessions : t # s => OwnStay(t)
<1>1. latest[r] = Visible(s)[r]
  BY DEF Update, Visible, Shape, RowsRest
<1>2. db[r] # NoBooking => db[r].owner = CustomerOf[s] /\ db[r].origin = b.origin /\ Live(db[r])
  BY <1>1 DEF Update, Visible, OwnWrites, Mine, Shape, RowsRest
<1>3. b.owner = CustomerOf[s]
  BY <1>1 DEF Mine
<1>4. OwnWrites'
  BY <1>2, <1>3 DEF Update, OwnWrites, TypeOK, Live
<1>5. \A t \in Sessions : t # s => OwnStay(t)
  BY BookingsAssumption DEF Update, OwnStay, Visible, TypeOK
<1> QED
  BY <1>1, <1>4, <1>5

\* What one session commits, another customer's session does not notice among
\* its own bookings.
LEMMA EndsOwned ==
  ASSUME TypeOK, Shape, OwnWrites, Lanes, NEW s \in Sessions, Ends(s)
  PROVE  /\ OwnWrites'
         /\ \A t \in Sessions : t # s => OwnStay(t)
<1>1. CASE Commit(s)
  <2>1. OwnWrites'
    BY <1>1, BookingsAssumption DEF Commit, OwnWrites, Visible, TypeOK, Live
  <2>2. ASSUME NEW t \in Sessions, t # s, NEW r \in Refs, Visible(t)[r] # NoBooking,
               Visible(t)[r].owner = CustomerOf[t]
        PROVE  Visible(t)'[r] = Visible(t)[r]
    <3>1. CASE rowLock[r] = t
      BY <1>1, <2>2, <3>1 DEF Commit, Visible, TypeOK
    <3>2. CASE rowLock[r] = s
      <4>1. latest[r] = db[r]
        BY <2>2, <3>2 DEF OwnWrites, Lanes, Visible
      <4> QED
        BY <1>1, <2>2, <3>2, <4>1, BookingsAssumption DEF Commit, Visible, TypeOK
    <3>3. CASE rowLock[r] \notin {s, t}
      BY <1>1, <2>2, <3>3 DEF Commit, Visible, TypeOK
    <3> QED
      BY <3>1, <3>2, <3>3
  <2> QED
    BY <2>1, <2>2 DEF OwnStay
<1>2. CASE Rollback(s)
  <2>1. OwnWrites'
    BY <1>2, BookingsAssumption DEF Rollback, OwnWrites, TypeOK, Live
  <2>2. \A t \in Sessions : t # s => Visible(t)' = Visible(t)
    BY <1>2, RowsRolledBack DEF Shape
  <2> QED
    BY <2>1, <2>2 DEF OwnStay
<1> QED
  BY <1>1, <1>2 DEF Ends

LEMMA MineStays ==
  ASSUME NEW t \in Sessions, ChangingAt(t), StillMine(t), OwnStay(t), Undisturbed(t)
  PROVE  StillMine(t)'
  BY DEF StillMine, ChangingAt, OwnStay, Undisturbed, Mine

\* An UPDATE of the booking as it was loaded leaves it exactly as it is wanted.
LEMMA MergedIsWanted ==
  ASSUME NEW row \in Booking, NEW new \in Price
  PROVE  LET b == Merged(row, row, new)
         IN  b.slot = new.slot /\ b.price = new /\ b.owner = row.owner /\ b.origin = row.origin
<1>1. new.slot \in Columns /\ row.slot \in Columns
  BY DEF Price, Slots, Booking
<1>2. /\ Written(row.slot.vehicle, new.slot.vehicle, row.slot.vehicle) = new.slot.vehicle
      /\ Written(row.slot.from, new.slot.from, row.slot.from) = new.slot.from
      /\ Written(row.slot.to, new.slot.to, row.slot.to) = new.slot.to
      /\ Written(row.price, new, row.price) = new
  BY DEF Written
<1>3. [vehicle |-> new.slot.vehicle, from |-> new.slot.from, to |-> new.slot.to] = new.slot
  BY <1>1 DEF Columns
<1> QED
  BY <1>2, <1>3 DEF Merged, Booking

\* A row a session reads is a booking, and so is what is stored for it.
LEMMA MineTypes ==
  ASSUME TypeOK, Shape, NEW s \in Sessions, NEW r \in Refs, Mine(s, r), latest[r] = Visible(s)[r]
  PROVE  latest[r] \in Booking
  BY DEF Mine, Live, TypeOK

\* Only owners write: what every kind of write does to the rows.
LEMMA WritesOwned ==
  ASSUME TypeOK, Shape, Owned, NEW s \in Sessions, Writes(s)
  PROVE  /\ OwnWrites' /\ Priced(db)' /\ Priced(latest)'
         /\ \A t \in Sessions : t # s => OwnStay(t)
         /\ pc'[s] = "ready"
<1>a. Answer(s) => pc'[s] = "ready"
  BY DEF Answer, TypeOK
<1>b. UNCHANGED db => Priced(db)'
  BY DEF Owned, Priced
<1>c. ASSUME NEW r \in Refs, NEW b \in Booking, latest' = [latest EXCEPT ![r] = b],
             b.price.slot = b.slot
      PROVE  Priced(latest)'
  BY <1>c DEF Owned, Priced, TypeOK
<1>1. CASE ReserveInsert(s)
  <2> DEFINE booking == [owner |-> CustomerOf[s], slot |-> quotes[qid[s]].price.slot,
                         status |-> "confirmed", price |-> quotes[qid[s]].price,
                         origin |-> qid[s]]
  <2>1. PICK r \in Refs : Insert(s, r, booking)
    BY <1>1 DEF ReserveInsert
  <2>2. qid[s] \in QuoteIds /\ quotes[qid[s]] \in Quote
    BY <1>1 DEF ReserveInsert, Shape, Reserving, ReservingAt, VisibleQuotes, TypeOK
  <2>3. booking \in Booking
    BY <2>2, BookingsAssumption DEF Quote, Price, Booking, Slots
  <2>4. booking.owner = CustomerOf[s] /\ booking.price.slot = booking.slot
    OBVIOUS
  <2> HIDE DEF booking
  <2> QED
    BY <1>1, <1>a, <1>b, <1>c, <2>1, <2>3, <2>4, InsertOwned DEF ReserveInsert, Insert, Owned
<1>2. CASE DeskInsert(s)
  <2> DEFINE booking == [owner |-> CustomerOf[s], slot |-> want[s].slot, status |-> "confirmed",
                         price |-> want[s], origin |-> NoQuote]
  <2>1. PICK r \in Refs : Insert(s, r, booking)
    BY <1>2 DEF DeskInsert
  <2>2. want[s] \in Price
    BY <1>2 DEF DeskInsert, Shape, Changing, ChangingAt, TypeOK
  <2>3. booking \in Booking
    BY <2>2, BookingsAssumption DEF Price, Booking, Slots
  <2>4. booking.owner = CustomerOf[s] /\ booking.price.slot = booking.slot
    OBVIOUS
  <2> HIDE DEF booking
  <2> QED
    BY <1>2, <1>a, <1>b, <1>c, <2>1, <2>3, <2>4, InsertOwned DEF DeskInsert, Insert, Owned
<1>d. ASSUME pc[s] \in {"writing", "cancelling"}
      PROVE  ref[s] \in Refs /\ Mine(s, ref[s])
  BY <1>d DEF Owned, StillMine, Shape, Changing, ChangingAt
<1>e. ASSUME pc[s] \in {"writing", "cancelling"}, rowLock[ref[s]] \in {Nobody, s}
      PROVE  /\ latest[ref[s]] = Visible(s)[ref[s]] /\ latest[ref[s]] \in Booking
             /\ latest[ref[s]].price.slot = latest[ref[s]].slot
  <2>1. latest[ref[s]] = Visible(s)[ref[s]]
    BY <1>d, <1>e DEF Visible, Shape, RowsRest
  <2>2. latest[ref[s]] \in Booking
    BY <1>d, <1>e, <2>1, MineTypes
  <2> QED
    BY <1>d, <1>e, <2>1, <2>2, SentinelAssumption DEF Owned, Priced
<1>3. CASE ModifyWrite(s)
  <2> DEFINE row == latest[ref[s]]
             booking == Merged(row, seen[s], want[s])
  <2>1. seen[s] = row /\ row \in Booking /\ want[s] \in Price
    BY <1>3, <1>e DEF ModifyWrite, Update, Owned, StillMine, Shape, Changing, ChangingAt, TypeOK
  <2>2. /\ booking \in Booking /\ booking.price.slot = booking.slot
        /\ booking.owner = row.owner /\ booking.origin = row.origin
    BY <2>1, MergedIsWanted, MergedType
  <2>3. Update(s, ref[s], booking)
    BY <1>3 DEF ModifyWrite
  <2> HIDE DEF booking
  <2>4. OwnWrites' /\ \A t \in Sessions : t # s => OwnStay(t)
    BY <1>3, <1>d, <2>2, <2>3, UpdateOwned DEF ModifyWrite, Owned
  <2> QED
    BY <1>3, <1>a, <1>b, <1>c, <1>d, <2>2, <2>3, <2>4 DEF ModifyWrite, Update
<1>4. CASE CancelWrite(s)
  <2> DEFINE row == latest[ref[s]]
             booking == [row EXCEPT !.status = "cancelled"]
  <2>1. row \in Booking /\ row.price.slot = row.slot
    BY <1>4, <1>e DEF CancelWrite, Update
  <2>2. /\ booking \in Booking /\ booking.price.slot = booking.slot
        /\ booking.owner = row.owner /\ booking.origin = row.origin
    BY <2>1 DEF Booking
  <2>3. Update(s, ref[s], booking)
    BY <1>4 DEF CancelWrite
  <2> HIDE DEF booking
  <2>4. OwnWrites' /\ \A t \in Sessions : t # s => OwnStay(t)
    BY <1>4, <1>d, <2>2, <2>3, UpdateOwned DEF CancelWrite, Owned
  <2> QED
    BY <1>4, <1>a, <1>b, <1>c, <1>d, <2>2, <2>3, <2>4 DEF CancelWrite, Update
<1> QED
  BY <1>1, <1>2, <1>3, <1>4 DEF Writes

LEMMA OwnedStep == TypeOK /\ Shape /\ Owned /\ Lanes /\ [Next]_vars => Owned'
<1> SUFFICES ASSUME TypeOK, Shape, Owned, Lanes, [Next]_vars PROVE Owned'
  OBVIOUS
<1>a. \A t \in Sessions : ChangingAt(t) /\ StillMine(t)
  BY DEF Shape, Changing, Owned
<1>1. CASE Outside
  <2>1. \A t \in Sessions : Visible(t)' = Visible(t)
    BY <1>1 DEF Outside, Visible, tables
  <2> QED
    BY <1>1, <2>1 DEF Outside, tables, chosen, Owned, OwnWrites, StillMine, Mine, Priced, Live
<1>2. ASSUME NEW s \in Sessions, Stepped(s), Reads(s) PROVE Owned'
  <2>1. OwnWrites' /\ \A t \in Sessions : Visible(t)' = Visible(t)
    BY <1>2, QuietKeeps DEF Reads, Owned
  <2>2. Priced(db)' /\ Priced(latest)'
    BY <1>2 DEF Reads, Quiet, Owned, Priced
  <2>3. \A t \in Sessions : t # s => StillMine(t)'
    BY <1>2, <1>a, <2>1, MineStays DEF Stepped, Alone, OwnStay
  <2>4. StillMine(s)'
    BY <1>2, <1>a, <2>1 DEF Reads, StillMine, Mine
  <2> QED
    BY <2>1, <2>2, <2>3, <2>4 DEF Owned
<1>3. ASSUME NEW s \in Sessions, Stepped(s), Writes(s) \/ Ends(s) PROVE Owned'
  <2>1. /\ OwnWrites' /\ pc'[s] = "ready"
        /\ \A t \in Sessions : t # s => OwnStay(t)
    BY <1>3, WritesOwned, EndsOwned DEF Owned, Ends, Commit, Rollback, Answer, TypeOK
  <2>2. Priced(db)' /\ Priced(latest)'
    <3>1. CASE Commit(s)
      BY <3>1 DEF Commit, Owned, Priced, Visible, TypeOK
    <3>2. CASE Rollback(s)
      BY <3>2 DEF Rollback, Owned, Priced, TypeOK
    <3> QED
      BY <1>3, <3>1, <3>2, WritesOwned DEF Ends
  <2>3. \A t \in Sessions : t # s => StillMine(t)'
    BY <1>3, <1>a, <2>1, MineStays DEF Stepped, Alone
  <2>4. StillMine(s)'
    BY <2>1 DEF StillMine
  <2> QED
    BY <2>1, <2>2, <2>3, <2>4 DEF Owned
<1> QED
  BY <1>1, <1>2, <1>3, Steps DEF Stepped

LEMMA InitOwned == Init => Owned
  BY DEF Init, Owned, OwnWrites, StillMine, Priced

\* Every committed booking is priced for the car and the dates it is for, however
\* many customers change theirs side by side.
THEOREM PricesFollowSlots == ASSUME Lanes PROVE Spec => []PricedForItsSlot
<1>1. Init => TypeOK /\ Shape /\ Owned
  BY InitShape, InitOwned
<1>2. TypeOK /\ Shape /\ Owned /\ [Next]_vars => (TypeOK /\ Shape /\ Owned)'
  BY TypeStep, ShapeStep, OwnedStep
<1>3. Owned => PricedForItsSlot
  BY DEF Owned, Priced, PricedForItsSlot
<1> QED
  BY <1>1, <1>2, <1>3, PTL DEF Spec

-----------------------------------------------------------------------------
(* No two bookings made in chat overlap *)

LiveChat(b) == Live(b) /\ Chat(b)

NoOverlapIn(rows) == \A r1, r2 \in Refs :
    (r1 # r2 /\ LiveChat(rows[r1]) /\ LiveChat(rows[r2])) =>
        ~Overlap(rows[r1].slot, rows[r2].slot)

ClearIn(rows, slot, except) ==
    \A r \in Refs \ except : LiveChat(rows[r]) => ~Overlap(rows[r].slot, slot)

\* Whoever does not hold the quote counter has taken nothing: what it wrote and
\* is still to commit only cancels, or is a desk's.
TakesUnderLock(s) == \A r \in Refs :
    (rowLock[r] = s /\ LiveChat(latest[r]) /\ quoteLock # s) =>
        LiveChat(db[r]) /\ db[r].slot = latest[r].slot

\* A window found free stays free until it is taken.
StillClear(s) ==
    /\ pc[s] = "taking" => ClearIn(Visible(s), Offer(s), {})
    /\ pc[s] = "writing" => ClearIn(Visible(s), want[s].slot, {ref[s]})

Apart == /\ NoOverlapIn(db)
         /\ \A s \in Sessions : /\ NoOverlapIn(Visible(s))
                                /\ TakesUnderLock(s)
                                /\ StillClear(s)

\* Each live chat booking of `new` is one of `old`, for the same slot.
Within(new, old) == \A r \in Refs :
    LiveChat(new[r]) => LiveChat(old[r]) /\ new[r].slot = old[r].slot

LEMMA WithinApart ==
  ASSUME NEW new, NEW old, Within(new, old), NoOverlapIn(old)
  PROVE  NoOverlapIn(new)
  BY DEF Within, NoOverlapIn

LEMMA WithinClear ==
  ASSUME NEW new, NEW old, Within(new, old), NEW slot, NEW except, ClearIn(old, slot, except)
  PROVE  ClearIn(new, slot, except)
  BY DEF Within, ClearIn

\* Putting a booking where it is clear of the others keeps them apart.
LEMMA PutApart ==
  ASSUME NEW new, NEW old, NoOverlapIn(old), NEW p \in Refs,
         \A r \in Refs : r # p => new[r] = old[r],
         ClearIn(old, new[p].slot, {p})
  PROVE  NoOverlapIn(new)
<1> SUFFICES ASSUME NEW r1 \in Refs, NEW r2 \in Refs, r1 # r2,
                    LiveChat(new[r1]), LiveChat(new[r2])
             PROVE  ~Overlap(new[r1].slot, new[r2].slot)
  BY DEF NoOverlapIn
<1>1. CASE r1 # p /\ r2 # p
  BY <1>1 DEF NoOverlapIn
<1>2. CASE r1 = p
  BY <1>2 DEF ClearIn, Overlap
<1>3. CASE r2 = p
  BY <1>3 DEF ClearIn
<1> QED
  BY <1>1, <1>2, <1>3

\* Without the quote counter a session sees no more than is committed.
LEMMA SeesCommitted ==
  ASSUME NEW s \in Sessions, TakesUnderLock(s), quoteLock # s
  PROVE  Within(Visible(s), db)
  BY DEF TakesUnderLock, Within, Visible

\* The quote counter's holder keeps finding its window free whoever else steps.
Spared(t) == quoteLock = t => Within(Visible(t)', Visible(t))

LEMMA SparedIfSame ==
  ASSUME NEW t \in Sessions, Visible(t)' = Visible(t)
  PROVE  Spared(t)
  BY DEF Spared, Within

LEMMA ClearStays ==
  ASSUME NEW t \in Sessions, ReservingAt(t), StillClear(t), Undisturbed(t), Spared(t),
         pc[t] = "taking" => Offer(t)' = Offer(t)
  PROVE  StillClear(t)'
<1>1. ASSUME pc'[t] = "taking" PROVE ClearIn(Visible(t), Offer(t), {})'
  <2>1. pc[t] = "taking" /\ quoteLock = t /\ Offer(t)' = Offer(t)
    BY <1>1 DEF ReservingAt, Undisturbed
  <2>2. ClearIn(Visible(t)', Offer(t), {})
    BY <2>1, WithinClear DEF StillClear, Spared
  <2> QED
    BY <2>1, <2>2
<1>2. ASSUME pc'[t] = "writing" PROVE ClearIn(Visible(t), want[t].slot, {ref[t]})'
  <2>1. pc[t] = "writing" /\ quoteLock = t /\ want'[t] = want[t] /\ ref'[t] = ref[t]
    BY <1>2 DEF ReservingAt, Undisturbed
  <2>2. ClearIn(Visible(t)', want[t].slot, {ref[t]})
    BY <2>1, WithinClear DEF StillClear, Spared
  <2> QED
    BY <2>1, <2>2
<1> QED
  BY <1>1, <1>2 DEF StillClear

LEMMA ApartFrom ==
  ASSUME Shape, Apart, NEW s \in Sessions, Alone(s),
         NoOverlapIn(db)',
         \A t \in Sessions : NoOverlapIn(Visible(t))' /\ TakesUnderLock(t)',
         \A t \in Sessions : t # s => Spared(t),
         StillClear(s)'
  PROVE  Apart'
<1>1. \A t \in Sessions : t # s => StillClear(t)'
  BY ClearStays DEF Shape, Reserving, Apart, Alone
<1> QED
  BY <1>1 DEF Apart

LEMMA ReadsApart ==
  ASSUME TypeOK, Shape, Apart, NEW s \in Sessions, Alone(s), Reads(s)
  PROVE  Apart'
<1>1. \A t \in Sessions : Visible(t)' = Visible(t)
  BY QuietKeeps DEF Reads
<1>2. NoOverlapIn(db)' /\ \A t \in Sessions : NoOverlapIn(Visible(t))' /\ Spared(t)
  <2>1. db' = db
    BY DEF Reads, Quiet
  <2>2. NoOverlapIn(db')
    BY <2>1 DEF Apart
  <2>3. \A t \in Sessions : NoOverlapIn(Visible(t)')
    BY <1>1 DEF Apart
  <2> QED
    BY <1>1, <2>2, <2>3, SparedIfSame
<1>3. \A t \in Sessions : TakesUnderLock(t)'
  BY DEF Reads, Quiet, Alone, Undisturbed, Apart, TakesUnderLock, Shape, RowsRest
<1>4. StillClear(s)'
  <2>1. pc'[s] = "taking" => ClearIn(Visible(s)', Offer(s)', {})
    BY <1>1 DEF Reads, Clear, ClearIn, LiveChat
  <2>2. pc'[s] = "writing" => ClearIn(Visible(s)', want'[s].slot, {ref'[s]})
    BY <1>1 DEF Reads, Clear, ClearIn, LiveChat
  <2> QED
    BY <2>1, <2>2 DEF StillClear
<1> QED
  BY <1>2, <1>3, <1>4, ApartFrom

\* Writing one booking under the quote counter's lock, clear of all the others,
\* or writing one that takes nothing.
LEMMA WriteApart ==
  ASSUME TypeOK, Shape, Apart, NEW s \in Sessions, Alone(s), pc'[s] = "ready",
         NEW r \in Refs, NEW b \in Booking,
         rowLock[r] \in {Nobody, s} \/ latest[r] = NoBooking,
         UNCHANGED <<db, quoteLock>>,
         latest' = [latest EXCEPT ![r] = b], rowLock' = [rowLock EXCEPT ![r] = s],
         LiveChat(b) => quoteLock = s /\ ClearIn(Visible(s), b.slot, {r})
  PROVE  Apart'
<1>1. \A t \in Sessions : t # s => Visible(t)' = Visible(t)
  <2>1. ASSUME NEW t \in Sessions, t # s, NEW p \in Refs
        PROVE  Visible(t)'[p] = Visible(t)[p]
    BY <2>1, BookingsAssumption DEF Visible, TypeOK, Shape, RowsRest
  <2> QED
    BY <2>1 DEF Visible
<1>2. /\ \A p \in Refs : p # r => Visible(s)'[p] = Visible(s)[p]
      /\ Visible(s)'[r] = b
  BY DEF Visible, TypeOK
<1>3. NoOverlapIn(Visible(s)')
  <2>1. CASE LiveChat(b)
    BY <1>2, <2>1, PutApart DEF Apart
  <2>2. CASE ~LiveChat(b)
    <3>1. Within(Visible(s)', Visible(s))
      BY <1>2, <2>2 DEF Within
    <3> QED
      BY <3>1, WithinApart DEF Apart
  <2> QED
    BY <2>1, <2>2
<1>4. NoOverlapIn(db')
  BY DEF Apart
<1>5. \A t \in Sessions : NoOverlapIn(Visible(t)')
  BY <1>1, <1>3 DEF Apart
<1>6. \A t \in Sessions : t # s => Spared(t)
  BY <1>1, SparedIfSame
<1>7. \A t \in Sessions : TakesUnderLock(t)'
  BY BookingsAssumption DEF Apart, TakesUnderLock, TypeOK
<1>8. StillClear(s)'
  BY DEF StillClear
<1> QED
  BY <1>4, <1>5, <1>6, <1>7, <1>8, ApartFrom

LEMMA WritesApart ==
  ASSUME TypeOK, Shape, Owned, Apart, NEW s \in Sessions, Alone(s), Writes(s)
  PROVE  Apart'
<1>a. pc'[s] = "ready"
  BY WritesOwned
<1>1. CASE ReserveInsert(s)
  <2> DEFINE booking == [owner |-> CustomerOf[s], slot |-> quotes[qid[s]].price.slot,
                         status |-> "confirmed", price |-> quotes[qid[s]].price,
                         origin |-> qid[s]]
  <2>1. PICK r \in Refs : Insert(s, r, booking)
    BY <1>1 DEF ReserveInsert
  <2>2. qid[s] \in QuoteIds /\ quotes[qid[s]] \in Quote /\ quoteLock = s /\ quoteLock' = quoteLock
    BY <1>1 DEF ReserveInsert, TakeRefLock, Shape, Reserving, ReservingAt, VisibleQuotes, TypeOK
  <2>3. booking \in Booking
    BY <2>2, BookingsAssumption DEF Quote, Price, Booking, Slots
  <2>4. ClearIn(Visible(s), booking.slot, {r})
    BY <1>1 DEF ReserveInsert, Apart, StillClear, ClearIn, Offer
  <2> HIDE DEF booking
  <2> QED
    BY <1>a, <2>1, <2>2, <2>3, <2>4, WriteApart DEF Insert
<1>2. CASE DeskInsert(s)
  <2> DEFINE booking == [owner |-> CustomerOf[s], slot |-> want[s].slot, status |-> "confirmed",
                         price |-> want[s], origin |-> NoQuote]
  <2>1. PICK r \in Refs : Insert(s, r, booking)
    BY <1>2 DEF DeskInsert
  <2>2. want[s] \in Price /\ quoteLock' = quoteLock
    BY <1>2 DEF DeskInsert, TakeRefLock, Shape, Changing, ChangingAt, TypeOK
  <2>3. booking \in Booking
    BY <2>2, BookingsAssumption DEF Price, Booking, Slots
  <2>4. ~LiveChat(booking)
    BY DEF LiveChat, Chat
  <2> HIDE DEF booking
  <2> QED
    BY <1>a, <2>1, <2>2, <2>3, <2>4, WriteApart DEF Insert
<1>3. ASSUME ModifyWrite(s) \/ CancelWrite(s)
      PROVE  /\ rowLock[ref[s]] \in {Nobody, s} /\ ref[s] \in Refs
             /\ latest[ref[s]] = Visible(s)[ref[s]]
             /\ latest[ref[s]] \in Booking
             /\ quoteLock' = quoteLock
  <2>1. ref[s] \in Refs /\ Mine(s, ref[s])
    BY <1>3 DEF ModifyWrite, CancelWrite, Owned, StillMine, Shape, Changing, ChangingAt
  <2>2. rowLock[ref[s]] \in {Nobody, s} /\ quoteLock' = quoteLock
    BY <1>3 DEF ModifyWrite, CancelWrite, Update, Aside, counters
  <2>3. latest[ref[s]] = Visible(s)[ref[s]]
    BY <2>1, <2>2 DEF Visible, Shape, RowsRest
  <2> QED
    BY <2>1, <2>2, <2>3, MineTypes
<1>4. CASE ModifyWrite(s)
  <2> DEFINE row == latest[ref[s]]
             booking == Merged(row, seen[s], want[s])
  <2>1. seen[s] = row /\ row \in Booking /\ want[s] \in Price
    BY <1>3, <1>4 DEF ModifyWrite, Owned, StillMine, Shape, Changing, ChangingAt, TypeOK
  <2>2. booking \in Booking /\ booking.slot = want[s].slot
    BY <2>1, MergedIsWanted, MergedType
  <2>3. Update(s, ref[s], booking) /\ UNCHANGED db
    BY <1>4 DEF ModifyWrite, Update
  <2>4. quoteLock = s /\ ClearIn(Visible(s), booking.slot, {ref[s]})
    BY <1>4, <2>2 DEF ModifyWrite, Apart, StillClear, Shape, Reserving, ReservingAt
  <2> HIDE DEF booking
  <2> QED
    BY <1>a, <1>3, <1>4, <2>2, <2>3, <2>4, WriteApart DEF Update
<1>5. CASE CancelWrite(s)
  <2> DEFINE booking == [latest[ref[s]] EXCEPT !.status = "cancelled"]
  <2>1. booking \in Booking /\ ~LiveChat(booking)
    BY <1>3, <1>5 DEF Booking, LiveChat, Live
  <2>2. Update(s, ref[s], booking) /\ UNCHANGED db
    BY <1>5 DEF CancelWrite, Update
  <2> HIDE DEF booking
  <2> QED
    BY <1>a, <1>3, <1>5, <2>1, <2>2, WriteApart DEF Update
<1> QED
  BY <1>1, <1>2, <1>4, <1>5 DEF Writes

\* A commit by a session without the quote counter only takes bookings away from
\* what the counter's holder sees.
LEMMA CommitApart ==
  ASSUME TypeOK, Shape, Apart, NEW s \in Sessions, Alone(s), Commit(s)
  PROVE  Apart'
<1>1. db' = Visible(s) /\ Visible(s)' = Visible(s)
  <2>1. ASSUME NEW r \in Refs PROVE Visible(s)'[r] = Visible(s)[r]
    BY BookingsAssumption DEF Commit, Visible, TypeOK
  <2> QED
    BY <2>1 DEF Commit, Visible
<1>2. NoOverlapIn(db')
  BY <1>1 DEF Apart
<1>3. \A t \in Sessions : TakesUnderLock(t)'
  BY BookingsAssumption DEF Commit, Apart, TakesUnderLock, Visible, TypeOK
<1>4. ASSUME NEW t \in Sessions, t # s PROVE Spared(t)
  <2>1. ASSUME quoteLock = t, NEW r \in Refs, LiveChat(Visible(t)'[r])
        PROVE  LiveChat(Visible(t)[r]) /\ Visible(t)'[r].slot = Visible(t)[r].slot
    <3>1. CASE rowLock[r] = t
      BY <1>4, <2>1, <3>1 DEF Commit, Visible, TypeOK
    <3>2. CASE rowLock[r] # t
      <4>1. Visible(t)'[r] = Visible(s)[r] /\ Visible(t)[r] = db[r]
        BY <1>4, <3>2, BookingsAssumption DEF Commit, Visible, TypeOK
      <4>2. Within(Visible(s), db)
        BY <1>4, <2>1, SeesCommitted DEF Apart
      <4> QED
        BY <2>1, <4>1, <4>2 DEF Within
    <3> QED
      BY <3>1, <3>2
  <2> QED
    BY <2>1 DEF Spared, Within
<1>5. ASSUME NEW t \in Sessions PROVE NoOverlapIn(Visible(t)')
  <2>1. CASE t = s
    BY <1>1, <2>1 DEF Apart
  <2>2. CASE t # s /\ quoteLock = t
    BY <1>4, <2>2, WithinApart DEF Spared, Apart
  <2>3. CASE t # s /\ quoteLock # t
    <3>1. quoteLock' # t
      BY <2>3, BookingsAssumption DEF Commit
    <3>2. \A r \in Refs : LiveChat(Visible(t)'[r]) =>
              LiveChat(db'[r]) /\ Visible(t)'[r].slot = db'[r].slot
      BY <1>3, <3>1 DEF TakesUnderLock, Visible
    <3> QED
      BY <1>2, <3>2, WithinApart DEF Within
  <2> QED
    BY <2>1, <2>2, <2>3
<1>6. StillClear(s)'
  BY DEF Commit, Answer, StillClear, TypeOK
<1> QED
  BY <1>2, <1>3, <1>4, <1>5, <1>6, ApartFrom

LEMMA RollbackApart ==
  ASSUME TypeOK, Shape, Apart, NEW s \in Sessions, Alone(s), Rollback(s)
  PROVE  Apart'
<1>1. \A t \in Sessions : t # s => Visible(t)' = Visible(t)
  BY RowsRolledBack DEF Shape
<1>2. Visible(s)' = db
  <2>1. ASSUME NEW r \in Refs PROVE Visible(s)'[r] = db[r]
    BY BookingsAssumption DEF Rollback, Visible, TypeOK
  <2>2. db = [r \in Refs |-> db[r]]
    BY DEF TypeOK
  <2> QED
    BY <2>1, <2>2 DEF Visible
<1>3. NoOverlapIn(db') /\ \A t \in Sessions : NoOverlapIn(Visible(t)')
  BY <1>1, <1>2 DEF Apart, Rollback
<1>4. \A t \in Sessions : t # s => Spared(t)
  BY <1>1, SparedIfSame
<1>5. \A t \in Sessions : TakesUnderLock(t)'
  BY BookingsAssumption DEF Rollback, Apart, TakesUnderLock, TypeOK
<1>6. StillClear(s)'
  BY DEF Rollback, Answer, StillClear, TypeOK
<1> QED
  BY <1>3, <1>4, <1>5, <1>6, ApartFrom

LEMMA ApartStep == TypeOK /\ Shape /\ Owned /\ Apart /\ [Next]_vars => Apart'
<1> SUFFICES ASSUME TypeOK, Shape, Owned, Apart, [Next]_vars PROVE Apart'
  OBVIOUS
<1>1. CASE Outside
  <2>1. \A t \in Sessions : Visible(t)' = Visible(t)
    BY <1>1 DEF Outside, Visible, tables
  <2>2. NoOverlapIn(db)' /\ \A t \in Sessions : NoOverlapIn(Visible(t)')
    BY <1>1, <2>1 DEF Outside, tables, Apart, NoOverlapIn
  <2>3. \A t \in Sessions : TakesUnderLock(t)'
    BY <1>1 DEF Outside, tables, counters, Apart, TakesUnderLock
  <2>4. \A t \in Sessions : StillClear(t)'
    <3>1. ASSUME NEW t \in Sessions PROVE Undisturbed(t)
      BY <1>1 DEF Outside, chosen, counters, Undisturbed
    <3> QED
      BY <1>1, <2>1, <3>1, SparedIfSame, ClearStays DEF Outside, Apart, Shape, Reserving
  <2> QED
    BY <2>2, <2>3, <2>4 DEF Apart
<1> QED
  BY <1>1, Steps, ReadsApart, WritesApart, CommitApart, RollbackApart DEF Stepped, Ends

LEMMA InitApart == Init => Apart
  BY BookingsAssumption
  DEF Init, Apart, NoOverlapIn, LiveChat, Live, Visible, TakesUnderLock, StillClear

\* However many customers book, change and cancel side by side, with other desks
\* taking cars beside them, no two bookings made in chat overlap.
THEOREM ChatBookingsApart == ASSUME Lanes PROVE Spec => []ChatNeverOverlaps
<1>1. Init => TypeOK /\ Shape /\ Owned /\ Apart
  BY InitShape, InitOwned, InitApart
<1>2. TypeOK /\ Shape /\ Owned /\ Apart /\ [Next]_vars => (TypeOK /\ Shape /\ Owned /\ Apart)'
  BY TypeStep, ShapeStep, OwnedStep, ApartStep
<1>3. Apart => ChatNeverOverlaps
  BY DEF Apart, NoOverlapIn, LiveChat, ChatNeverOverlaps
<1> QED
  BY <1>1, <1>2, <1>3, PTL DEF Spec

-----------------------------------------------------------------------------
(* Who can wait for whom *)

\* A turn with any other lock has the quote counter too, unless it took one aside.
Holds(t) == refLock = t \/ payLock = t \/ \E r \in Refs : rowLock[r] = t

Orderly == \A t \in Turns : Holds(t) => quoteLock = t \/ t \in aside

\* The step gives t no lock and takes none of its own from it.
Spares(t) == /\ Holds(t)' => Holds(t)
             /\ quoteLock = t => quoteLock' = t
             /\ t \in aside => t \in aside'

\* The step of one session.
Ordered(s) == /\ \A t \in Turns : t # s => Spares(t)
              /\ s \in Turns => Spares(s) \/ quoteLock' = s \/ s \in aside' \/ ~Holds(s)'

LEMMA OrderedSteps ==
  ASSUME TypeOK, Shape, [Next]_vars
  PROVE  (\A t \in Turns : Spares(t)) \/ \E s \in Sessions : Ordered(s)
<1> USE BookingsAssumption DEF Sessions
<1>a. ASSUME NEW s \in Sessions, TakeQuoteLock(s), UNCHANGED tables PROVE Ordered(s)
  BY <1>a DEF TakeQuoteLock, tables, Ordered, Spares, Holds
<1>b. ASSUME NEW s \in Turns, pc[s] \in {"reserving", "taking", "writing"} PROVE quoteLock = s
  BY <1>b DEF Shape, Reserving, ReservingAt
<1>c. ASSUME UNCHANGED <<rowLock, counters>> PROVE \A t \in Turns : Spares(t)
  BY <1>c DEF counters, Spares, Holds
<1>d. ASSUME NEW s \in Sessions, \A r \in Refs : rowLock'[r] \in {rowLock[r], s},
             UNCHANGED <<payLock, aside, quoteLock>>, refLock' \in {refLock, s},
             s \in Turns => quoteLock = s
      PROVE  Ordered(s)
  BY <1>d DEF Ordered, Spares, Holds
<1>e. ASSUME NEW s \in Sessions, Commit(s) \/ Rollback(s) PROVE Ordered(s)
  BY <1>e DEF Commit, Rollback, Ordered, Spares, Holds, TypeOK
<1>1. ASSUME NEW s \in Turns, ReserveConflict(s) \/ ReserveInsert(s) \/ ModifyWrite(s)
      PROVE  Ordered(s)
  <2>1. quoteLock = s
    BY <1>1, <1>b DEF ReserveConflict, ReserveInsert, ModifyWrite
  <2>2. ref[s] \in Refs \/ ~ModifyWrite(s)
    BY DEF ModifyWrite, Shape, Changing, ChangingAt
  <2> QED
    BY <1>1, <1>d, <2>1, <2>2
    DEF ReserveConflict, ReserveInsert, ModifyWrite, LockCarRows, Insert, Update, TakeRefLock,
        counters, TypeOK
<1>2. ASSUME NEW s \in Desks, DeskStep(s) PROVE Ordered(s)
  BY <1>2, <1>d DEF DeskStep, DeskCheck, DeskInsert, LockCarRows, Insert, TakeRefLock, counters, TypeOK
<1>3. ASSUME NEW s \in Turns, CancelWrite(s) \/ Notes(s) PROVE Ordered(s)
  <2>1. Aside(s) /\ payLock' \in {payLock, s} /\ \A r \in Refs : rowLock'[r] \in {rowLock[r], s}
    BY <1>3, NotesLock DEF CancelWrite, Update, Shape, Changing, ChangingAt, TypeOK
  <2> QED
    BY <2>1 DEF Aside, Ordered, Spares, Holds
<1>4. ASSUME NEW s \in Turns, TurnStep(s) PROVE Ordered(s) \/ \A t \in Turns : Spares(t)
  BY <1>4, <1>a, <1>c, <1>e, <1>1, <1>3
  DEF TurnStep, Notes, CreateQuote, ReserveStart, ReserveValidate, ReserveFails, ModifyStart,
      ExtendStart, CheckChange, ModifyPrice, CancelStart, LinkStart, PayStart, ScheduleStart,
      DocumentsStart, Begin, tables
<1>5. CASE UNCHANGED vars \/ TariffChange \/ \E v \in Vehicles : FleetChange(v)
  BY <1>5, <1>c DEF vars, tables, FleetChange, TariffChange
<1>6. ASSUME NEW q \in QuoteIds, QuoteExpires(q) PROVE \A t \in Turns : Spares(t)
  BY <1>6, <1>c DEF QuoteExpires, tables
<1> QED
  BY <1>2, <1>4, <1>5, <1>6, <1>e DEF Next, Abort

LEMMA OrderlyStep == TypeOK /\ Shape /\ Orderly /\ [Next]_vars => Orderly'
  BY OrderedSteps DEF Orderly, Ordered, Spares

\* The quote counter goes before every other lock in quoting, reserving, moving
\* and extending, so two turns that wait for each other are there because one of
\* them locked something aside from it: never because two customers book, move or
\* extend in one another's way.
THEOREM DeadlocksNeedAnAside == Spec => []DeadlockOnlyAside
<1>1. Init => TypeOK /\ Shape /\ Orderly
  BY InitShape, BookingsAssumption DEF Init, Orderly, Holds, Sessions
<1>2. TypeOK /\ Shape /\ Orderly /\ [Next]_vars => (TypeOK /\ Shape /\ Orderly)'
  BY TypeStep, ShapeStep, OrderlyStep
<1>3. ASSUME TypeOK, Shape, Orderly PROVE DeadlockOnlyAside
  <2> SUFFICES ASSUME NEW s \in Turns, NEW t \in Turns, s # t, WaitsFor(s, t), WaitsFor(t, s)
               PROVE  s \in aside \/ t \in aside
    BY DEF DeadlockOnlyAside
  <2>1. ASSUME NEW a \in Turns, NEW b \in Turns, WaitsFor(a, b), quoteLock # b
        PROVE  Holds(b)
    <3>1. ChangingAt(a)
      BY <1>3 DEF Shape, Changing, Sessions
    <3> QED
      BY <2>1, <3>1 DEF WaitsFor, Holds, CarRows, ChangingAt
  <2> QED
    BY <1>3, <2>1 DEF Orderly
<1> QED
  BY <1>1, <1>2, <1>3, PTL DEF Spec

-----------------------------------------------------------------------------
(* Where every booking is made in chat *)

FromChat == \A r \in Refs : /\ db[r] # NoBooking => Chat(db[r])
                            /\ latest[r] # NoBooking => Chat(latest[r])

LEMMA FromChatStep == TypeOK /\ Shape /\ Owned /\ FromChat /\ Desks = {} /\ [Next]_vars => FromChat'
<1> SUFFICES ASSUME TypeOK, Shape, Owned, FromChat, Desks = {}, [Next]_vars PROVE FromChat'
  OBVIOUS
<1>a. ASSUME NEW r \in Refs, NEW b \in Booking, b.origin # NoQuote,
             latest' = [latest EXCEPT ![r] = b], UNCHANGED db
      PROVE  FromChat'
  BY <1>a, SentinelAssumption DEF FromChat, Chat, TypeOK
<1>1. CASE Outside
  BY <1>1 DEF Outside, tables, FromChat, Chat
<1>2. ASSUME NEW s \in Sessions, Reads(s) PROVE FromChat'
  BY <1>2 DEF Reads, Quiet, FromChat, Chat
<1>3. ASSUME NEW s \in Sessions, Ends(s) PROVE FromChat'
  BY <1>3 DEF Ends, Commit, Rollback, FromChat, Chat, Visible, TypeOK
<1>4. ASSUME NEW s \in Sessions, ReserveInsert(s) PROVE FromChat'
  <2> DEFINE booking == [owner |-> CustomerOf[s], slot |-> quotes[qid[s]].price.slot,
                         status |-> "confirmed", price |-> quotes[qid[s]].price,
                         origin |-> qid[s]]
  <2>1. PICK r \in Refs : Insert(s, r, booking)
    BY <1>4 DEF ReserveInsert
  <2>2. qid[s] \in QuoteIds /\ quotes[qid[s]] \in Quote
    BY <1>4 DEF ReserveInsert, Shape, Reserving, ReservingAt, VisibleQuotes, TypeOK
  <2>3. booking \in Booking /\ booking.origin # NoQuote
    BY <2>2, BookingsAssumption DEF Quote, Price, Booking, Slots
  <2> HIDE DEF booking
  <2> QED
    BY <1>a, <2>1, <2>3 DEF Insert
<1>5. ASSUME NEW s \in Sessions, ModifyWrite(s) \/ CancelWrite(s) PROVE FromChat'
  <2>1. ref[s] \in Refs /\ Mine(s, ref[s]) /\ rowLock[ref[s]] \in {Nobody, s}
    BY <1>5 DEF ModifyWrite, CancelWrite, Update, Owned, StillMine, Shape, Changing, ChangingAt
  <2>2. latest[ref[s]] = Visible(s)[ref[s]]
    BY <2>1 DEF Visible, Shape, RowsRest
  <2>3. latest[ref[s]] \in Booking /\ latest[ref[s]].origin # NoQuote
    BY <2>1, <2>2, MineTypes, SentinelAssumption DEF FromChat, Chat
  <2>4. CASE ModifyWrite(s)
    <3>1. seen[s] = latest[ref[s]] /\ want[s] \in Price
      BY <2>2, <2>4 DEF ModifyWrite, Owned, StillMine, Shape, Changing, ChangingAt, TypeOK
    <3>2. Merged(latest[ref[s]], seen[s], want[s]) \in Booking
      BY <2>3, <3>1, MergedType
    <3>3. Merged(latest[ref[s]], latest[ref[s]], want[s]).origin # NoQuote
      BY <2>3, <3>1, MergedIsWanted
    <3> QED
      BY <1>a, <2>1, <2>4, <3>1, <3>2, <3>3 DEF ModifyWrite, Update
  <2>5. CASE CancelWrite(s)
    <3>1. /\ [latest[ref[s]] EXCEPT !.status = "cancelled"] \in Booking
          /\ [latest[ref[s]] EXCEPT !.status = "cancelled"].origin # NoQuote
      BY <2>3 DEF Booking
    <3> QED
      BY <1>a, <2>1, <2>5, <3>1 DEF CancelWrite, Update
  <2> QED
    BY <1>5, <2>4, <2>5
<1> QED
  BY <1>1, <1>2, <1>3, <1>4, <1>5, Steps DEF Stepped, Writes

\* Where no other desk takes cars, no two live bookings overlap at all: of the
\* customers who confirm one car for overlapping dates, one has it.
THEOREM NeverDoubleBooked == ASSUME Lanes, Desks = {} PROVE Spec => []NoDoubleBooking
<1>1. Init => TypeOK /\ Shape /\ Owned /\ Apart /\ FromChat
  BY InitShape, InitOwned, InitApart DEF Init, FromChat
<1>2. TypeOK /\ Shape /\ Owned /\ Apart /\ FromChat /\ [Next]_vars
          => (TypeOK /\ Shape /\ Owned /\ Apart /\ FromChat)'
  BY TypeStep, ShapeStep, OwnedStep, ApartStep, FromChatStep
<1>3. Apart /\ FromChat => NoDoubleBooking
  BY DEF Apart, FromChat, NoOverlapIn, LiveChat, Live, NoDoubleBooking
<1> QED
  BY <1>1, <1>2, <1>3, PTL DEF Spec

-----------------------------------------------------------------------------
(***************************************************************************)
(* Bookings implements Inventory, where every booking is made in chat:     *)
(* everything a transaction does becomes visible at its commit, as one     *)
(* Change of its customer's bookings.                                      *)
(***************************************************************************)
Good == TypeOK /\ Shape /\ Owned /\ Apart /\ FromChat

LEMMA GoodAlways == ASSUME Lanes, Desks = {} PROVE Spec => []Good
<1>1. Init => Good
  BY InitShape, InitOwned, InitApart DEF Init, FromChat, Good
<1>2. Good /\ [Next]_vars => Good'
  BY TypeStep, ShapeStep, OwnedStep, ApartStep, FromChatStep DEF Good
<1> QED
  BY <1>1, <1>2, PTL DEF Spec

LEMMA EntryType ==
  ASSUME NEW b \in Booking, b.price.slot = b.slot
  PROVE  Entry(b) \in Promise!Booking /\ Entry(b) # NoBooking
<1>1. b # NoBooking
  BY SentinelAssumption
<1>2. b.slot \in Slots
  BY DEF Booking, Price
<1>3. Entry(b) \in Promise!Booking
  BY <1>1, <1>2 DEF Entry, Booking, Promise!Booking, Promise!Slots, Slots, Columns
<1> QED
  BY <1>3, PromiseAssumption

LEMMA EntryHolds ==
  ASSUME NEW b \in Booking, b.price.slot = b.slot
  PROVE  Promise!Holds(Entry(b)) <=> Live(b)
  BY EntryType, SentinelAssumption DEF Entry, Promise!Holds, Live

\* The rows that were committed change as one customer's bookings may.
LEMMA CommitChanges ==
  ASSUME Good, Good', Lanes, NEW s \in Sessions, Commit(s)
  PROVE  Promise!Change(CustomerOf[s])
<1>1. ASSUME NEW r \in Refs
      PROVE  /\ db[r] # NoBooking => db[r] \in Booking /\ db[r].price.slot = db[r].slot
             /\ db'[r] # NoBooking => db'[r] \in Booking /\ db'[r].price.slot = db'[r].slot
  BY DEF Good, TypeOK, Owned, Priced
<1>2. Booked' \in [Refs -> Promise!Booking \cup {NoBooking}]
  BY <1>1, EntryType DEF Booked, Entry
<1>3. ASSUME NEW r \in Refs, Booked'[r] # Booked[r]
      PROVE  /\ Booked'[r] # NoBooking
             /\ Booked'[r].owner = CustomerOf[s]
             /\ Booked[r] # NoBooking =>
                   Booked[r].owner = CustomerOf[s] /\ Promise!Holds(Booked[r])
  <2>1. Booked'[r] = Entry(db'[r]) /\ Booked[r] = Entry(db[r]) /\ db'[r] # db[r]
    BY <1>3 DEF Booked
  <2>2. db'[r] = latest[r] /\ rowLock[r] = s /\ latest[r] # db[r]
    BY <1>3, <2>1 DEF Commit, Visible, Good, TypeOK
  <2>3. /\ latest[r].owner = CustomerOf[s]
        /\ db[r] # NoBooking => db[r].owner = CustomerOf[s] /\ Live(db[r])
    BY <2>2 DEF Good, Owned, OwnWrites
  <2>4. db'[r] # NoBooking
    BY <2>2 DEF Good, Shape, RowsRest
  <2>5. Entry(db'[r]) # NoBooking /\ Entry(db'[r]).owner = CustomerOf[s]
    BY <1>1, <2>2, <2>3, <2>4, EntryType DEF Entry
  <2>6. ASSUME Entry(db[r]) # NoBooking
        PROVE  Entry(db[r]).owner = CustomerOf[s] /\ Promise!Holds(Entry(db[r]))
    <3>1. db[r] # NoBooking
      BY <2>6 DEF Entry
    <3>2. Promise!Holds(Entry(db[r]))
      BY <1>1, <2>3, <3>1, EntryHolds
    <3> QED
      BY <2>3, <3>1, <3>2 DEF Entry
  <2> QED
    BY <2>1, <2>5, <2>6
<1>4. Promise!NoClash(Booked')
  <2>1. ASSUME NEW p \in Refs, NEW q \in Refs, p # q,
               Promise!Holds(Booked'[p]), Promise!Holds(Booked'[q])
        PROVE  ~Promise!Overlap(Booked'[p].slot, Booked'[q].slot)
    <3>1. Booked'[p] = Entry(db'[p]) /\ Booked'[q] = Entry(db'[q])
      BY DEF Booked
    <3>2. db'[p] # NoBooking /\ db'[q] # NoBooking
      BY <2>1, <3>1 DEF Entry, Promise!Holds
    <3>3. Live(db'[p]) /\ Live(db'[q]) /\ Chat(db'[p]) /\ Chat(db'[q])
      BY <1>1, <2>1, <3>1, <3>2, EntryHolds DEF Good, FromChat
    <3>4. ~Overlap(db'[p].slot, db'[q].slot)
      BY <2>1, <3>3 DEF Good, Apart, NoOverlapIn, LiveChat
    <3> QED
      BY <3>1, <3>2, <3>4 DEF Entry, Overlap, Promise!Overlap
  <2> QED
    BY <2>1 DEF Promise!NoClash
<1> QED
  BY <1>2, <1>3, <1>4 DEF Promise!Change

LEMMA OnlyCommits ==
  ASSUME Good, [Next]_vars
  PROVE  UNCHANGED db \/ \E s \in Sessions : Commit(s)
  BY Steps
  DEF Good, Stepped, Outside, tables, Reads, Quiet, Writes, Ends, ReserveInsert, DeskInsert,
      ModifyWrite, CancelWrite, Insert, Update, Rollback

\* Seen from outside, concurrent transactions are the provider's promise: each
\* step replaces what one customer has booked, and no two bookings clash.
THEOREM BookingsImplementInventory ==
  ASSUME Lanes, Desks = {} PROVE Spec => ImplementsInventory
<1>1. Init => Promise!Init
  BY DEF Init, Promise!Init, Booked, Entry
<1>2. Good /\ Good' /\ [Next]_vars => [Promise!Next]_Booked
  <2> SUFFICES ASSUME Good, Good', [Next]_vars PROVE [Promise!Next]_Booked
    OBVIOUS
  <2>1. CASE UNCHANGED db
    BY <2>1 DEF Booked
  <2>2. ASSUME NEW s \in Sessions, Commit(s) PROVE Promise!Next
    BY <2>2, CommitChanges, BookingsAssumption DEF Promise!Next
  <2> QED
    BY <2>1, <2>2, OnlyCommits
<1> QED
  BY <1>1, <1>2, GoodAlways, PTL DEF Spec, ImplementsInventory, Promise!Spec
==============================================================================
