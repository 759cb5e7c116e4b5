------------------------------ MODULE MCAgent ------------------------------
(* A small instance of Agent for TLC. *)
EXTENDS Agent, TLC

CONSTANTS r1, r2, urus, huracan, june, july

Text(t) == [text |-> t, reports |-> FALSE, asks |-> FALSE, figure |-> FALSE, pays |-> FALSE]

\* One message of each kind that the code tells apart.
SomeMessages == {Text("hello"), [Text("fire") EXCEPT !.reports = TRUE],
                 [Text("what if") EXCEPT !.asks = TRUE],
                 [Text("deposit") EXCEPT !.figure = TRUE], [Text("pay") EXCEPT !.pays = TRUE]}

Plain == Says("text")

\* One draft of each claim that the guard tells apart.
SomeDrafts == {Plain, [Plain EXCEPT !.later = TRUE], [Plain EXCEPT !.staff = TRUE],
               [Plain EXCEPT !.offers = TRUE],
               [Plain EXCEPT !.done = "explicit"], [Plain EXCEPT !.done = "generic"],
               [Plain EXCEPT !.done = "explicit", !.refs = {r1}],
               [Plain EXCEPT !.amount = 100, !.car = urus]}

\* Rows the conversation has filled.
Rows == Cardinality(db.calls) + Cardinality(db.ledger) + Cardinality({r \in Refs : db.status[r] # "none"})

\* Failures are followed in the first call of a turn; the bookings' names are used in
\* order; a first turn fills up to two rows, a second one, not durable, one; only the
\* car that is not written about has another price, once it is quoted; one decision is
\* owed at a time, and it is passed on over up to two rows; the words for it, and the
\* turn after it, look at the plain message.
Followed ==
    /\ (turn.round <= 1 /\ turn.pass = 0) \/ call = NoCall
    /\ db.status[r2] # "none" => db.status[r1] # "none"
    /\ Rows <= (IF taken <= 1 THEN 2 ELSE 1)
    /\ durable => taken <= 1
    /\ Cardinality(db.owed) <= 1
    /\ turn.relay # "none" => Rows <= 2
    /\ turn.relay # "none" \/ relayed # "none" => turn.at = "idle" \/ turn.msg = Text("hello")
    /\ \A car \in Cars : price[car] # 100 =>
          car = huracan /\ db.calls # {} /\ \A c \in db.calls : c[1] = "quote" /\ c[3] = huracan

TwoModels == <<"flash", "lite">>
=============================================================================
