----------------------------- MODULE AgentProofs ------------------------------
(***************************************************************************)
(* Theorems about Agent for any fleet, dates, bookings, messages and       *)
(* drafts, and any numbers of models, sweeps, iterations and ticks: types  *)
(* and the budget, that what leaves holds in the rows it leaves with, and  *)
(* that nobody is asked twice in a row to repeat herself.                  *)
(***************************************************************************)
EXTENDS Agent, WellFoundedInduction, TLAPS

-----------------------------------------------------------------------------
(* The inductive invariant *)

Statuses == {"none", "held", "confirmed", "declined", "cancelled"}
Details == {m.text : m \in Messages} \cup {"did not converge", "declined"}
Entries == (Reasons \X Details) \X BOOLEAN
Calls == {<<"escalate">>} \cup ({"search"} \X Dates)
            \cup {<<"quote", date, car, p>> : date \in Dates, car \in Cars, p \in Prices}

Tables == [status : [Refs -> Statuses], calls : SUBSET Calls, links : Seq(Refs),
         ledger : SUBSET Entries, wanted : Dates \cup {"none"}, escalated : BOOLEAN,
         reason : Reasons \cup {"none"}, awaiting : BOOLEAN, failures : 0..BeforeHandover,
         owed : SUBSET (Refs \cup {"case"})]

Kinds == {"none", "text", "safe", "emergency", "busy", "down", "options", "recorded",
          "receipt", "changed", "cancelled", "cannot"}

Replies == [kind : Kinds, done : {"no", "generic", "explicit"}, refs : SUBSET Refs,
            offers : BOOLEAN, car : Cars \cup {"none"}, amount : Nat, staff : BOOLEAN,
            later : BOOLEAN]

Turns == [msg : Messages \cup {"none"}, at : {"idle", "owed", "call", "read", "guard"},
          pass : 0..1, round : 0..MaxIterations, spent : Nat, heard : BOOLEAN,
          tools : SUBSET {"link", "cancel"}, search : {"none", "found", "empty", "other"},
          tries : Nat, reply : Replies, relay : Refs \cup {"case", "none"}]

Sweeps == [sweep : 0..MaxRetries, next : 1..(Len(Candidates) + 1),
           exhausted : SUBSET DOMAIN Candidates, until : [DOMAIN Candidates -> Nat]]

\* Rows in which a colleague who counts as called has been called.
Good(d) == d \in Tables /\ (<<"escalate">> \in d.calls => \E e \in d.ledger : e[2] = TRUE)

Typed ==
    /\ Good(db) /\ Good(before)
    /\ price \in [Cars -> Prices] /\ durable \in BOOLEAN
    /\ turn \in Turns /\ call \in Sweeps
    /\ said \in [n : 0..MaxTurns, reply : Replies] /\ taken \in 0..MaxTurns
    /\ turn.at # "idle" => turn.msg \in Messages
    /\ turn.reply.kind # "receipt" /\ relayed \in {"none", "told", "busy"}
    /\ turn.spent <= Limit
    /\ turn.relay # "none" => turn.relay \in db.owed /\ turn.pass = 0 /\ turn.at # "guard"

\* Between turns all is committed; the first writing of a turn, and the words that pass a
\* decision on, do not touch the count of failures.
Counted ==
    /\ turn.at \in {"idle", "owed"} => before = db
    /\ turn.at \in {"call", "read"} /\ turn.pass = 0 => db.failures = before.failures

\* Whoever was asked to repeat herself has her failure on record where this turn, or
\* its next run, will look for it, and is not about to be asked again.
Remembered ==
    /\ turn.reply.kind = "busy" => turn.at = "guard" /\ db.failures >= 1
    /\ said.reply.kind = "busy" =>
          \/ turn.at \in {"idle", "owed"} /\ db.failures >= 1
          \/ turn.at \notin {"idle", "owed"} /\ before.failures >= 1 /\ turn.reply.kind # "busy"

IInv == Typed /\ Counted /\ Remembered

-----------------------------------------------------------------------------
(* Minima and maxima *)

LEMMA MinIs ==
  ASSUME NEW S \in SUBSET Nat, S # {}
  PROVE  Min(S) \in S /\ \A x \in S : Min(S) <= x
<1> DEFINE less == OpToRel(<, Nat)
<1>1. IsWellFoundedOn(less, Nat)
  BY NatLessThanWellFounded, Zenon
<1>2. \A x, y \in Nat : <<x, y>> \notin less => y <= x
  BY DEF OpToRel
<1> HIDE DEF less
<1>3. \E y \in S : \A x \in S : <<x, y>> \notin less
  BY <1>1, WFMin
<1>4. \E y \in S : \A x \in S : y <= x
  BY <1>2, <1>3
<1> QED
  BY <1>4 DEF Min

LEMMA MaxOfTwo == ASSUME NEW a \in Nat, NEW b \in Nat
                  PROVE  Max({a, b}) \in {a, b} /\ Max({a, b}) >= a /\ Max({a, b}) >= b
<1>1. \E x \in {a, b} : \A y \in {a, b} : x >= y
  OBVIOUS
<1> QED
  BY <1>1 DEF Max

LEMMA LimitIs == Limit \in Nat
  BY BudgetAssumption DEF Limit, Cap

\* No request lasts longer than the turn has left.
LEMMA LeftIs == ASSUME IInv, NEW ticks \in Durations
                PROVE  turn.spent + Min({ticks, Left}) \in 0..Limit
<1>1. turn.spent \in Nat /\ turn.spent <= Limit /\ Limit \in Nat /\ ticks \in Nat
  BY LimitIs, BudgetAssumption DEF IInv, Typed, Turns
<1>2. Remaining \in Nat
  BY <1>1 DEF Remaining
<1>3. Left \in Nat /\ Left <= Remaining
  BY <1>2, MinIs DEF Left, Cap
<1>4. Min({ticks, Left}) \in Nat /\ Min({ticks, Left}) <= Left
  BY <1>1, <1>3, MinIs
<1> QED
  BY <1>1, <1>2, <1>3, <1>4 DEF Remaining

LEMMA FirstUsable == ASSUME IInv, Usables # {}
                     PROVE  Min(Usables) \in DOMAIN Candidates
<1>1. Usables \subseteq DOMAIN Candidates /\ DOMAIN Candidates \subseteq Nat
  BY BudgetAssumption DEF Usables
<1> QED
  BY <1>1, MinIs

LEMMA PauseIs == ASSUME IInv PROVE PauseTicks \in Nat
<1> DEFINE waits == {IF call.until[i] > turn.spent THEN call.until[i] - turn.spent ELSE 0 :
                       i \in DOMAIN Candidates \ call.exhausted}
<1>1. waits \in SUBSET Nat
  BY BudgetAssumption DEF IInv, Typed, Turns, Sweeps
<1>2. (IF waits = {} THEN 0 ELSE Min(waits)) \in Nat
  BY <1>1, MinIs
<1>3. PauseTicks = Max({1, IF waits = {} THEN 0 ELSE Min(waits)})
  BY DEF PauseTicks
<1> HIDE DEF waits
<1> QED
  BY <1>2, <1>3, MaxOfTwo

-----------------------------------------------------------------------------
(* What the operators on the rows keep *)

LEMMA ReasonsIn == /\ "repeated_agent_failure" \in Reasons /\ "unconfirmed_figure" \in Reasons
                   /\ "accident" \in Reasons /\ Signals \subseteq Reasons /\ Urgent \subseteq Signals
  BY DEF Reasons, Signals, Urgent

LEMMA EscalateKeeps ==
  ASSUME NEW d, Good(d), NEW reason \in Reasons, NEW detail \in Details, NEW m
  PROVE  LET e == Escalate(d, reason, detail, m)
         IN  /\ Good(e) /\ e.status = d.status /\ e.links = d.links
             /\ e.failures = d.failures /\ e.wanted = d.wanted /\ e.owed = d.owed
             /\ e.calls \in {d.calls, d.calls \cup {<<"escalate">>}}
             /\ d.ledger \subseteq e.ledger
<1> DEFINE raised == ~ Advisory(d, reason, m)
           entry == <<Key(reason, detail), raised>>
           noted == [d EXCEPT !.ledger = @ \cup {entry},
                              !.calls = @ \cup (IF raised THEN {<<"escalate">>} ELSE {})]
           e == Escalate(d, reason, detail, m)
<1>1. entry \in Entries /\ entry[2] = raised
  BY DEF Entries, Key
<1>2. d \in Tables
  BY DEF Good
<1>3. <<"escalate">> \in Calls
  BY DEF Calls
<1>4. Classified(d, reason) \in Reasons
  BY <1>2 DEF Classified, Tables, Reasons, Signals, Urgent
<1> HIDE DEF entry
<1>5. /\ noted \in Tables
      /\ <<"escalate">> \in noted.calls => \E x \in noted.ledger : x[2] = TRUE
      /\ noted.status = d.status /\ noted.links = d.links
      /\ noted.failures = d.failures /\ noted.wanted = d.wanted /\ noted.owed = d.owed
      /\ noted.calls \in {d.calls, d.calls \cup {<<"escalate">>}}
      /\ d.ledger \subseteq noted.ledger
  BY <1>1, <1>2, <1>3 DEF Good, Tables
<1> HIDE DEF raised, noted
<1>6. \/ e = d \/ e = noted
      \/ e = [noted EXCEPT !.awaiting = TRUE, !.reason = Classified(d, reason)]
      \/ e = [noted EXCEPT !.escalated = TRUE, !.reason = Classified(d, reason)]
  BY DEF Escalate, noted, raised, entry
<1> HIDE DEF e
<1>7. /\ Good(e) /\ e.status = d.status /\ e.links = d.links
      /\ e.failures = d.failures /\ e.wanted = d.wanted /\ e.owed = d.owed
      /\ e.calls \in {d.calls, d.calls \cup {<<"escalate">>}}
      /\ d.ledger \subseteq e.ledger
  <2>1. CASE e = d
    BY <1>2, <2>1
  <2>2. CASE e = noted
    BY <1>5, <2>2 DEF Good
  <2>3. CASE e = [noted EXCEPT !.awaiting = TRUE, !.reason = Classified(d, reason)]
    BY <1>4, <1>5, <2>3 DEF Good, Tables
  <2>4. CASE e = [noted EXCEPT !.escalated = TRUE, !.reason = Classified(d, reason)]
    BY <1>4, <1>5, <2>4 DEF Good, Tables
  <2> QED
    BY <1>6, <2>1, <2>2, <2>3, <2>4
<1> QED
  BY <1>7, Zenon DEF e

LEMMA ThroughKeeps ==
  ASSUME NEW d, Good(d)
  PROVE  /\ Good(Through(d)) /\ Through(d).status = d.status /\ Through(d).calls = d.calls
  BY DEF Good, Through, Tables, BeforeHandover

LEMMA MergedKeeps ==
  ASSUME NEW d, Good(d), NEW e \in Extractions
  PROVE  /\ Good(Merged(d, e)) /\ Merged(d, e).failures = d.failures
         /\ Merged(d, e).owed = d.owed
  BY DEF Good, Merged, Tables, Extractions

LEMMA LinkedKeeps ==
  ASSUME NEW d, Good(d), NEW r \in Refs
  PROVE  /\ Good(Linked(d, r)) /\ Linked(d, r).failures = d.failures
         /\ Linked(d, r).owed = d.owed
<1>1. d.links \in Seq(Refs) /\ Append(d.links, r) \in Seq(Refs)
  BY DEF Good, Tables
<1>2. Linked(d, r) \in {d, [d EXCEPT !.links = Append(d.links, r)]}
  BY DEF Linked, Good, Tables
<1> QED
  BY <1>1, <1>2 DEF Good, Tables

LEMMA MarkedKeeps ==
  ASSUME NEW d, Good(d), NEW c
  PROVE  Good(Marked(d, c)) /\ Marked(d, c).failures = d.failures
<1>1. d.owed \ {c} \in SUBSET (Refs \cup {"case"})
  BY DEF Good, Tables
<1> QED
  BY <1>1 DEF Good, Tables, Marked

LEMMA SaysIs ==
  ASSUME NEW kind \in Kinds
  PROVE  /\ Says(kind) \in Replies /\ Says(kind).kind = kind /\ Says(kind).done = "no"
         /\ Says(kind).offers = FALSE /\ Says(kind).amount = 0 /\ Says(kind).staff = FALSE
         /\ Says(kind).later = FALSE
<1>1. {} \in SUBSET Refs /\ 0 \in Nat /\ "none" \in Cars \cup {"none"} /\ FALSE \in BOOLEAN
  OBVIOUS
<1>2. Says(kind) \in Replies
  BY <1>1 DEF Says, Replies
<1> QED
  BY <1>2 DEF Says

LEMMA ReceiptedIs ==
  ASSUME NEW d, Good(d), NEW r \in Replies, NEW tools
  PROVE  /\ Receipted(d, r, tools) \in Replies
         /\ Receipted(d, r, tools).kind = "busy" => r.kind = "busy"
<1> DEFINE receipt == [Says("receipt") EXCEPT !.refs = {Last(d.links)}]
<1>1. /\ Says("receipt") \in Replies /\ Says("receipt").kind = "receipt"
      /\ Says("changed") \in Replies /\ Says("changed").kind = "changed"
      /\ Says("cancelled") \in Replies /\ Says("cancelled").kind = "cancelled"
  BY SaysIs DEF Kinds
<1>2. CurrentLink(d) => Last(d.links) \in Refs
  BY DEF Good, Tables, CurrentLink, Last
<1>3. CurrentLink(d) => receipt \in Replies /\ receipt.kind = "receipt"
  BY <1>1, <1>2 DEF Replies
<1>4. \/ Receipted(d, r, tools) = receipt /\ CurrentLink(d)
      \/ Receipted(d, r, tools) \in {Says("changed"), Says("cancelled"), r}
  BY Zenon DEF Receipted
<1> HIDE DEF receipt
<1> QED
  BY <1>1, <1>3, <1>4

-----------------------------------------------------------------------------
(* The ways a step ends *)

LEMMA IdleIs == /\ Idle \in Turns /\ Idle.at = "idle" /\ Idle.reply = Says("none")
                /\ Idle.reply.kind = "none" /\ Idle.relay = "none" /\ Idle.spent = 0
                /\ NoCall \in Sweeps
<1>1. Says("none") \in Replies /\ Says("none").kind = "none"
  BY SaysIs DEF Kinds
<1>2. Idle \in Turns
  BY <1>1, BudgetAssumption DEF Idle, Turns
<1>3. NoCall \in Sweeps
  BY BudgetAssumption DEF NoCall, Sweeps
<1> QED
  BY <1>1, <1>2, <1>3 DEF Idle

LEMMA SendKeeps ==
  ASSUME IInv, NEW d, Good(d), NEW r \in Replies, r.kind = "busy" => d.failures >= 1,
         taken' \in 0..MaxTurns, Send(d, r)
  PROVE  IInv'
<1>1. /\ db' = d /\ before' = d /\ turn' = Idle /\ call' = NoCall /\ relayed' = "none"
      /\ UNCHANGED <<price, durable>>
  BY DEF Send
<1>2. said'.reply = r /\ said' \in [n : 0..MaxTurns, reply : Replies]
  BY DEF Send
<1>3. Typed'
  BY <1>1, <1>2, IdleIs, BudgetAssumption DEF IInv, Typed, Good, Limit
<1>4. Counted' /\ Remembered'
  BY <1>1, <1>2, IdleIs DEF Counted, Remembered
<1> QED
  BY <1>3, <1>4 DEF IInv

LEMMA FinishKeeps ==
  ASSUME IInv, NEW d, Good(d), NEW r \in Replies, r.kind = "busy" => d.failures >= 1,
         Finish(d, r)
  PROVE  IInv'
<1>1. taken' \in 0..MaxTurns
  BY DEF Finish, IInv, Typed
<1> QED
  BY <1>1, ReceiptedIs, SendKeeps DEF Finish

LEMMA GuardedKeeps ==
  ASSUME IInv, NEW d, Good(d), NEW r \in Replies, r.kind # "receipt",
         turn.at \notin {"idle", "owed"}, turn.relay = "none",
         r.kind = "busy" => d.failures >= 1 /\ said.reply.kind # "busy",
         Guarded(d, r)
  PROVE  IInv'
<1>1. db' = d /\ call' = NoCall /\ UNCHANGED <<before, price, durable, said, relayed, taken>>
  BY DEF Guarded
<1>2. /\ turn' = [turn EXCEPT !.at = "guard", !.reply = r] /\ turn \in Turns
      /\ turn.msg \in Messages
  BY DEF Guarded, IInv, Typed
<1>3. /\ turn' \in Turns /\ turn'.at = "guard" /\ turn'.reply = r /\ turn'.msg = turn.msg
      /\ turn'.relay = turn.relay /\ turn'.spent = turn.spent
  BY <1>2 DEF Turns
<1>4. Typed'
  BY <1>1, <1>2, <1>3, IdleIs DEF IInv, Typed, Good, Limit
<1>5. Counted' /\ Remembered'
  BY <1>1, <1>3 DEF IInv, Counted, Remembered
<1> QED
  BY <1>4, <1>5 DEF IInv

\* Passing a decision on forgets no failure either.
LEMMA PassOnKeeps ==
  ASSUME IInv, NEW d, Good(d), d.failures = db.failures, NEW r,
         turn.at \in {"call", "read"}, turn.relay # "none", PassOn(d, r)
  PROVE  IInv'
<1>1. /\ db' = Marked(d, turn.relay) /\ before' = db' /\ turn' = Idle /\ call' = NoCall
      /\ relayed' \in {"told", "busy"} /\ UNCHANGED <<price, durable, said, taken>>
  BY DEF PassOn
<1>2. Good(db') /\ db'.failures = db.failures
  BY <1>1, MarkedKeeps
<1>3. Typed'
  BY <1>1, <1>2, IdleIs, BudgetAssumption DEF IInv, Typed, Good, Limit
<1>4. said.reply.kind = "busy" => db.failures >= 1
  BY DEF IInv, Typed, Counted, Remembered
<1>5. Counted' /\ Remembered'
  BY <1>1, <1>2, <1>4, IdleIs DEF Counted, Remembered
<1> QED
  BY <1>3, <1>5 DEF IInv

LEMMA RollBackKeeps ==
  ASSUME IInv, turn.at \notin {"idle", "owed"}, RollBack
  PROVE  IInv'
<1>1. db' = before /\ call' = NoCall /\ UNCHANGED <<before, price, durable, said, relayed, taken>>
  BY DEF RollBack
<1>2. turn \in Turns /\ turn.msg \in Messages
  BY DEF IInv, Typed
<1>3. /\ turn' \in Turns /\ turn'.at \in {"idle", "owed"} /\ turn'.reply.kind = "none"
      /\ turn'.at = "owed" => turn'.msg \in Messages
      /\ turn'.relay = "none" /\ turn'.spent = 0
  BY <1>2, IdleIs DEF RollBack, Turns
<1>4. Typed'
  BY <1>1, <1>3, IdleIs, BudgetAssumption DEF IInv, Typed, Good, Limit
<1>5. Counted' /\ Remembered'
  BY <1>1, <1>3 DEF IInv, Counted, Remembered
<1> QED
  BY <1>4, <1>5 DEF IInv

LEMMA NextCallKeeps ==
  ASSUME IInv, NEW d, Good(d), NEW t \in Turns, t.round < MaxIterations, t.msg \in Messages,
         t.reply.kind \notin {"busy", "receipt"}, turn.at \notin {"idle", "owed"},
         t.pass = 0 => d.failures = before.failures, t.relay = "none" => t.spent <= Budget,
         t.relay # "none" => t.relay \in d.owed /\ t.pass = 0,
         NextCall(d, t)
  PROVE  IInv'
<1>1. db' = d /\ call' = NoCall /\ UNCHANGED <<before, price, durable, said, relayed, taken>>
  BY DEF NextCall
<1> DEFINE spent == IF t.relay = "none" THEN t.spent ELSE 0
<1>2. turn' = [t EXCEPT !.at = "call", !.round = t.round + 1, !.spent = spent]
  BY DEF NextCall, Turns
<1>7. spent \in Nat /\ spent <= IF t.relay = "none" THEN Budget ELSE Cap
  BY DEF Turns, Cap
<1> HIDE DEF spent
<1>3. t.round + 1 \in 0..MaxIterations
  BY BudgetAssumption DEF Turns
<1>4. /\ turn' \in Turns /\ turn'.at = "call" /\ turn'.msg = t.msg /\ turn'.reply = t.reply
      /\ turn'.pass = t.pass /\ turn'.relay = t.relay /\ turn'.spent = spent
  BY <1>2, <1>3, <1>7 DEF Turns
<1>5. Typed'
  BY <1>1, <1>4, <1>7, IdleIs DEF IInv, Typed, Good, Limit
<1>6. Counted' /\ Remembered'
  BY <1>1, <1>4 DEF IInv, Counted, Remembered
<1> QED
  BY <1>5, <1>6 DEF IInv

\* Whatever the loop gets written is safe to hand over: it is no apology for a failure.
LEMMA WrittenKeeps ==
  ASSUME IInv, turn.at \in {"call", "read"}, NEW d, Good(d), d.failures = db.failures,
         NEW r \in Replies, r.kind \notin {"busy", "receipt"}, Written(d, r)
  PROVE  IInv'
<1>1. CASE turn.relay = "none" /\ Guarded(Through(d), r)
  BY <1>1, ThroughKeeps, GuardedKeeps
<1>2. CASE turn.relay # "none" /\ PassOn(d, r)
  BY <1>2, PassOnKeeps
<1> QED
  BY <1>1, <1>2 DEF Written

LEMMA OrderlyReply ==
  ASSUME IInv, turn.at \in {"call", "read"}, NEW d, Good(d), d.failures = db.failures,
         NEW kind \in {"safe", "emergency", "options"}, Written(d, Says(kind))
  PROVE  IInv'
<1>1. Says(kind) \in Replies /\ Says(kind).kind = kind
  BY SaysIs DEF Kinds
<1> QED
  BY <1>1, WrittenKeeps

LEMMA LoopingKeeps ==
  ASSUME NEW d, Good(d), NEW m
  PROVE  LET e == Escalate(d, "repeated_agent_failure", "did not converge", m)
         IN  Good(e) /\ e.failures = d.failures
<1> DEFINE detail == "did not converge"
<1>1. detail \in Details /\ "repeated_agent_failure" \in Reasons
  BY ReasonsIn DEF Details
<1> HIDE DEF detail
<1>2. LET e == Escalate(d, "repeated_agent_failure", detail, m)
      IN  Good(e) /\ e.failures = d.failures
  BY <1>1, EscalateKeeps
<1> QED
  BY <1>2, Zenon DEF detail

LEMMA LoopKeeps ==
  ASSUME IInv, turn.at = "read", NEW d, Good(d), d.failures = db.failures,
         d.owed = db.owed, NEW t \in Turns, t.msg = turn.msg, t.pass = turn.pass,
         t.round = turn.round, t.reply = turn.reply, t.relay = turn.relay, t.spent = turn.spent,
         LoopAgain(d, t)
  PROVE  IInv'
<1>1. turn.msg \in Messages /\ turn.reply.kind \notin {"busy", "receipt"}
  BY DEF IInv, Typed, Remembered
<1>2. /\ t.pass = 0 => d.failures = before.failures
      /\ t.relay = "none" => t.spent <= Budget
      /\ t.relay # "none" => t.relay \in d.owed /\ t.pass = 0
  BY DEF IInv, Typed, Counted, Limit
<1>3. CASE t.round < MaxIterations /\ NextCall(d, t)
  BY <1>1, <1>2, <1>3, NextCallKeeps
<1>4. CASE NotConverged(d)
  BY <1>4, LoopingKeeps, OrderlyReply DEF NotConverged
<1> QED
  BY <1>3, <1>4 DEF LoopAgain

-----------------------------------------------------------------------------
(* The actions *)

LEMMA HandleKeeps ==
  ASSUME IInv, turn.at \in {"idle", "owed"}, taken' \in 0..MaxTurns,
         NEW m \in Messages, Handle(m)
  PROVE  IInv'
<1>1. Good(db) /\ turn \in Turns
  BY DEF IInv, Typed
<1>2. CASE Alarm(m)
  <2> DEFINE d == Escalate(db, "accident", m.text, m)
  <2>1. Good(d)
    BY <1>1, EscalateKeeps, ReasonsIn DEF Details
  <2> QED
    BY <1>2, <2>1, SaysIs, SendKeeps DEF Alarm, Kinds
<1>3. CASE StaysUrgent(m)
  BY <1>1, <1>3, SaysIs, SendKeeps DEF StaysUrgent, Kinds
<1>4. CASE Pays(m)
  <2>1. CASE Send(db, Says("cannot"))
    BY <1>1, <2>1, SaysIs, SendKeeps DEF Kinds
  <2>2. ASSUME NEW r \in Refs, Send(Linked(db, r), [Says("receipt") EXCEPT !.refs = {r}])
        PROVE  IInv'
    <3>1. Good(Linked(db, r))
      BY <1>1, LinkedKeeps
    <3>2. /\ [Says("receipt") EXCEPT !.refs = {r}] \in Replies
          /\ [Says("receipt") EXCEPT !.refs = {r}].kind = "receipt"
      BY SaysIs DEF Replies, Kinds
    <3> QED
      BY <2>2, <3>1, <3>2, SendKeeps
  <2> QED
    BY <1>4, <2>1, <2>2 DEF Pays
<1>5. CASE Starts(m)
  <2>1. call' = NoCall /\ UNCHANGED <<db, before, price, durable, said, relayed>>
    BY <1>5 DEF Starts
  <2>2. turn' = [Idle EXCEPT !.msg = m, !.at = "call", !.round = 1, !.heard = FALSE,
                             !.tries = turn.tries + 1]
    BY <1>5 DEF Starts
  <2>3. /\ turn' \in Turns /\ turn'.at = "call" /\ turn'.msg = m /\ turn'.reply.kind = "none"
        /\ turn'.relay = "none" /\ turn'.spent = 0
    <3>1. 1 \in 0..MaxIterations /\ turn.tries + 1 \in Nat
      BY <1>1, BudgetAssumption DEF Turns
    <3> QED
      BY <2>2, <3>1, IdleIs DEF Turns
  <2>4. Typed'
    BY <2>1, <2>3, IdleIs, BudgetAssumption DEF IInv, Typed, Good, Limit
  <2>5. Counted' /\ Remembered'
    BY <2>1, <2>3 DEF IInv, Remembered, Counted
  <2> QED
    BY <2>4, <2>5 DEF IInv
<1> QED
  BY <1>2, <1>3, <1>4, <1>5 DEF Handle

LEMMA ReceiveKeeps == ASSUME IInv, NEW m \in Messages, Receive(m) PROVE IInv'
<1>1. taken' \in 0..MaxTurns
  BY BudgetAssumption DEF Receive, IInv, Typed
<1> QED
  BY <1>1, HandleKeeps DEF Receive

LEMMA RetryKeeps == ASSUME IInv, Retry PROVE IInv'
<1>1. turn.msg \in Messages /\ taken' \in 0..MaxTurns
  BY DEF Retry, IInv, Typed
<1> QED
  BY <1>1, HandleKeeps DEF Retry

\* A step of the provider's sweep: nothing but the turn's clock and the sweep move.
LEMMA SweepKeeps ==
  ASSUME IInv, turn.at = "call", NEW at \in {"call", "read"}, NEW spent \in 0..Limit,
         turn' = [turn EXCEPT !.at = at, !.spent = spent], call' \in Sweeps,
         UNCHANGED <<db, before, price, durable, said, relayed, taken>>
  PROVE  IInv'
<1>1. turn \in Turns /\ turn.reply.kind \notin {"busy", "receipt"}
  BY DEF IInv, Typed, Remembered
<1>0. spent \in Nat /\ spent <= Limit
  BY LimitIs
<1>2. /\ turn' \in Turns /\ turn'.spent = spent /\ turn'.relay = turn.relay /\ turn'.at = at /\ turn'.msg = turn.msg /\ turn'.reply = turn.reply
      /\ turn'.pass = turn.pass
  BY <1>0, <1>1 DEF Turns
<1>3. Typed'
  BY <1>0, <1>1, <1>2 DEF IInv, Typed, Good, Limit
<1>4. Counted' /\ Remembered'
  BY <1>1, <1>2 DEF IInv, Counted, Remembered
<1> QED
  BY <1>3, <1>4 DEF IInv

LEMMA AnswersKeeps == ASSUME IInv, NEW ticks \in Durations, Answers(ticks) PROVE IInv'
<1>1. turn' = [turn EXCEPT !.at = "read", !.spent = turn.spent + Min({ticks, Left})]
  BY DEF Answers
<1> QED
  BY <1>1, LeftIs, IdleIs, SweepKeeps DEF Answers, Calling

LEMMA FailsKeeps ==
  ASSUME IInv, NEW ticks \in Durations, NEW kind, Fails(ticks, kind) PROVE IInv'
<1> DEFINE i == Min(Usables)
           now == turn.spent + Min({ticks, Left})
<1>1. turn \in Turns /\ call \in Sweeps
  BY DEF IInv, Typed
<1>2. turn.at = "call" /\ i \in DOMAIN Candidates
  BY FirstUsable DEF Fails, Calling
<1>3. now \in 0..Limit /\ now \in Nat
  BY LeftIs, LimitIs
<1>4. turn' = [turn EXCEPT !.spent = now]
  BY DEF Fails
<1>5. turn' = [turn EXCEPT !.at = "call", !.spent = now]
  BY <1>1, <1>2, <1>4 DEF Turns
<1>6. call' = [call EXCEPT !.next = i + 1,
                 !.exhausted = IF kind = "daily" THEN @ \cup {i} ELSE @,
                 !.until[i] = IF kind = "limited" THEN now + RetryDelay ELSE @]
  BY DEF Fails
<1> HIDE DEF i, now
<1>7. call' \in Sweeps
  <2>1. i + 1 \in 1..(Len(Candidates) + 1)
    BY <1>2, BudgetAssumption
  <2>2. now + RetryDelay \in Nat
    BY <1>3, BudgetAssumption
  <2> DEFINE ends == IF kind = "limited" THEN now + RetryDelay ELSE call.until[i]
             gone == IF kind = "daily" THEN call.exhausted \cup {i} ELSE call.exhausted
  <2>3. ends \in Nat /\ gone \in SUBSET DOMAIN Candidates
    BY <1>1, <1>2, <2>2 DEF Sweeps
  <2>4. call' = [call EXCEPT !.next = i + 1, !.exhausted = gone,
                             !.until = [call.until EXCEPT ![i] = ends]]
    BY <1>1, <1>2, <1>6 DEF Sweeps
  <2> HIDE DEF ends, gone
  <2> QED
    BY <1>1, <2>1, <2>3, <2>4 DEF Sweeps
<1> QED
  BY <1>2, <1>3, <1>5, <1>7, SweepKeeps DEF Fails

LEMMA PausesKeeps == ASSUME IInv, Pauses PROVE IInv'
<1>1. turn \in Turns /\ call \in Sweeps
  BY DEF IInv, Typed
<1>2. turn.spent + PauseTicks \in 0..Limit
  BY <1>1, PauseIs, LimitIs DEF Pauses, GivesUp, Remaining, Floor, Turns
<1>3. turn' = [turn EXCEPT !.at = "call", !.spent = turn.spent + PauseTicks]
  BY <1>1 DEF Pauses, Turns
<1>4. call' \in Sweeps
  <2>1. call.sweep + 1 \in 0..MaxRetries /\ 1 \in 1..(Len(Candidates) + 1)
    BY <1>1, BudgetAssumption DEF Pauses, GivesUp, Sweeps
  <2>2. call' = [call EXCEPT !.sweep = call.sweep + 1, !.next = 1]
    BY DEF Pauses
  <2> QED
    BY <1>1, <2>1, <2>2 DEF Sweeps
<1> QED
  BY <1>2, <1>3, <1>4, SweepKeeps DEF Pauses

LEMMA BreaksKeeps == ASSUME IInv, Breaks PROVE IInv'
  BY RollBackKeeps DEF Breaks, Calling

LEMMA ApologyKeeps == ASSUME IInv, turn.at = "call", turn.pass = 0, turn.relay = "none", Apology(db) PROVE IInv'
<1> DEFINE counted == [db EXCEPT !.failures = IF @ < BeforeHandover THEN @ + 1 ELSE @]
           raised == Escalate(counted, "repeated_agent_failure", turn.msg.text, turn.msg)
<1>1. Good(db) /\ db.failures = before.failures /\ turn.msg \in Messages /\ db.failures \in 0..2
  BY DEF IInv, Typed, Counted, Good, Tables, BeforeHandover
<1>2. Good(counted) /\ counted.failures >= 1 /\ (counted.failures < 2 => db.failures = 0)
  <2> DEFINE n == IF db.failures < BeforeHandover THEN db.failures + 1 ELSE db.failures
  <2>1. n \in 0..2 /\ n >= 1 /\ (n < 2 => db.failures = 0)
    BY <1>1 DEF BeforeHandover
  <2>2. counted = [db EXCEPT !.failures = n]
    BY <1>1
  <2> HIDE DEF n, counted
  <2> QED
    BY <1>1, <2>1, <2>2 DEF Good, Tables, BeforeHandover
<1>3. said.reply.kind = "busy" => before.failures >= 1
  BY DEF IInv, Remembered
<1> HIDE DEF counted
<1>4. CASE counted.failures < BeforeHandover /\ Guarded(counted, Says("busy"))
  <2>1. said.reply.kind # "busy"
    BY <1>1, <1>2, <1>3, <1>4 DEF BeforeHandover
  <2>2. Says("busy") \in Replies /\ Says("busy").kind = "busy"
    BY SaysIs DEF Kinds
  <2> QED
    BY <1>2, <1>4, <2>1, <2>2, GuardedKeeps
<1>5. CASE Guarded(raised, [Says("down") EXCEPT !.staff = TRUE])
  <2>1. turn.msg.text \in Details
    BY <1>1 DEF Details
  <2>2. Good(raised)
    BY <1>2, <2>1, EscalateKeeps, ReasonsIn
  <2>3. /\ [Says("down") EXCEPT !.staff = TRUE] \in Replies
        /\ [Says("down") EXCEPT !.staff = TRUE].kind = "down"
    BY SaysIs DEF Replies, Kinds
  <2> HIDE DEF raised
  <2> QED
    BY <1>5, <2>2, <2>3, GuardedKeeps
<1> QED
  BY <1>4, <1>5, Zenon DEF Apology, counted, raised

LEMMA UnavailableKeeps == ASSUME IInv, Unavailable PROVE IInv'
<1>1. turn.at = "call" /\ Good(db)
  BY DEF Unavailable, IInv, Typed
<1>2. CASE Written(db, Says("options"))
  BY <1>1, <1>2, OrderlyReply
<1>3. CASE Finish(db, Says("safe"))
  BY <1>1, <1>3, SaysIs, FinishKeeps DEF Kinds
<1>4. CASE RollBack
  BY <1>1, <1>4, RollBackKeeps
<1>5. CASE turn.pass = 0 /\ turn.relay = "none" /\ Apology(db)
  BY <1>1, <1>5, ApologyKeeps
<1>6. CASE turn.relay # "none" /\ PassOn(db, Says("busy"))
  BY <1>1, <1>6, PassOnKeeps
<1> QED
  BY <1>2, <1>3, <1>4, <1>5, <1>6 DEF Unavailable

LEMMA ReadFacts ==
  ASSUME IInv, turn.at = "read"
  PROVE  /\ Good(db) /\ turn \in Turns /\ turn.msg \in Messages
         /\ turn.msg.text \in Details
  BY DEF IInv, Typed, Details

LEMMA HearsKeeps == ASSUME IInv, NEW e \in Extractions, Hears(e) PROVE IInv'
<1> DEFINE d == IF e.signal = "none" THEN Merged(db, e)
                ELSE Escalate(Merged(db, e), e.signal, turn.msg.text, turn.msg)
           t == [turn EXCEPT !.heard = TRUE]
<1>1. turn.at = "read"
  BY DEF Hears, Joins
<1>2. Good(d) /\ d.failures = db.failures /\ d.owed = db.owed
  <2>1. /\ Good(Merged(db, e)) /\ Merged(db, e).failures = db.failures
        /\ Merged(db, e).owed = db.owed
    BY <1>1, ReadFacts, MergedKeeps
  <2>2. CASE e.signal # "none"
    <3>1. e.signal \in Reasons
      BY <2>2, ReasonsIn DEF Extractions
    <3> QED
      BY <1>1, <2>1, <2>2, <3>1, ReadFacts, EscalateKeeps
  <2> QED
    BY <2>1, <2>2
<1>3. /\ t \in Turns /\ t.msg = turn.msg /\ t.pass = turn.pass /\ t.round = turn.round
      /\ t.reply = turn.reply /\ t.at = turn.at /\ t.relay = turn.relay /\ t.spent = turn.spent
  BY <1>1, ReadFacts DEF Turns
<1>4. \/ /\ db' = d /\ turn' = t
         /\ UNCHANGED <<before, price, durable, call, said, relayed, taken>>
      \/ Written(d, Says("emergency"))
      \/ LoopAgain(d, t)
  BY Zenon DEF Hears
<1> HIDE DEF d, t
<1>5. CASE db' = d /\ turn' = t /\ UNCHANGED <<before, price, durable, call, said, relayed, taken>>
  <2>1. Typed'
    BY <1>1, <1>2, <1>3, <1>5, ReadFacts DEF IInv, Typed, Good, Limit
  <2>2. Counted' /\ Remembered'
    BY <1>1, <1>2, <1>3, <1>5 DEF IInv, Counted, Remembered
  <2> QED
    BY <2>1, <2>2 DEF IInv
<1>6. CASE Written(d, Says("emergency"))
  BY <1>1, <1>2, <1>6, OrderlyReply
<1>7. CASE LoopAgain(d, t)
  BY <1>1, <1>2, <1>3, <1>7, LoopKeeps
<1> QED
  BY <1>4, <1>5, <1>6, <1>7

LEMMA RefusesKeeps == ASSUME IInv, Refuses PROVE IInv'
<1> DEFINE d == Escalate(db, "repeated_agent_failure", "declined", turn.msg)
<1>1. turn.at = "read" /\ Written(d, Says("safe"))
  BY DEF Refuses, InHand
<1>0. "declined" \in Details /\ "repeated_agent_failure" \in Reasons
  BY ReasonsIn DEF Details
<1>2. Good(d) /\ d.failures = db.failures
  BY <1>0, <1>1, ReadFacts, EscalateKeeps
<1> HIDE DEF d
<1> QED
  BY <1>1, <1>2, OrderlyReply

LEMMA DraftIs == ASSUME NEW r \in Drafts PROVE r \in Replies /\ r.kind = "text"
<1>1. r \in [kind : {"text"}, done : {"no", "generic", "explicit"}, refs : SUBSET Refs,
             offers : BOOLEAN, car : Cars \cup {"none"}, amount : Nat, staff : BOOLEAN,
             later : BOOLEAN]
  BY ClaimsAssumption
<1> QED
  BY <1>1 DEF Replies, Kinds

LEMMA WritesKeeps == ASSUME IInv, NEW r \in Drafts, Writes(r) PROVE IInv'
<1>1. turn.at = "read" /\ Written(db, r)
  BY DEF Writes, InHand
<1> QED
  BY <1>1, ReadFacts, DraftIs, WrittenKeeps

\* A tool that ran: its rows are in order and no failure is forgotten.
LEMMA RanKeeps ==
  ASSUME IInv, InHand, NEW d, Good(d), d.failures = db.failures, d.owed = db.owed,
         NEW tool \in SUBSET {"link", "cancel"}, NEW search \in {"none", "found", "empty", "other"},
         Ran(d, tool, search)
  PROVE  IInv'
<1> DEFINE t == [turn EXCEPT !.tools = turn.tools \cup tool, !.search = search]
<1>1. turn.at = "read" /\ LoopAgain(d, t)
  BY DEF Ran, InHand
<1>2. /\ t \in Turns /\ t.msg = turn.msg /\ t.pass = turn.pass /\ t.round = turn.round
      /\ t.reply = turn.reply /\ t.relay = turn.relay /\ t.spent = turn.spent
  BY <1>1, ReadFacts DEF Turns
<1> HIDE DEF t
<1> QED
  BY <1>1, <1>2, LoopKeeps

LEMMA SearchesKeeps == ASSUME IInv, NEW date \in Dates, Searches(date) PROVE IInv'
<1> DEFINE d == [db EXCEPT !.calls = @ \cup {<<"search", date>>}]
<1>1. InHand /\ Good(db)
  BY DEF Searches, IInv, Typed
<1>2. <<"search", date>> \in Calls /\ <<"search", date>> # <<"escalate">>
  BY DEF Calls
<1>3. Good(d) /\ d.failures = db.failures /\ d.owed = db.owed
  BY <1>1, <1>2 DEF Good, Tables
<1>4. SearchesFound \in {"found", "other"} /\ SearchesEmpty \in {"empty", "other"}
  BY DEF SearchesFound, SearchesEmpty
<1>5. CASE Ran(d, {}, SearchesFound) \/ Ran(d, {}, SearchesEmpty)
  BY <1>1, <1>3, <1>4, <1>5, RanKeeps
<1>6. CASE Ran(db, {}, SearchesEmpty)
  BY <1>1, <1>4, <1>6, RanKeeps
<1> QED
  BY <1>5, <1>6 DEF Searches

LEMMA QuotesKeeps == ASSUME IInv, NEW date \in Dates, NEW car \in Cars, Quotes(date, car) PROVE IInv'
<1> DEFINE quote == <<"quote", date, car, price[car]>>
           d == [db EXCEPT !.calls = @ \cup {quote}, !.wanted = date]
<1>1. InHand /\ Good(db) /\ price[car] \in Prices /\ Ran(d, {}, "other")
  BY DEF Quotes, IInv, Typed
<1>2. quote \in Calls /\ quote # <<"escalate">>
  BY <1>1 DEF Calls
<1> HIDE DEF quote
<1>3. Good(d) /\ d.failures = db.failures /\ d.owed = db.owed
  BY <1>1, <1>2 DEF Good, Tables
<1> HIDE DEF d
<1> QED
  BY <1>1, <1>3, RanKeeps

LEMMA BooksKeeps == ASSUME IInv, NEW r \in Refs, Books(r) PROVE IInv'
<1>1. PICK s \in {"held", "confirmed"} : Ran([db EXCEPT !.status[r] = s], {}, "other")
  BY DEF Books
<1>2. Good(db) /\ InHand
  BY DEF Books, IInv, Typed
<1>3. /\ Good([db EXCEPT !.status[r] = s]) /\ [db EXCEPT !.status[r] = s].failures = db.failures
      /\ [db EXCEPT !.status[r] = s].owed = db.owed
  BY <1>2 DEF Good, Tables, Statuses
<1> QED
  BY <1>1, <1>2, <1>3, RanKeeps

LEMMA CancelsKeeps == ASSUME IInv, NEW r \in Refs, Cancels(r) PROVE IInv'
<1>1. Good(db) /\ InHand
  BY DEF Cancels, IInv, Typed
<1>2. /\ Good([db EXCEPT !.status[r] = "cancelled"])
      /\ [db EXCEPT !.status[r] = "cancelled"].failures = db.failures
      /\ [db EXCEPT !.status[r] = "cancelled"].owed = db.owed
  BY <1>1 DEF Good, Tables, Statuses
<1> QED
  BY <1>1, <1>2, RanKeeps DEF Cancels

LEMMA LinksKeeps == ASSUME IInv, NEW r \in Refs, Links(r) PROVE IInv'
<1>1. InHand /\ Ran(Linked(db, r), {"link"}, "other") /\ Good(db)
  BY DEF Links, IInv, Typed
<1> QED
  BY <1>1, LinkedKeeps, RanKeeps

LEMMA ErrsKeeps == ASSUME IInv, Errs PROVE IInv'
<1>1. InHand /\ Ran(db, {}, "other") /\ Good(db)
  BY DEF Errs, IInv, Typed
<1> QED
  BY <1>1, RanKeeps

LEMMA ReportsKeeps == ASSUME IInv, NEW reason \in Signals, Reports(reason) PROVE IInv'
<1> DEFINE d == Escalate(db, reason, turn.msg.text, turn.msg)
<1>1. InHand /\ turn.at = "read"
  BY DEF Reports, InHand
<1>2. Good(d) /\ d.failures = db.failures /\ d.owed = db.owed
  BY <1>1, ReadFacts, EscalateKeeps, ReasonsIn
<1>3. Written(d, Says("emergency")) \/ Ran(d, {}, "other")
  BY Zenon DEF Reports
<1> HIDE DEF d
<1>4. CASE Written(d, Says("emergency"))
  BY <1>1, <1>2, <1>4, OrderlyReply
<1>5. CASE Ran(d, {}, "other")
  BY <1>1, <1>2, <1>5, RanKeeps
<1> QED
  BY <1>3, <1>4, <1>5

LEMMA GuardFacts ==
  ASSUME IInv, turn.at = "guard"
  PROVE  LET d == IF NeedsAnswer(db, turn.msg)
                  THEN Escalate(db, "unconfirmed_figure", turn.msg.text, turn.msg) ELSE db
         IN  Good(d) /\ d.failures = db.failures
<1>1. Good(db) /\ turn.msg.text \in Details
  BY DEF IInv, Typed, Details
<1> QED
  BY <1>1, EscalateKeeps, ReasonsIn

\* The turn that writes its reply once more.
LEMMA AgainIs ==
  ASSUME NEW t \in Turns, NEW reply \in Replies
  PROVE  LET u == [t EXCEPT !.pass = 1, !.round = 0, !.search = "none", !.reply = reply]
         IN  /\ u \in Turns /\ u.round = 0 /\ u.pass = 1 /\ u.msg = t.msg
             /\ u.reply = reply /\ u.relay = t.relay /\ u.spent = t.spent
<1>1. 1 \in 0..1 /\ 0 \in 0..MaxIterations /\ "none" \in {"none", "found", "empty", "other"}
  BY BudgetAssumption
<1>2. [t EXCEPT !.pass = 1] \in Turns
  BY <1>1 DEF Turns
<1> QED
  BY <1>1, <1>2 DEF Turns

LEMMA GuardKeeps == ASSUME IInv, Guard PROVE IInv'
<1> DEFINE d == IF NeedsAnswer(db, turn.msg)
                THEN Escalate(db, "unconfirmed_figure", turn.msg.text, turn.msg) ELSE db
           r == IF NeedsAnswer(db, turn.msg)
                   /\ Raises(db, "unconfirmed_figure", turn.msg.text, turn.msg)
                THEN Says("recorded") ELSE turn.reply
           t == [turn EXCEPT !.pass = 1, !.round = 0, !.search = "none", !.reply = Says("none")]
<1>1. turn.at = "guard" /\ turn \in Turns /\ turn.msg \in Messages /\ turn.relay = "none"
  BY DEF Guard, IInv, Typed
<1>2. Good(d) /\ d.failures = db.failures
  BY <1>1, GuardFacts
<1>3. Finish(d, r) \/ Finish(d, Says("safe")) \/ NextCall(d, t)
  BY Zenon DEF Guard
<1>4. r \in Replies /\ (r.kind = "busy" => turn.reply.kind = "busy")
  BY <1>1, SaysIs DEF Kinds, Turns
<1>5. /\ t \in Turns /\ t.round = 0 /\ t.pass = 1 /\ t.msg = turn.msg
      /\ t.reply.kind = "none" /\ t.relay = "none" /\ t.spent = turn.spent
  <2>1. Says("none") \in Replies /\ Says("none").kind = "none" /\ 0 \in 0..MaxIterations
    BY SaysIs, BudgetAssumption DEF Kinds
  <2> QED
    BY <1>1, <2>1, AgainIs
<1> HIDE DEF d, r, t
<1>9. turn.spent <= Budget
  BY <1>1 DEF IInv, Typed, Limit
<1>6. CASE Finish(d, r)
  BY <1>2, <1>4, <1>6, FinishKeeps DEF IInv, Remembered
<1>7. CASE Finish(d, Says("safe"))
  BY <1>2, <1>7, SaysIs, FinishKeeps DEF Kinds
<1>8. CASE NextCall(d, t)
  BY <1>1, <1>2, <1>5, <1>8, <1>9, BudgetAssumption, NextCallKeeps
<1> QED
  BY <1>3, <1>6, <1>7, <1>8

\* A step beside the turns, committed at once.
LEMMA RestKeeps ==
  ASSUME IInv, AtRest, Good(db'), before' = db', db'.failures = db.failures,
         db.owed \subseteq db'.owed, price' \in [Cars -> Prices],
         UNCHANGED <<durable, turn, call, said, relayed, taken>>
  PROVE  IInv'
<1>1. Typed'
  BY DEF IInv, Typed, Good, Limit
<1>2. Counted' /\ Remembered'
  BY DEF IInv, Counted, Remembered, AtRest
<1> QED
  BY <1>1, <1>2 DEF IInv

LEMMA DecidesKeeps ==
  ASSUME IInv, NEW r \in Refs, NEW s \in {"confirmed", "declined"}, Decides(r, s) PROVE IInv'
<1>1. Good(db) /\ price' \in [Cars -> Prices] /\ before' = db'
  BY DEF Decides, IInv, Typed
<1>2. db' = [db EXCEPT !.status[r] = s, !.owed = db.owed \cup {r}]
  BY DEF Decides
<1>3. db.owed \cup {r} \in SUBSET (Refs \cup {"case"})
  BY <1>1 DEF Good, Tables
<1>4. Good(db') /\ db'.failures = db.failures /\ db.owed \subseteq db'.owed
  BY <1>1, <1>2, <1>3 DEF Good, Tables, Statuses
<1> QED
  BY <1>1, <1>4, RestKeeps DEF Decides

LEMMA SettlesKeeps == ASSUME IInv, Settles PROVE IInv'
<1>1. Good(db) /\ price' \in [Cars -> Prices] /\ before' = db'
  BY DEF Settles, IInv, Typed
<1>2. db' = [db EXCEPT !.owed = db.owed \cup {"case"}]
  BY DEF Settles
<1>3. Good(db') /\ db'.failures = db.failures /\ db.owed \subseteq db'.owed
  BY <1>1, <1>2 DEF Good, Tables
<1> QED
  BY <1>1, <1>3, RestKeeps DEF Settles

LEMMA RelaysKeeps == ASSUME IInv, NEW c \in db.owed, NEW m \in Messages, Relays(c, m) PROVE IInv'
<1>1. /\ turn.at = "idle" /\ call' = NoCall
      /\ UNCHANGED <<db, before, price, durable, said, relayed, taken>>
  BY DEF Relays
<1>2. turn' = [Idle EXCEPT !.msg = m, !.at = "call", !.round = 1, !.relay = c]
  BY DEF Relays
<1>3. c \in Refs \cup {"case", "none"} /\ 1 \in 0..MaxIterations
  BY BudgetAssumption DEF IInv, Typed, Good, Tables
<1>4. /\ turn' \in Turns /\ turn'.at = "call" /\ turn'.msg = m /\ turn'.reply.kind = "none"
      /\ turn'.relay = c /\ turn'.spent = 0 /\ turn'.pass = 0
  BY <1>2, <1>3, IdleIs DEF Turns, Idle
<1>5. Typed'
  BY <1>1, <1>4, IdleIs, BudgetAssumption DEF IInv, Typed, Good, Limit, Cap
<1>6. Counted' /\ Remembered'
  BY <1>1, <1>4 DEF IInv, Counted, Remembered
<1> QED
  BY <1>5, <1>6 DEF IInv

LEMMA RepricesKeeps ==
  ASSUME IInv, NEW car \in Cars, NEW p \in Prices, Reprices(car, p) PROVE IInv'
<1>1. /\ Good(db') /\ before' = db' /\ db'.failures = db.failures /\ db'.owed = db.owed
      /\ price' \in [Cars -> Prices]
  BY DEF Reprices, AtRest, IInv, Typed, Counted, Good
<1> QED
  BY <1>1, RestKeeps DEF Reprices

LEMMA StartsWell == Init => IInv
<1> SUFFICES ASSUME Init PROVE IInv
  OBVIOUS
<1>1. Good(db) /\ db.failures = 0
  BY DEF Init, Good, Tables, Statuses, BeforeHandover
<1>2. Silent \in [n : 0..MaxTurns, reply : Replies] /\ Silent.reply.kind = "none"
  BY SaysIs, BudgetAssumption DEF Silent, Kinds
<1>3. Typed
  BY <1>1, <1>2, IdleIs, BudgetAssumption DEF Init, Typed, Limit
<1> QED
  BY <1>2, <1>3, IdleIs DEF Init, IInv, Counted, Remembered

LEMMA StepKeeps == ASSUME IInv, Step PROVE IInv'
  BY RetryKeeps, BreaksKeeps, PausesKeeps, UnavailableKeeps, RefusesKeeps, ErrsKeeps, GuardKeeps,
     AnswersKeeps, FailsKeeps, HearsKeeps, WritesKeeps, SearchesKeeps, QuotesKeeps, BooksKeeps,
     CancelsKeeps, LinksKeeps, ReportsKeeps DEF Step

LEMMA NextKeeps == IInv /\ [Next]_vars => IInv'
<1> SUFFICES ASSUME IInv, [Next]_vars PROVE IInv'
  OBVIOUS
<1>1. CASE UNCHANGED vars
  BY <1>1 DEF vars, IInv, Typed, Good, Limit, Counted, Remembered
<1>2. CASE Next
  BY <1>2, StepKeeps, SettlesKeeps, ReceiveKeeps, DecidesKeeps, RelaysKeeps, RepricesKeeps DEF Next
<1> QED
  BY <1>1, <1>2

LEMMA Invariant == Spec => []IInv
  BY StartsWell, NextKeeps, PTL DEF Spec

\* TypeOK: rows, turn and sweep keep their types, and no turn is given more time than
\* its budget, whatever the models answer and however often it calls them (_generate).
THEOREM AgentTypeCorrect == Spec => []TypeOK
<1>1. IInv => TypeOK
  <2> SUFFICES ASSUME IInv PROVE TypeOK
    OBVIOUS
  <2>1. db \in Tables
    BY DEF IInv, Typed, Good
  <2>2. Range(db.links) \subseteq Refs
    BY <2>1 DEF Tables, Range
  <2>3. /\ db.status \in [Refs -> {"none", "held", "confirmed", "declined", "cancelled"}]
        /\ db.failures \in 0..BeforeHandover /\ db.reason \in Reasons \cup {"none"}
        /\ db.wanted \in Dates \cup {"none"}
    BY <2>1 DEF Tables, Statuses
  <2>4. /\ turn.at \in {"idle", "owed", "call", "read", "guard"}
        /\ turn.spent \in 0..Limit /\ turn.round \in 0..MaxIterations /\ turn.pass \in 0..1
    BY LimitIs DEF IInv, Typed, Turns
  <2>5. /\ call.sweep \in 0..MaxRetries /\ call.next \in 1..(Len(Candidates) + 1)
        /\ taken \in 0..MaxTurns /\ said.n \in 0..MaxTurns
    BY DEF IInv, Typed, Sweeps
  <2>6. db.owed \subseteq Refs \cup {"case"} /\ (turn.relay # "none" => turn.relay \in db.owed)
    BY <2>1 DEF IInv, Typed, Tables
  <2> QED
    BY <2>2, <2>3, <2>4, <2>5, <2>6 DEF TypeOK
<1> QED
  BY <1>1, Invariant, PTL

-----------------------------------------------------------------------------
(* What leaves holds in the rows it leaves with *)

Holds(d, r) ==
    /\ r.done = "explicit" \/ r.kind = "receipt" => DoneIn(d, r)
    /\ r.offers => OfferedIn(d)
    /\ PricedIn(d, r)
    /\ r.staff => \E e \in d.ledger : e[2]

\* Words that claim nothing hold anywhere.
LEMMA PlainHolds == ASSUME NEW d, NEW kind \in Kinds \ {"receipt"} PROVE Holds(d, Says(kind))
  BY SaysIs DEF Holds, PricedIn

LEMMA ReceiptHolds ==
  ASSUME NEW d, NEW r \in Refs, d.status[r] = "confirmed"
  PROVE  Holds(d, [Says("receipt") EXCEPT !.refs = {r}])
<1> DEFINE receipt == [Says("receipt") EXCEPT !.refs = {r}]
<1>1. /\ receipt.refs = {r} /\ receipt.offers = FALSE /\ receipt.amount = 0
      /\ receipt.staff = FALSE
  BY SaysIs DEF Replies, Kinds
<1> HIDE DEF receipt
<1>2. DoneIn(d, receipt)
  BY <1>1 DEF DoneIn, Confirmed
<1>3. Holds(d, receipt)
  BY <1>1, <1>2 DEF Holds, PricedIn
<1> QED
  BY <1>3, Zenon DEF receipt

LEMMA ReceiptedHolds ==
  ASSUME NEW d, Good(d), NEW r, Holds(d, r), NEW tools
  PROVE  Holds(d, Receipted(d, r, tools))
<1>1. CASE Receipted(d, r, tools) \in {Says("changed"), Says("cancelled"), r}
  BY <1>1, PlainHolds DEF Kinds
<1>2. CASE CurrentLink(d) /\ Receipted(d, r, tools) = [Says("receipt") EXCEPT !.refs = {Last(d.links)}]
  <2>1. Last(d.links) \in Refs /\ d.status[Last(d.links)] = "confirmed"
    BY <1>2 DEF Good, Tables, CurrentLink, Last
  <2> QED
    BY <1>2, <2>1, ReceiptHolds
<1> QED
  BY <1>1, <1>2, Zenon DEF Receipted

LEMMA CallsAre ==
  ASSUME NEW c \in Calls
  PROVE  /\ c[1] \in {"search", "quote"} => c[1] # "escalate"
         /\ c[1] = "quote" => \E date \in Dates : c = <<"quote", date, c[3], c[4]>>
<1>1. CASE c = <<"escalate">>
  BY <1>1
<1>2. CASE c \in {"search"} \X Dates
  BY <1>2
<1>3. CASE \E date \in Dates, car \in Cars, p \in Prices : c = <<"quote", date, car, p>>
  BY <1>3
<1> QED
  BY <1>1, <1>2, <1>3 DEF Calls

\* The guard asks other questions than the property does; its answers imply it.
LEMMA NoIssuesHolds ==
  ASSUME NEW d, Good(d), NEW r \in Replies, r.kind # "receipt", ~ Issues(d, r)
  PROVE  Holds(d, r)
<1>1. ~ Invented(d, r) /\ ~ Unchecked(d, r) /\ ~ Unbacked(d, r) /\ ~ Unrecorded(d, r)
  BY DEF Issues
<1>2. r.done = "explicit" => DoneIn(d, r)
  <2> SUFFICES ASSUME r.done = "explicit" PROVE DoneIn(d, r)
    OBVIOUS
  <2> DEFINE named == {ref \in r.refs : d.status[ref] # "none"}
  <2>1. Backing(d, r.refs) = "confirmed"
    BY <1>1 DEF Unbacked
  <2>2. CASE named # {}
    <3>1. \A ref \in named : d.status[ref] = "confirmed"
      BY <2>1, <2>2 DEF Backing
    <3>2. named \subseteq Refs
      BY DEF Replies
    <3> QED
      BY <2>2, <3>1, <3>2 DEF DoneIn, Confirmed
  <2>3. CASE named = {}
    BY <2>1, <2>3 DEF Backing, DoneIn
  <2> QED
    BY <2>2, <2>3
<1>3. r.offers => OfferedIn(d)
  <2> SUFFICES ASSUME r.offers, d.wanted # "none"
               PROVE  \E c \in d.calls : c[1] # "escalate" /\ c[2] = d.wanted
    BY DEF OfferedIn
  <2>1. PICK c \in d.calls : c[1] \in {"search", "quote"} /\ c[2] = d.wanted
    BY <1>1 DEF Unchecked, Checked
  <2> QED
    BY <2>1
<1>4. PricedIn(d, r)
  <2> SUFFICES ASSUME r.amount # 0, r.car # "none"
               PROVE  \E date \in Dates : <<"quote", date, r.car, r.amount>> \in d.calls
    BY DEF PricedIn
  <2>1. PICK c \in d.calls : c[1] = "quote" /\ c[3] = r.car /\ c[4] = r.amount
    BY <1>1 DEF Invented, Supported
  <2>2. c \in Calls
    BY DEF Good, Tables
  <2> QED
    BY <2>1, <2>2, CallsAre
<1>5. r.staff => \E e \in d.ledger : e[2]
  BY <1>1 DEF Unrecorded, Good
<1> QED
  BY <1>2, <1>3, <1>4, <1>5 DEF Holds

LEMMA SendSays ==
  ASSUME NEW d, NEW r, Send(d, r) PROVE db' = d /\ said'.reply = r
  BY DEF Send

LEMMA HandleSays ==
  ASSUME IInv, NEW m \in Messages, Handle(m), said' # said
  PROVE  Holds(db', said'.reply) /\ said'.reply.kind # "busy"
<1>1. CASE Alarm(m)
  BY <1>1, SendSays, PlainHolds, SaysIs DEF Alarm, Kinds
<1>2. CASE StaysUrgent(m)
  BY <1>2, SendSays, PlainHolds, SaysIs DEF StaysUrgent, Kinds
<1>3. CASE Pays(m)
  <2>1. CASE Send(db, Says("cannot"))
    BY <2>1, SendSays, PlainHolds, SaysIs DEF Kinds
  <2>2. ASSUME NEW r \in Refs, db.status[r] = "confirmed",
               Send(Linked(db, r), [Says("receipt") EXCEPT !.refs = {r}])
        PROVE  Holds(db', said'.reply) /\ said'.reply.kind # "busy"
    <3>1. Linked(db, r).status = db.status
      BY DEF Linked, IInv, Typed, Good, Tables
    <3>2. [Says("receipt") EXCEPT !.refs = {r}].kind = "receipt"
      BY SaysIs DEF Replies, Kinds
    <3>3. Holds(Linked(db, r), [Says("receipt") EXCEPT !.refs = {r}])
      BY <2>2, <3>1, ReceiptHolds
    <3>4. db' = Linked(db, r) /\ said'.reply = [Says("receipt") EXCEPT !.refs = {r}]
      BY <2>2, SendSays
    <3> QED
      BY <3>2, <3>3, <3>4
  <2> QED
    BY <1>3, <2>1, <2>2 DEF Pays
<1>4. CASE Starts(m)
  BY <1>4 DEF Starts
<1> QED
  BY <1>1, <1>2, <1>3, <1>4 DEF Handle

LEMMA FinishSays ==
  ASSUME NEW d, Good(d), NEW r \in Replies, Holds(d, r), Finish(d, r)
  PROVE  Holds(db', said'.reply) /\ (said'.reply.kind = "busy" => r.kind = "busy")
  BY SendSays, ReceiptedHolds, ReceiptedIs DEF Finish

LEMMA GuardSays ==
  ASSUME IInv, Guard, said' # said
  PROVE  Holds(db', said'.reply) /\ (said'.reply.kind = "busy" => turn.reply.kind = "busy")
<1> DEFINE d == IF NeedsAnswer(db, turn.msg)
                THEN Escalate(db, "unconfirmed_figure", turn.msg.text, turn.msg) ELSE db
           r == IF NeedsAnswer(db, turn.msg)
                   /\ Raises(db, "unconfirmed_figure", turn.msg.text, turn.msg)
                THEN Says("recorded") ELSE turn.reply
           t == [turn EXCEPT !.pass = 1, !.round = 0, !.search = "none", !.reply = Says("none")]
<1>1. Good(d)
  BY GuardFacts DEF Guard
<1>2. /\ r \in Replies /\ r.kind # "receipt"
      /\ r.kind = "busy" => turn.reply.kind = "busy"
  BY SaysIs DEF Kinds, Turns, IInv, Typed
<1>3. \/ ~ Issues(d, r) /\ Finish(d, r)
      \/ Finish(d, Says("safe")) \/ NextCall(d, t)
  BY Zenon DEF Guard
<1> HIDE DEF d, r, t
<1>4. CASE ~ Issues(d, r) /\ Finish(d, r)
  BY <1>1, <1>2, <1>4, NoIssuesHolds, FinishSays
<1>5. CASE Finish(d, Says("safe"))
  BY <1>1, <1>5, SaysIs, PlainHolds, FinishSays DEF Kinds
<1>6. CASE NextCall(d, t)
  BY <1>6 DEF NextCall
<1> QED
  BY <1>3, <1>4, <1>5, <1>6

LEMMA UnavailableSays ==
  ASSUME IInv, Unavailable, said' # said
  PROVE  Holds(db', said'.reply) /\ said'.reply.kind # "busy"
<1>1. Finish(db, Says("safe"))
  BY DEF Unavailable, Written, PassOn, Guarded, RollBack, Apology
<1>2. Good(db) /\ Says("safe") \in Replies /\ Says("safe").kind = "safe"
  BY SaysIs DEF IInv, Typed, Kinds
<1> QED
  BY <1>1, <1>2, PlainHolds, FinishSays DEF Kinds

\* A reply leaves from the guard, from a turn whose model is out of reach, or at once.
LEMMA SaysOnly ==
  ASSUME IInv, Next, said' # said
  PROVE  Guard \/ Unavailable \/ \E m \in Messages : Handle(m)
<1>1. ~ Breaks /\ ~ Pauses /\ ~ Refuses /\ ~ Errs /\ ~ Settles
  BY DEF Breaks, RollBack, Pauses, Refuses, Errs, Settles, Written, PassOn, Guarded, Ran, LoopAgain, NextCall,
         NotConverged
<1>2. \A x : ~ Answers(x) /\ \A k : ~ Fails(x, k)
  BY DEF Answers, Fails
<1>3. \A e : ~ Hears(e)
  BY DEF Hears, Written, PassOn, Guarded, LoopAgain, NextCall, NotConverged
<1>4. \A r : ~ Writes(r) /\ ~ Books(r) /\ ~ Cancels(r) /\ ~ Links(r) /\ ~ Reports(r)
  BY DEF Writes, Books, Cancels, Links, Reports, Written, PassOn, Guarded, Ran, LoopAgain,
         NextCall, NotConverged
<1>5. \A x : ~ Searches(x) /\ \A y : ~ Quotes(x, y) /\ ~ Decides(x, y) /\ ~ Reprices(x, y)
          /\ ~ Relays(x, y)
  BY DEF Searches, Quotes, Decides, Reprices, Relays, Ran, LoopAgain, NextCall, NotConverged,
         Written, PassOn, Guarded
<1>6. Retry => turn.msg \in Messages
  BY DEF Retry, IInv, Typed
<1> QED
  BY <1>1, <1>2, <1>3, <1>4, <1>5, <1>6 DEF Next, Step, Receive, Retry

\* SaidOnEvidence: that a booking is done, a payment due, a car free, a figure right or a
\* colleague called is true of the committed rows when the reply that says so leaves
\* (_guard_outbound), whatever the model wrote and did, before and after the rewriting.
THEOREM RepliesHold == Spec => SaidOnEvidence
<1>1. IInv /\ [Next]_vars =>
        [said' # said =>
           LET r == said'.reply
           IN  /\ r.done = "explicit" \/ r.kind = "receipt" => DoneIn(db', r)
               /\ r.offers => OfferedIn(db')
               /\ PricedIn(db', r)
               /\ r.staff => \E e \in db'.ledger : e[2]]_vars
  <2> SUFFICES ASSUME IInv, Next, said' # said PROVE Holds(db', said'.reply)
    BY Zenon DEF Holds
  <2> QED
    BY SaysOnly, GuardSays, UnavailableSays, HandleSays
<1> QED
  BY <1>1, Invariant, PTL DEF Spec, SaidOnEvidence

\* NeverTwiceSorry: a turn that ends with the request to send the message again is not
\* followed by a turn that ends so too (_provider_unavailable): the failure on record
\* survives every turn that ends without a better reply, every rollback, and every decision
\* that is passed on between, which neither counts nor clears.
THEOREM SorryOnce == Spec => NeverTwiceSorry
<1>1. IInv /\ [Next]_vars =>
        [said' # said /\ said'.reply.kind = "busy" => said.reply.kind # "busy"]_vars
  <2> SUFFICES ASSUME IInv, Next, said' # said, said'.reply.kind = "busy"
               PROVE  said.reply.kind # "busy"
    OBVIOUS
  <2>1. Guard /\ turn.reply.kind = "busy"
    BY SaysOnly, GuardSays, UnavailableSays, HandleSays
  <2> QED
    BY <2>1 DEF Guard, IInv, Remembered
<1> QED
  BY <1>1, Invariant, PTL DEF Spec, NeverTwiceSorry

==============================================================================
