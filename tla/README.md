# Verification of the WhatsApp rental agent

This directory models the rental agent in `src/rental_agent` in TLA+: what the program does to its
bookings, requests, payments, messages and lessons when customers, workers, the owner, the rental desk,
Stripe and the language model act side by side. TLC checks the models on small instances; TLAPS proves
theorems about them for every size.

    tlc -workers 2 -config MCBookings.cfg MCBookings
    tlapm BookingsProofs.tla

`PROJECT.json` lists the runs, the mutants that show each property can fail, the source lines each
definition stands for, the findings, the hazards and the theorems.

## 1. The system

A customer writes on WhatsApp. Meta calls a webhook, which stores the message and acknowledges it.
A worker runs one *turn* per message: a language model chooses tools, the tools read and change the
database, the turn queues a reply, and the worker sends it. The owner of the fleet is a WhatsApp
contact too and decides what the agent may not. Stripe reports payments. The phone and the counter
book the same cars. Conversations that have ended are judged, and what went wrong becomes lessons.

| component | state | operations | talks to |
|---|---|---|---|
| booking tools (`services/booking.py`, `tools/registry.py`) | reservations, quotes, counters, conversation state | quote, reserve, modify, extend, cancel; hold, confirm, withdraw and expire a request | provider, engine, store |
| booking provider (`booking_provider/`) | operations under an idempotency key | validate_quote, reserve, resolve, record_external_booking | store, engine |
| engine (`engine/`) | none: pure functions of the fleet and the rules | availability, search, quotes | fleet file |
| store (`store/`) | PostgreSQL tables | row locks, counters, unique keys | all |
| durable queue (`whatsapp/jobs.py`, `webhook.py`, `run_worker.py`) | `work_items` | receive, pick, handle, deliver, fail, retry | Meta, all handlers |
| handover (`services/handover.py`, `escalation.py`), outcomes (`services/outcomes.py`) | escalations, a tag per conversation | open, notify, remind, decide, relay, close | owner, queue |
| payments (`services/payments.py`, `payments/`) | receipts in a reservation's history | link, paid, expired, refunded, review | Stripe, queue |
| tool ledger (`services/idempotency.py`) | tool calls under a key | run once, replay | tools |
| checkout and documents (`services/checkout.py`, `documents.py`) | flow in the conversation, documents | observe, accept, check, purge | tools, worker |
| learning cycle (`evaluation/`) | mistakes, regression cases, strategies | judge, propose, replay, promote, activate, roll back | agent |
| fleet refresh (`sources/refresh.py`, `config.py`) | fleet files, a cache per process | collect, validate, replace, reload, retry | engine |
| agent loop (`agent/`) | conversation state, tool calls, messages | one turn | model, tools |

What is hard here, and what makes each part correct:

- **Bookings.** Turns of different customers are concurrent transactions at READ COMMITTED. A tool
  reads, waits for a lock and writes. No car may be booked twice for one moment, a total must be that
  of the booked dates, a repeated "yes" makes one booking, a failed turn leaves nothing behind.
- **Queue.** Meta redelivers, workers die, sends fail after they have succeeded, replies wait for
  the 24-hour window. A customer's messages are handled in order and once, each has its reply, a
  failure holds up only its own lane, and what is acknowledged is handled in the end.
- **Requests and handover.** The owner approves, the customer changes or withdraws, a clock expires the
  request, in any order. A withdrawn request must not come back, two approvals must not share a car,
  and every question ends.
- **Payments.** Stripe's events come late, twice and out of order, beside turns that rewrite the same
  row. One payment at most, of the total as it is then; what was paid becomes known and stays so.
- **Checkout.** A booking rests on terms that were read and accepted and are still what is booked; quotes
  run out, the policy changes and documents are purged in between.
- **Learning.** A replay takes an hour beside promotions and rollbacks. Nothing goes live unproven.
- **Fleet.** A process may die in the middle of a file. One whole fleet survives, no night is missed.
- **Agent.** The model may write anything, late or never. What leaves must hold in the rows it leaves with.

## 2. Modules

| module | what it is |
|---|---|
| `Inventory` | abstract: what the provider promises. One step replaces one customer's bookings and no two clash. |
| `Bookings` | the tools and the provider as transactions with row locks. Implements `Inventory`. |
| `BookingsProofs` | types, ledger, prices, overlaps, deadlocks and the refinement of `Inventory`, proved |
| `Dialogue` | abstract: what a sender may rely on. Said, answered in order, once. |
| `WorkQueue` | the durable inbox and outbox with its workers. Implements `Dialogue`. |
| `WorkQueueProofs` | order, answers, outbox, owed replies and the refinement of `Dialogue`, proved |
| `Enquiry` | abstract: what becomes of a request. It waits, may lapse, and ends once. |
| `Requests` | requests that wait for the owner, cases, routing of messages, the tag of a conversation. Implements `Enquiry`. |
| `RequestsProofs` | one question at a time, no shared car, final answers and the refinement of `Enquiry`, proved |
| `Payments`, `PaymentsProofs` | checkouts at Stripe and the booking's row; one payment at most, none kept, proved |
| `Checkout`, `CheckoutProofs` | the gates before a booking and before its payment; agreement, proved |
| `Learning`, `LearningProofs` | from a judged conversation to the version that serves; only the proven goes live and nothing teachable is lost, proved |
| `Fleet`, `FleetProofs` | the nightly refresh, its two files and the caches; a whole file, no night missed, proved |
| `Agent`, `AgentProofs` | one turn from the message to the reply that leaves; what it claims holds, proved |
| `MC...` | small instances of each for TLC |

The modules meet where the components do. `WorkQueue` shows that turns of one customer do not overlap
and that a turn with its effects is undone as one; `Bookings` (theorems with `Lanes`), `Requests`
(`Serial`), `Checkout` and `Agent` take that up. `Requests` is the composition of the holds with the
handover, the maintenance job and the outcomes, which share rows. `Payments` and `Requests` share the
reservation's row and the way a session merges it (`Merged`, `Written`): a session keeps a row as it
first loaded it and writes back the columns it sets.

### Bookings

A *session* is a customer's turn or a desk. `pc` says where its tool is; "ready" is between two
tools. The tables have two versions: `db` and `quoteDb` are committed, `latest` and `quotes` carry
the uncommitted writes of whoever holds the row (`rowLock`) or the quote counter (`quoteLock`).
`Visible(s)` is what a plain read of session `s` returns under READ COMMITTED: its own writes over what
is committed. A statement that locks a row is an action enabled only when the row is free, so the
steps of a tool are cut exactly where the code may have to wait.

| code | actions |
|---|---|
| `create_demo_quote` | `CreateQuote` |
| `create_demo_reservation`, `SimulatedProvider.reserve` | `ReserveStart`, `ReserveValidate`, `ReserveFails`, `ReserveConflict`, `ReserveInsert` |
| `modify_demo_reservation`, `extend_demo_rental` | `ModifyStart`, `ExtendStart`, `ModifyPrice`, `ModifyWrite` |
| `cancel_demo_reservation` | `CancelStart`, `CancelWrite` |
| `create_payment_link`, `simulate_payment`, `schedule_demo_delivery`, `record_demo_documents`: their locks | `LinkStart`, `PayStart`, `ScheduleStart`, `DocumentsStart`, `LockBooking`, `TakePayment`, `NoteBooking` |
| `record_external_booking` | `DeskCheck`, `DeskInsert` |
| end of a transaction, failure, deadlock victim | `Commit`, `Abort` |
| fleet and rate card reloaded, a quote's time is up | `FleetChange`, `TariffChange`, `QuoteExpires` |

Three facts of the code carry the correctness. Every tool that *takes* a slot first takes the next
quote reference, and `Counters.next` locks the counter's row until the transaction ends: this
serialises everybody who takes a car in chat, where the `FOR UPDATE` over the car's bookings protects
nothing when there is none. `operations.idempotency_key` is unique. An `UPDATE` names only the columns
that changed (`Merged`).

The tools that only note something on a booking lock its row, and a payment the payment counter's, without the
quote counter. Their columns are not modelled (`Payments` has those of a payment), their locks are: `Offered`
says which of them the operator has switched on, and `aside` remembers who took such a lock, or cancelled,
without holding the quote counter already.

A price is the record of what it depends on: slot, rate card, whether a discount or an excess
reduction was asked for. The model has confirmed and cancelled bookings; requests that wait for the
owner (`held`) are in `Requests`.

### WorkQueue

A row of `work_items` is `In(j)` or `Out(j)`: something that came in, a customer's message, the
owner's, a payment notice or the maintenance of one minute, and the reply it causes. `earlier[k]` is
the set of rows of the lane of `k` with a smaller id, which ids are compared for. A worker's `pc` is
*working* and *finishing* while its transaction holds its row, *failing* and *closing* after the
rollback and before the second transaction of the `except` branch, where the row is locked again and
may have been dealt with by somebody else. How many processes were started is settled at the start: the others are
*off* (`OneWorker` when one polls, as `render.yaml` has it).

| code | actions |
|---|---|
| `receive`, payment notices, maintenance tick | `Receive` |
| `Worker.run_once`, the query | `Pick` |
| `process_inbound` and the other handlers with effects | `Turn` |
| `process_outbound` | `Deliver` |
| commit; exception; death of the process | `Finish`; `Fail`; `Crash` |
| the `except` branch | `Recover` |
| `available_at`, 24 hours, `run_worker --retry` | `BackoffEnds`, `Ages`, `RetryDead` |

A turn's effects are committed with its job and are represented by its one reply. The jobs in `Relays` are
answers of the owner: if the customer's window is shut when one is handled, what is queued for her is not its
words but the template that asks her to write again (`templates`), which is sent whatever the window is
(`MayGo`). The query takes the smallest id among the lanes that have work; the model takes any of them, so it has every behaviour of
the code and some more across lanes, none inside one. When a send fails, Meta may have accepted it.

### Requests

A *task* is one message, the owner's answer or one run of the maintenance job, in a database session.
`view[t]` is what the session has loaded, at first use, and `task[t]` where the handler is. With `Serial`
there is one task at a time, the durable worker; without, each message is a background task.

| code | actions |
|---|---|
| the webhook takes a message | `Arrive` |
| the maintenance minute: expire holds, tag the silent, remind, time out | `Maintain`, `LoadOverdue`, `Sweep`, `ChaseOne`, `ChaseDone` |
| `_handle`: an owed answer, a case that is open, or a turn | `RouteOwed`, `PutOff`, `BeginTurn` |
| the agent's tools in that turn | `TakeRequest`, `AskChange`, `Withdraw`, `Cancel`, `Question`, `Advise`, `TalkTurn`, `UrgentTurn`, `GuidanceTurn` |
| `_notify_staff` | `Ask` |
| the owner's answer, `record_decision` | `OwnerAnswers`, `FindWithdrawn`, `JustRecord` |
| `apply_hold_decision` with `confirm_hold` | `Approve`, `Decline` |
| `_relay_to_customer`, `_request_reopen`, `Agent.relay`, `mark_relayed` | `Relay`, `RequestReopen`, `AgentRelays`, `Tell` |
| clocks | `Time`: `Ripen`, `Elapse`, `WindowShuts` |

### Payments

One booking, one turn of its customer at a time, and Stripe. `row` is committed; `loaded` and `draft` are
the turn's; on commit the columns it touched are written over whatever the row has become. What a turn
does at Stripe stays done when it is rolled back.

| code | actions |
|---|---|
| `create_payment_link` | `AskLink`, `CloseOld`, `LinkFails`, `OpenNew` |
| `modify_demo_reservation`, `cancel_demo_reservation` with `cancellation_payment_review` | `Modify`, `Cancel` |
| the session | `Load`, `Commit`, `Rollback` |
| `mark_paid`, `mark_checkout_status`, `mark_refunded` behind Stripe's webhook | `Receipt`, `Ended`, `Refunded` |
| Stripe, external | `Pay`, `Clear`, `Lapse`, `Refund` |

### Checkout

One conversation and one car. `flow` is the state's checkout record, `ledger` the keys of tool calls that
succeeded, `pc` where the turn is.

| code | actions |
|---|---|
| `checkout.observe` on every message | `Observe` |
| the checkout answers by itself | `FlowAsks`, `FlowQuotes`, `FlowCannotQuote`, `FlowOffers`, `FlowBooks`, `FlowCannotBook` |
| the model is asked, its tools behind the gates, the guard over its reply | `AskModel`, `Tools`, `GuardReply` |
| a document comes and is checked; it is purged | `Attach`; `Purge` |
| time and the operator | `QuoteExpires`, `PolicyChanges` |

### Learning

`db` holds the committed tables, `run` the open transaction of a replaying run with the tables it started
from. A judgement of a conversation is a set of habits; *checked* habits are found by the deterministic
checks and have a standing correction, *reviewed* ones are found by a model.

| code | actions |
|---|---|
| what happens in a conversation | `Shows`, `Ends` |
| `evaluate_finished`, the worker's sweep | `Sweep`, `Finish` |
| the cycle's report, `propose` from the console | `Report`, `Propose` |
| `cycle.run` with its replay, its end with outages, samples and regressions | `StartReplay`, `EndReplay` |
| `promote`, `rollback` by a person | `Promote`, `Rollback` |

### Fleet

Time runs in hours, a night is `Day` of them. The thread's phases are cut at every write: a file is written in
place, so it is emptied first and whole only when the write has ended.

| code | actions |
|---|---|
| the thread's loop and its attempt | `SetsOut`, `Collects`, `CollectFails` |
| `refresh_once`: keep the old file, write the new one in place, reload | `Kept`, `Overwrites`, `Written` |
| start and death of a process | `Boot`, `Crash` |
| `load` of the fleet by a turn | `Reads`, `Caches` |
| a quote and the booking made from it | `Quotes`, `Books` |
| the operator's site, the clock | `Lists`, `Delists`, `Tick` |

### Agent

One message at a time. `db` is everything a rollback undoes, `before` the rows as last committed, `call` the
provider's sweep over its models, `said` the reply of the last turn and `relayed` whether a decision was
passed on after it, or an apology in its place. A reply is the record of what it claims: that something is
done, offered, priced, or that a colleague has been called. Passing a decision on (`turn.relay`) runs the same
loop without an extraction, without the turn's deadline and without the guard, and neither counts an outage nor
clears the count. A durable job that was rolled back runs again before a decision is passed on, a bound of the
model.

| code | actions |
|---|---|
| `Agent.respond`: roadside reports, guidance, the payment shortcut | `Receive` |
| `_Messages._generate`: answers, limits, quota, errors, the pause between sweeps | `Answers`, `Fails`, `Retry`, `Pauses`, `Breaks`, `Unavailable`, `Refuses`, `Errs` |
| the extraction joined after the first call | `Hears` |
| the tool loop | `Writes`, `Searches`, `Quotes`, `Books`, `Cancels`, `Links`, `Reports` |
| `_guard_outbound`, one rewriting with tools | `Guard` |
| `Agent.relay` with `mark_relayed`, for the owner's answer or the customer's next message | `Relays`, `PassOn` |
| the owner and the operator | `Settles`, `Decides`, `Reprices` |

## 3. Runs

Each run ends within five minutes with two workers.

| run | instance | shows |
|---|---|---|
| `bookings` | 2 customers, 1 car, 3 points in time, 2 references, 2 quotes | no double booking, ledger and bookings agree, totals are for their dates, deadlocks only where a turn has taken a lock aside from the quote counter, refinement of `Inventory` |
| `desk` | 2 customers and the counter, 2 points in time, rates and fleet change | chat bookings never overlap each other |
| `work_queue` | 1 or 2 workers, 3 jobs, 2 senders, one of them the owner | order, one answer each, honest outbox, refinement of `Dialogue`; with 1 worker only a template overtakes, and only what the shut window keeps, and no reply waits for an open window |
| `progress` | 1 worker, 2 jobs, 2 attempts, fairness | everything acknowledged is handled and its reply sent, or a dead job of its own lane is in front |
| `requests` | 2 customers, 1 car, 2 requests, 2 cases, 1 worker, fairness | a conversation waits on one question, what is confirmed is as asked and shares no car, every question ends, refinement of `Enquiry`: what she was told is over is never booked |
| `background` | 1 customer, 2 requests for one car, 2 tasks side by side | two approvals never share the car |
| `payments` | 2 checkouts, 2 totals, fairness | one payment in full, it becomes known and stays so, no money is kept for a cancelled booking unnoticed |
| `checkout` | 3 quotes, 2 dates, 2 policies, 1 document | a booking and its link are as agreed, told changes are made |
| `learning` | 2 conversations, 1 checked and 1 reviewed habit, 3 versions | only the proven goes live, a mistake is closed only by teaching, nothing teachable is dropped |
| `fleet` | 4 cars, 10 hours with a night of 4, 1 change of the site | a whole file survives, no night is missed, what is served is recent |
| `agent` | 2 turns, 2 models, 6 ticks, 2 bookings, 5 messages, 8 drafts | replies hold in the rows they leave with, the second turn in a row that meets an outage calls a colleague, every turn ends |
| `emergency_replaced` | the same | violated: the finding below |

**Bounds.** *Bookings:* two customers and one car are what an overlap needs: the conflict is between a
session that takes and one that takes or gives up, and cars are independent. Three points in time give
overlapping, touching and contained slots. Two references and two quotes let each customer book, or one
book twice. When references or quotes are used up a tool is not called, which is the only effect of the bound.
`MaxTariff` bounds rate changes. `Offered` is links, payments and deliveries in `bookings`, deliveries and
documents in `desk`: a delivery and documents lock alike. *WorkQueue:* `MaxAttempts` is 1 or 2 instead of 6: a job is retried and dies within
both, and the operator's retry starts it again. Three jobs in two in-lanes and one out-lane let one message
wait behind another, a message reopen the reply to an earlier one, and a template meet a reply on either side
of it. *Requests:* two cases let an old answer meet a new
question; `CarOnly` keeps the second customer to the car, where he matters. In `background` two
requests of one customer want one car, and `Racing` keeps to tasks that meet before anything falls due: the
sweep is a task like any other, and an answer that was told is behind both. *Payments:* a second checkout replaces the
first; two totals let a link be from before a change. *Checkout:* three quotes are one that ran out, one
that is booked and one of a change; `Focus` keeps to such runs, and to a change where a planned delivery is
followed by anything; dates, policies and documents are symmetric. *Learning:* the third version meets one that serves and one that is replayed.
*Fleet:* ten hours hold two nights and the retries between; four cars let the limit of a quarter bite
(`InOrder` lists them in one order, and they do not differ). *Agent:* six ticks are two slow calls of
three; `Followed` follows failures in the first call of a turn and bounds the rows the conversation fills,
which is enough for a booking to be confirmed and another to wait; one decision is owed at a time. Deadlock is not checked in `Bookings`
(a database deadlock is ended by `Abort`, and all references may be used up), in `Payments` and in `Agent`
(everything paid and refunded, or all messages answered, and the bounded system is at rest); it is checked
in the others. Symmetry is used in safety runs only.

**Fairness.** `Spec` of `Bookings`, `Checkout`, `Learning` and `Fleet` has none; nothing there is promised
to happen. In `WorkQueue`, workers poll for ever (`run_worker.main` catches everything and sleeps at most
two seconds) and a backoff ends by the clock. Strong fairness is per job: a job that can again and again be
picked, handled and settled is. That excludes a job that kills each worker that takes it, which the code
has no defence against (`attempts` is counted only when the handler raises), and a job starved by smaller
ids for ever, which holds because ids are given out in order. In `Requests` the same worker goes on with
what it has begun (weak, `Work`) and comes round to the maintenance minute however many messages there
are (strong, `Maintain`), and a clock runs (weak, `Elapse`). In `Payments` a turn's rounds are bounded, so
it goes on and is committed in the end although it may be rolled back before, and Stripe repeats a paid
event until it is answered (`Receipt`, strong: the handler waits for the row between turns). In `Agent` the
thread that runs a turn goes on (`Step`, weak). No fairness is assumed of customers, of the owner, of
Meta, of the model, of the operator's retry or of the 24 hours. Where a liveness property is checked under
a constraint (`CarOnly`, `Followed`), it is shown of the behaviours that stay inside it.

## 4. Where code and text disagree

| run | the code | the text |
|---|---|---|
| `emergency_replaced` | the guard replaces the emergency guidance by the acknowledgement of a figure nobody published | `agent/loop.py:771` "Throw it away and use fixed emergency guidance for urgent reports." |

Met while modelling, and described here only. Where a formula is named, it is in its module and TLC
violates it on an instance like those above.

- Bookings: with no booking to lock, the counter and a chat turn both find the car free and both insert
  (`booking_provider/base.py:70`). `reserve` books a car that was taken off the road (`services/booking.py:8`).
  An error of a provider that was down is stored under the quote's key (`services/idempotency.py:12`). A quote with
  a discount is always "revised" (`booking_provider/base.py:61`). Without lanes two changes of one booking
  merge and the total is of neither. A turn that cancels, links, pays, schedules or records and then quotes can
  deadlock with one that reserves. The counter of payments is not seeded; the second inserter fails and runs again.
- Queue: the template that asks a customer back leaves before a reply that waits for her window. With two workers a reply is parked after the message that should wake it (`whatsapp/webhook.py:139`). A job
  that kills its worker is picked again first. A dead maintenance job blocks its lane, a row each minute.
- Requests: `HeldIsAsked` (a conflict leaves a request held that nobody is asked about; a case that is opened
  again is never reminded), `RelayedIsTold` (a decision is marked relayed whether or not it was sent),
  `ApprovalConfirms` (the owner's approval runs in the owner's scope, where an enforced checkout refuses it),
  `OnlyFrozenWaits` and `EmergencyIsRaised` (an emergency in a conversation that waits is put off). With background
  tasks `AskedOnce`, `ConfirmedAsAsked` and `CancelledStays` fail as well; a turn that loaded the conversation
  before its request was confirmed writes the outcome back, and the booking is not counted. The mark that the owner was told of a
  change is not persisted (`services/booking.py:851`), and `close_case` does not give the conversation back.
- Payments: `ReceiptKept` (a turn that loaded the row before overwrites the history with the receipt,
  `services/payments.py:284`). A refund reported before its payment is lost. A booking that is changed after it
  was paid stays "paid". A confirmed booking cannot be paid once its quote ran out or it was changed.
- Checkout: `CreatedIsLive` (a repeated reservation is told as created although it was cancelled since),
  `DeliveredOnTime` (a change of the dates leaves the delivery planned for the old ones). A quote is
  answered from the ledger after it ran out. Documents that staff approve do not count for the gate.
- Learning: `ServedIsProven` (a rollback may bring back what was never live), `SomethingServes`, `NothingUnlearned`
  (lessons that were replaced, or a version overtaken by another), `JudgedIsGuarded`. A regression that is
  followed by an outage is forgotten. What only a review finds becomes no case.
- Fleet: `QuoteNamesItsCar` (cars are numbered by their position on the site, so a car that is delisted
  renames the others), `RefreshIsServed` with a worker process (it never reloads, and the refresh starts only
  under `run_webhook` as a script). A torn `fleet.json` is not repaired; a fleet that really shrinks by more than
  a quarter is refused for ever.
- Agent: with the durable worker the third failure never comes, as the count is rolled back with the turn.
  A provider's error that is not retryable ends in silence. An extraction that is late, or whose
  conversation call fails, is dropped. What passes a decision on leaves without the guard. A text that is empty
  is replaced without a colleague being called. An outage while a decision is put into words is answered with
  "send that again" and not counted: after a turn that said so, or before one, she is asked twice and nobody is
  called (`SorryOnlyOnce`; `agent/loop.py:77`: "At that point asking them to try again is just a slower way of
  losing them."). The same apology counts as the decision's words, and the case is closed (`OwedUntilTold`;
  `whatsapp/webhook.py:461`: "a decision nobody managed to deliver has not resolved anything.").

## 5. Proofs

Everything below is proved for every value of the constants: any number of turns, desks, cars, dates,
references, quotes, rates, workers, jobs, lanes, attempts, tasks, customers, requests, cases, checkouts,
prices, documents, policies, versions, habits, models, drafts and ticks. Assumed are the named assumptions in
the modules that declare the constants (`BookingsAssumption`, `QueueAssumption`, `RequestsAssumption`,
`PaymentsAssumption`, `CheckoutAssumption`, `LearningAssumption`, `FleetAssumption`, `FileAssumption`,
`BudgetAssumption`, `ClaimsAssumption`: finitely many conversations, cars, cases; bounds that are numbers;
drafts that are records of claims) and that "none" is none of what it stands for (`SentinelAssumption`,
`PromiseAssumption`). TLC evaluates all of them. Every safety property a passing run checks is the
statement of a theorem.

| theorem | property | holds if |
|---|---|---|
| `TypeCorrect`, `QueueTypeCorrect`, `RequestsTypeCorrect`, `PaymentsTypeCorrect`, `CheckoutTypeCorrect`, `LearningTypeCorrect`, `FleetTypeCorrect`, `AgentTypeCorrect` | `TypeOK` of each module | |
| `PricesFollowSlots` | `PricedForItsSlot` | `Lanes` |
| `ChatBookingsApart` | `ChatNeverOverlaps` | `Lanes` |
| `NeverDoubleBooked` | `NoDoubleBooking` | `Lanes`, no other desks |
| `BookingsImplementInventory` | `ImplementsInventory` | `Lanes`, no other desks |
| `DeadlocksNeedAnAside` | `DeadlockOnlyAside` | |
| `LedgerAndBookingsAgree` | `SettledMeansBooked` | |
| `UnansweredStaysOpen` | a committed operation without an answer keeps having none | |
| `NobodyOvertakes`, `EachAnsweredOnce`, `OutboxIsHonest` | `TurnsInOrder`, `AnsweredOnce`, `OutboxHonest` | |
| `QueueImplementsDialogue` | `ImplementsDialogue` | |
| `OwedRepliesReopen`, `RepliesGoInOrder` | `OwedMeansClosed`, `RepliesInOrder`, which say it of `OneWorker` | |
| `NeverTwoInOneCar` | `NeverBothBooked` | |
| `AskedOneAtATime`, `ConfirmedIsAsAsked` | `AskedOnce`, `ConfirmedAsAsked` | `Serial` |
| `CancelledIsFinal` | `CancelledStays`: what she was told is cancelled is never booked, which is part of `ImplementsEnquiry` | `Serial` |
| `OneLifeEach` | `ImplementsEnquiry` | `Serial` |
| `NeverPaidTwice`, `NoMoneyIsKept` | `PaidOnceInFull`, `MoneyGoesBack` | |
| `ToldChangesAreMade`, `BookedAsAgreed` | `ChangedAsTold`, `DoneAsAgreed` | |
| `OnlyProvenGoesLive`, `AddressedMeansTaught`, `SweptIsProposed` | `PromotedIsProven`, `AddressedWasTaught`, `OpenIsProposed` | |
| `OneFileIsWhole`, `NoNightIsMissed`, `ServedIsOnDisk` | `LastGoodKept`, `StaleIsTried`, `ServedIsRecent` | |
| `RepliesHold`, `SorryOnce` | `SaidOnEvidence`, `NeverTwiceSorry` | |

`OneWorker` is what `render.yaml` starts, and `Serial` is the same worker seen from `Requests`. `Lanes` says that
the sessions of one customer take turns. That is what the lanes of the queue give (`NobodyOvertakes`), and the two modules meet there; the webhook without a database runs turns
side by side, and prices suffer then. "No other desks" is needed as well: the counter takes cars
without the lock.

**Bookings.** `TypeOK` alone is not inductive: a tool that goes on would look up a quote or a booking
that might be gone. `Shape` adds that an unlocked row is committed, that nothing is deleted, and that
a session half-way through a tool holds what the tool needs, the quote counter above all.

The theorems under `Lanes` first boil the actions down (`Steps`): one session reads and locks, or writes
one row, or ends its transaction, and everybody else is where they were. `Owned` then says that
a session's uncommitted writes are its own customer's, so a booking is at its update exactly what
it was when it was loaded, and `Merged` makes it what was wanted and priced. `Apart` is the argument
about double booking: what *each* session sees is free of overlaps; a window found free stays free in
what the finder sees, because it holds the quote counter, and whoever does not hold it has written only
what gives up slots (`TakesUnderLock`). Only the commit needs thought: it changes what others see, and
`SeesCommitted` bounds by how much.

`Orderly` is the argument about deadlocks: a turn that holds the reservation counter, the payment counter or a
booking's row holds the quote counter too, unless it took one of them aside. Two turns that wait for each other
both hold something, and only one of them holds the quote counter. It does not need `Lanes`.

The refinement needs these invariants and one more, that without desks all is made in chat.
A commit is one `Change`: rows change for one customer only (`OwnWrites`), only from live ones, and
the result clashes nowhere (`Apart` in the next state). Every other step leaves `db` alone.

The agreement with the ledger is kept twice, of the committed ledger with the committed rows and of the newest
with the newest; `SourcesUnderLock` (who lacks the quote counter writes no row from a quote) carries one
over into the other at commit and rollback. It does not need `Lanes`.

**WorkQueue.** `TurnsInOrder` is not inductive. The invariant adds that a worker's row stays pending while
it is locked (`OnJob`), that no two workers have one row, and that a lane of the inbox is totally
ordered by `earlier` (`Inbox`). Two workers in one lane would each need the other's job handled.

With one worker, `Told` adds that what is before a reply is a reply to the same person, already on record,
that no template is ever put aside (`Words`), and `Minds`: whoever is about to put a reply aside still finds
the window shut at his second look, and whoever is about to send one finds those before it sent, or in words
while the window is shut. With two workers a message is handled
between the look and the note; `OneWorker` is where the proof needs it (`OthersOff`), and it stays true because
nobody is started later (`NobodyStarts`).

**Requests.** Types hold for any interleaving, and need that a task's rows are older states of the same cases
(`Loaded`, `Extends`): a case never goes away and what it asks about never changes. That two rivals
are never both confirmed needs no more: an approval looks at the committed rows when it confirms. The other
three are proved of the serial worker, and turn on one fact: a customer has one case at most that is not
settled (`OneQuestion`), and what the owner may still answer is neither withdrawn nor told to be cancelled
(`Askable`). `Current` says what the one task that runs knows: its view is the committed state, the case it
asks about is the newest (cases are numbered without gaps), and a turn runs only where nothing is unsettled.

The refinement needs one thing more, that what is booked was confirmed last (`BookedLast`), so that a booking
that is cancelled is told apart from a request that was declined or withdrawn. The sweep is one `Lapse` of
whatever it finds, an approval a `Book`: the car is looked for among the bookings, as `Free` has it. Without
`Serial` it fails: of two answers of the owner that are applied side by side, the later writes over the earlier.

**Payments.** `Replaced` says that at most one checkout can still be, or has been, paid: every other has
lapsed at Stripe, and the booking's current reference names the one that stands, in the committed row
and in the turn's draft alike. It survives a rollback because a link is replaced only after it was closed
at Stripe, which no rollback undoes. `Drafted` relates draft and loaded row to the committed one, which
Stripe's events change in between; `NoTurnPays` (a turn alone never turns a booking "paid") leaves `Receipt`
as the only step that does, and `mark_paid` compares with the total of that moment.

For `MoneyGoesBack`, `Booked` and `Turned` say of the committed row and of the turn's draft that a cancelled
booking nobody is to look at has no checkout that can be paid (`Shut`), and that what it is called is what
Stripe did (`Honest`, `Returned`).

**Checkout.** The gates test what the flow record says; the theorem is about what the customer did.
`Agreed` ties the two: whenever the record counts as accepted, she has accepted exactly its text and has
not put it off since. `Sourced` says that every booking was made from its quote and keeps its dates unless
changed, `Left` that a change remembered in the ledger has been overtaken by the version it ended, so no
repeated change is answered from there, and `Answered` that what she was told of the last one is so.

**Learning.** A run writes on from tables it read an hour ago. `Replaying` bounds what it can have written
meanwhile (`Grown`): the baseline, and candidates nobody replayed; and `Vouched` says that a replay
recorded as clean has proven its version. The merge at the end of the run thus makes nothing live but its own
candidate, and only if the whole replay was clean.

`Kept` follows the tables for the other two: a version keeps its lessons, a mistake's row stays on record, and a
row is closed only by a version that was served with a lesson for its habit (`Told`); the run's tables are
judged by what they add to those they started from (`Adds`), which the merge carries over (`Aside`).

**Fleet.** `Files` says which of the two files is whole at each phase of the thread, so a death anywhere leaves
one; `Timing` bounds the hour the thread sleeps to by the age of what is on disk or by its last attempt;
`Reading` relates what a turn has read to what was on disk then, or before.

**Agent.** Every step ends in one of five ways: a reply leaves, goes to the guard, a decision is passed on, the
loop calls again, or the turn is rolled back, and the invariant is proved against these. `Good` says that rows in which a colleague
counts as called hold the case; the guard's questions are then shown to imply the property, though they are
asked in other words (`NoIssuesHolds`, `ReceiptedHolds`). `Remembered` follows the failure that made
the agent say sorry: it is in the rows between turns and in what a rollback restores within one, and the
count is cleared only when a reply of another kind is in hand (`Counted`); passing a decision on leaves it.
The theorem is about turns: what she hears between them may ask her again (`SorryOnlyOnce` does not hold).

**Only model-checked.** Liveness (`EventuallyAnswered`, `NoSilence`, `MoneyReconciled`, `TurnEnds`), which the
prover cannot do. `EmergencyIsSaid` is violated.

## 6. Not modelled

`PROJECT.json` has the reason for each component. Texts, prompts, regular expressions, media cards,
look-ups, the rate ladder and the developers' front ends hold no state the others depend on. Which tools
the language model calls, and in which order, is left open in every module: any tool may follow any other.
Left out of modelled parts are: the owner's typed answer that names a wrong case and `close_case` from the
command line (`Requests`); the race of two calls under one ledger key, which the lanes rule out (`Checkout`);
the command that writes a fleet without validation and the parsing of pages (`Fleet`); the routine
replies and a car that is named ambiguously (`Agent`); `modify_reservation` and `cancel_reservation` of the
provider, which only tests call (`Bookings`).

## 7. What is left

`best_rate` of the engine against the minimum over all mixes of rates: arithmetic on decimals without state,
which a run can compare over bounded rates and periods.
