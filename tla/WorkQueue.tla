------------------------------ MODULE WorkQueue -------------------------------
(***************************************************************************)
(* The durable inbox and outbox (whatsapp/jobs.py) and the handlers the    *)
(* webhook gives its workers.  A job from outside (a customer's message,   *)
(* the owner's, a payment notice, the maintenance of one minute) is a row  *)
(* of work_items in its sender's lane; handling it is one transaction that *)
(* also queues the reply, a row in the recipient's lane.  A worker keeps   *)
(* the row it works on locked, so a crash gives the job back.              *)
(***************************************************************************)
EXTENDS Naturals

CONSTANTS
    Workers,        \* processes that may have been started
    Jobs,           \* what comes in; its key is unique
    Senders,        \* customers, the owner, the clock and the payment processor
    From, To,       \* whose lane a job is in, and who hears of it
    AlwaysOpen,     \* senders who can be written to at any time: the owner
    Relays,         \* jobs that pass a decision on: the owner's answers
    MaxAttempts,
    NoItem

Items == {"in", "out"} \X Jobs

In(j)  == <<"in", j>>
Out(j) == <<"out", j>>

ASSUME QueueAssumption ==
    /\ From \in [Jobs -> Senders]
    /\ To \in [Jobs -> Senders]
    /\ Relays \subseteq Jobs
    /\ MaxAttempts \in Nat \ {0}
    /\ NoItem \notin Items

VARIABLES
    status,     \* of the committed rows; "none" is no row
    earlier,    \* the rows of its lane with a smaller id
    attempts,
    due,        \* available_at has come
    templates,  \* replies whose payload is a template: please write to us
    pc,         \* what each worker does next
    job,        \* the row it works on
    sent,       \* replies Meta has accepted, acknowledged or not
    fresh       \* jobs that are less than 24 hours old

rows  == <<status, earlier, attempts, due, templates>>
vars  == <<rows, pc, job, sent, fresh>>

Lane(k) == IF k[1] = "in" THEN <<"in", From[k[2]]>> ELSE <<"out", To[k[2]]>>

\* The transaction of a worker in one of these states holds its row.
Holding == {"working", "finishing"}

Locked(k) == \E w \in Workers : job[w] = k /\ pc[w] \in Holding

\* The reply a worker has written and not committed.
Draft(w) == IF pc[w] = "finishing" /\ job[w][1] = "in" THEN {Out(job[w][2])} ELSE {}

\* Every row there is, committed or not, and those in the lane of k: what has a
\* smaller id than k when k is inserted.
Present == {k \in Items : status[k] # "none"} \cup UNION {Draft(w) : w \in Workers}

Ahead(k) == {i \in Present : Lane(i) = Lane(k)}

\* Meta's rule: a customer who wrote in the last 24 hours, by the messages on
\* record, can be answered freely.
WindowOpen(s) ==
    \/ s \in AlwaysOpen
    \/ \E j \in Jobs : From[j] = s /\ status[In(j)] = "done" /\ fresh[j]

TypeOK ==
    /\ status \in [Items -> {"none", "pending", "waiting_window", "done", "dead"}]
    /\ earlier \in [Items -> SUBSET Items]
    /\ attempts \in [Items -> 0 .. MaxAttempts]
    /\ due \in [Items -> BOOLEAN]
    /\ templates \subseteq Items
    /\ pc \in [Workers -> {"off", "idle", "working", "finishing", "failing", "closing"}]
    /\ job \in [Workers -> Items \cup {NoItem}]
    /\ sent \subseteq Items
    /\ fresh \in [Jobs -> BOOLEAN]

Init ==
    /\ status = [k \in Items |-> "none"]
    /\ earlier = [k \in Items |-> {}]
    /\ attempts = [k \in Items |-> 0]
    /\ due = [k \in Items |-> FALSE]
    /\ templates = {}
    /\ pc \in [Workers -> {"idle", "off"}]
    /\ \E w \in Workers : pc[w] = "idle"
    /\ job = [w \in Workers |-> NoItem]
    /\ sent = {}
    /\ fresh = [j \in Jobs |-> FALSE]

-----------------------------------------------------------------------------
(* The webhook *)

\* The replies to s that wait for its window.
Owed(s) == {k \in Items : Lane(k) = <<"out", s>> /\ status[k] = "waiting_window"}

\* A delivery, first or repeated: the key keeps one row, owed replies reopen.
Receive(j) ==
    LET new == {In(j)} \ Present
    IN  /\ status' = [k \in Items |->
                        IF k \in new \cup Owed(From[j]) THEN "pending" ELSE status[k]]
        /\ earlier' = [k \in Items |-> IF k \in new THEN Ahead(k) ELSE earlier[k]]
        /\ due' = [k \in Items |-> due[k] \/ k \in new \cup Owed(From[j])]
        /\ fresh' = [fresh EXCEPT ![j] = fresh[j] \/ new # {}]
        /\ UNCHANGED <<attempts, templates, pc, job, sent>>

-----------------------------------------------------------------------------
(* A worker *)

\* Variant of Blocks: a dead job does not hold its lane.
BlocksWhilePending(i) == status[i] = "pending"

Blocks(i) == status[i] \in {"pending", "dead"}

\* Variant of Runnable: one lane for everybody.
RunnableOneLane(k) ==
    status[k] = "pending" /\ due[k] /\ \A i \in Items \ {k} : ~Blocks(i)

Runnable(k) == status[k] = "pending" /\ due[k] /\ \A i \in earlier[k] : ~Blocks(i)

\* Variant of Pick: the row is not locked.
PickUnlocked(w, k) ==
    /\ pc[w] = "idle"
    /\ Runnable(k)
    /\ pc' = [pc EXCEPT ![w] = "working"]
    /\ job' = [job EXCEPT ![w] = k]
    /\ UNCHANGED <<rows, sent, fresh>>

\* FOR UPDATE SKIP LOCKED.  Of the lanes that have work the query takes the one
\* with the smallest id; here it may take any.
Pick(w, k) ==
    /\ pc[w] = "idle"
    /\ Runnable(k) /\ ~Locked(k)
    /\ pc' = [pc EXCEPT ![w] = "working"]
    /\ job' = [job EXCEPT ![w] = k]
    /\ UNCHANGED <<rows, sent, fresh>>

\* Variant of Turn: a checkpoint of the turn commits.
TurnCommits(w) ==
    /\ pc[w] = "working"
    /\ job[w] \in {In(j) : j \in Jobs}
    /\ LET reply == Out(job[w][2])
       IN  /\ earlier' = [earlier EXCEPT ![reply] = Ahead(reply)]
           /\ status' = [status EXCEPT ![reply] = "pending"]
    /\ pc' = [pc EXCEPT ![w] = "finishing"]
    /\ UNCHANGED <<attempts, due, templates, job, sent, fresh>>

\* The last act of a turn is to queue its reply.  A decision that cannot be
\* passed on in words waits, and a template asks its customer to write.
Turn(w) ==
    /\ pc[w] = "working"
    /\ job[w] \in {In(j) : j \in Jobs}
    /\ earlier' = [earlier EXCEPT ![Out(job[w][2])] = Ahead(Out(job[w][2]))]
    /\ templates' = IF job[w][2] \in Relays /\ ~WindowOpen(To[job[w][2]])
                    THEN templates \cup {Out(job[w][2])} ELSE templates
    /\ pc' = [pc EXCEPT ![w] = "finishing"]
    /\ UNCHANGED <<status, attempts, due, job, sent, fresh>>

\* What Meta takes now: a template at any time, words while the window is open.
MayGo(k) == k \in templates \/ WindowOpen(To[k[2]])

\* Variant of Deliver: nobody looks at what the client answered.
DeliverUnchecked(w) ==
    /\ pc[w] = "working"
    /\ job[w] \in {Out(j) : j \in Jobs}
    /\ MayGo(job[w])
    /\ sent' \in {sent, sent \cup {job[w]}}
    /\ pc' = [pc EXCEPT ![w] = "finishing"]
    /\ UNCHANGED <<rows, job, fresh>>

\* Sending a reply.  Meta can accept it and the answer be lost on the way.
Deliver(w) ==
    /\ pc[w] = "working"
    /\ job[w] \in {Out(j) : j \in Jobs}
    /\ \/ /\ ~MayGo(job[w])
          /\ pc' = [pc EXCEPT ![w] = "closing"]
          /\ UNCHANGED sent
       \/ /\ MayGo(job[w])
          /\ sent' = sent \cup {job[w]}
          /\ pc' \in {[pc EXCEPT ![w] = "finishing"], [pc EXCEPT ![w] = "failing"]}
    /\ UNCHANGED <<rows, job, fresh>>

\* Variant of Finish: only the webhook reopens replies.
FinishQuietly(w) ==
    /\ pc[w] = "finishing"
    /\ status' = [k \in Items |-> IF k = job[w] THEN "done"
                                  ELSE IF k \in Draft(w) THEN "pending" ELSE status[k]]
    /\ due' = [k \in Items |-> due[k] \/ k \in Draft(w)]
    /\ pc' = [pc EXCEPT ![w] = "idle"]
    /\ job' = [job EXCEPT ![w] = NoItem]
    /\ UNCHANGED <<earlier, attempts, templates, sent, fresh>>

\* The job, its reply and the replies it reopens are committed together.
Finish(w) ==
    LET reopened == IF job[w][1] = "in" THEN Owed(From[job[w][2]]) ELSE {}
    IN  /\ pc[w] = "finishing"
        /\ status' = [k \in Items |->
                        IF k = job[w] THEN "done"
                        ELSE IF k \in Draft(w) \cup reopened THEN "pending"
                        ELSE status[k]]
        /\ due' = [k \in Items |-> due[k] \/ k \in Draft(w) \cup reopened]
        /\ pc' = [pc EXCEPT ![w] = "idle"]
        /\ job' = [job EXCEPT ![w] = NoItem]
        /\ UNCHANGED <<earlier, attempts, templates, sent, fresh>>

\* The transaction is undone, the reply with it.
Undo(w) ==
    /\ earlier' = [k \in Items |-> IF k \in Draft(w) THEN {} ELSE earlier[k] \ Draft(w)]
    /\ templates' = templates \ Draft(w)
    /\ UNCHANGED <<status, attempts, due, sent, fresh>>

\* The handler raises: Meta refuses, a provider is down, the database objects.
Fail(w) ==
    /\ pc[w] \in Holding
    /\ Undo(w)
    /\ pc' = [pc EXCEPT ![w] = "failing"]
    /\ UNCHANGED job

\* The process dies or loses its connection: nobody counts the attempt.
Crash(w) ==
    /\ pc[w] \notin {"off", "idle"}
    /\ Undo(w)
    /\ pc' = [pc EXCEPT ![w] = "idle"]
    /\ job' = [job EXCEPT ![w] = NoItem]

\* Variant of Recover: the attempts are counted and never looked at.
RecoverForever(w) ==
    /\ pc[w] = "failing"
    /\ ~Locked(job[w])
    /\ attempts' = [attempts EXCEPT ![job[w]] = @ + 1]
    /\ due' = [due EXCEPT ![job[w]] = FALSE]
    /\ pc' = [pc EXCEPT ![w] = "idle"]
    /\ job' = [job EXCEPT ![w] = NoItem]
    /\ UNCHANGED <<status, earlier, templates, sent, fresh>>

\* Locks the row again, which another worker may have dealt with meanwhile.
Recover(w) ==
    /\ pc[w] \in {"failing", "closing"}
    /\ ~Locked(job[w])
    /\ \/ status[job[w]] # "pending" /\ UNCHANGED rows
       \/ /\ status[job[w]] = "pending"
          /\ pc[w] = "closing"
          /\ status' = [status EXCEPT ![job[w]] = "waiting_window"]
          /\ UNCHANGED <<earlier, attempts, due, templates>>
       \/ /\ status[job[w]] = "pending"
          /\ pc[w] = "failing"
          /\ attempts' = [attempts EXCEPT ![job[w]] = @ + 1]
          /\ due' = [due EXCEPT ![job[w]] = FALSE]
          /\ status' = IF attempts'[job[w]] >= MaxAttempts
                       THEN [status EXCEPT ![job[w]] = "dead"] ELSE status
          /\ UNCHANGED <<earlier, templates>>
    /\ pc' = [pc EXCEPT ![w] = "idle"]
    /\ job' = [job EXCEPT ![w] = NoItem]
    /\ UNCHANGED <<sent, fresh>>

-----------------------------------------------------------------------------
(* Time and the operator *)

BackoffEnds(k) ==
    /\ ~due[k]
    /\ status[k] = "pending"
    /\ due' = [due EXCEPT ![k] = TRUE]
    /\ UNCHANGED <<status, earlier, attempts, templates, pc, job, sent, fresh>>

Ages(j) ==
    /\ fresh[j]
    /\ From[j] \notin AlwaysOpen
    /\ fresh' = [fresh EXCEPT ![j] = FALSE]
    /\ UNCHANGED <<rows, pc, job, sent>>

RetryDead(k) ==
    /\ status[k] = "dead"
    /\ status' = [status EXCEPT ![k] = "pending"]
    /\ attempts' = [attempts EXCEPT ![k] = 0]
    /\ due' = [due EXCEPT ![k] = TRUE]
    /\ UNCHANGED <<earlier, templates, pc, job, sent, fresh>>

Handle(w) == Turn(w) \/ Deliver(w) \/ Fail(w)

Settle(w) == Finish(w) \/ Recover(w)

Next ==
    \/ \E j \in Jobs : Receive(j) \/ Ages(j)
    \/ \E w \in Workers, k \in Items : Pick(w, k)
    \/ \E w \in Workers : Handle(w) \/ Settle(w) \/ Crash(w)
    \/ \E k \in Items : BackoffEnds(k) \/ RetryDead(k)

Spec == Init /\ [][Next]_vars

\* Workers keep polling and a backoff ends.  A worker may die in the middle of a
\* job, but no job kills every worker that takes it.
Fairness ==
    \A k \in Items :
        /\ WF_vars(BackoffEnds(k))
        /\ SF_vars(\E w \in Workers : Pick(w, k))
        /\ SF_vars(\E w \in Workers : job[w] = k /\ Handle(w))
        /\ SF_vars(\E w \in Workers : job[w] = k /\ Settle(w))

FairSpec == Spec /\ Fairness

-----------------------------------------------------------------------------
(* Correctness *)

\* Workers never overtake another message from the same customer: whoever works
\* on what came in, everything its sender had said before has been handled, and
\* nobody else works in that lane.
TurnsInOrder ==
    \A w \in Workers : (pc[w] \in Holding /\ job[w][1] = "in") =>
        /\ \A i \in earlier[job[w]] : status[i] = "done"
        /\ \A v \in Workers \ {w} : pc[v] \in Holding => Lane(job[v]) # Lane(job[w])

\* A job and its reply are committed together and once: there is a reply exactly
\* where there is a handled job, whatever was retried, redelivered or crashed.
AnsweredOnce == \A j \in Jobs : status[Out(j)] # "none" <=> status[In(j)] = "done"

\* A reply that is marked done was accepted, and nothing was sent on behalf of a
\* turn that was undone.
OutboxHonest == \A j \in Jobs :
    /\ status[Out(j)] = "done" => Out(j) \in sent
    /\ Out(j) \in sent => status[In(j)] = "done"

\* What render.yaml starts: one service that runs run_worker.py, and it polls alone.
OneWorker == \A v, w \in Workers : (pc[v] # "off" /\ pc[w] # "off") => v = w

\* A new customer message reopens delivery of an owed reply: with one worker none is
\* left waiting while its recipient can be written to.
OwedMeansClosed == OneWorker =>
    \A j \in Jobs : status[Out(j)] = "waiting_window" => ~WindowOpen(To[j])

\* With one worker, too, whatever was retried, had died or had to wait: a reply goes
\* out before one that was queued earlier for its recipient only if
\* the window is shut, the earlier one is in words, and this one is the template
\* that asks for it to be opened again.
RepliesInOrder ==
    [][OneWorker => \A k \in sent' \ sent : \A i \in earlier[k] \ sent :
           k \in templates /\ i \notin templates /\ ~WindowOpen(To[k[2]])]_vars

\* A dead job at or before k in its lane.
HeldUp(k) == \E i \in earlier[k] \cup {k} : status[i] = "dead"

\* What was acknowledged is handled, unless a dead job holds up its own lane:
\* other customers can continue.
EventuallyHandled == \A j \in Jobs :
    (status[In(j)] = "pending") ~> (status[In(j)] = "done" \/ HeldUp(In(j)))

\* And what was answered is sent, or waits for the window, or is held up.
EventuallySent == \A j \in Jobs :
    (status[Out(j)] = "pending") ~>
        (Out(j) \in sent \/ status[Out(j)] = "waiting_window" \/ HeldUp(Out(j)))

\* Both: nothing that was acknowledged is lost or forgotten on its way to the customer.
EventuallyAnswered == EventuallyHandled /\ EventuallySent

\* What a sender sees of the queue.
Said     == {j \in Jobs : status[In(j)] # "none"}
Before   == [j \in Jobs |-> {i \in Jobs : In(i) \in earlier[In(j)]}]
Answered == {j \in Jobs : status[Out(j)] # "none"}

\* Workers, retries and crashes do not show: the queue is a conversation.
Conversation == INSTANCE Dialogue WITH said <- Said, before <- Before, answered <- Answered

ImplementsDialogue == Conversation!Spec
==============================================================================
