--------------------------- MODULE WorkQueueProofs ----------------------------
(***************************************************************************)
(* Theorems about WorkQueue for any number of workers, jobs, senders and   *)
(* attempts: types, the order of the turns, one answer for each, an honest *)
(* outbox, and that the queue implements Dialogue; for one worker also     *)
(* that an owed reply reopens and what a reply may overtake.               *)
(*                                                                         *)
(* The invariant says why one lane never has two turns at once.  A lane is *)
(* totally ordered by `earlier`, a worker takes a job only when what comes *)
(* before it is handled, and the row lock keeps the job pending until the  *)
(* worker is through with it; so of two jobs worked on in one lane, the    *)
(* one that comes first would have to be pending and handled.              *)
(***************************************************************************)
EXTENDS WorkQueue, TLAPS

-----------------------------------------------------------------------------
(* The inductive invariant *)

\* A worker knows the row it works on, and its lock keeps the row pending.
OnJob(w) ==
    /\ pc[w] \notin {"off", "idle"} => job[w] \in Items
    /\ pc[w] \in Holding => status[job[w]] = "pending"
    /\ pc[w] = "closing" => job[w][1] = "out"
    /\ (pc[w] = "finishing" /\ job[w][1] = "out") => job[w] \in sent
    /\ (pc[w] \in Holding /\ job[w][1] = "in") =>
          \A i \in earlier[job[w]] : status[i] = "done"

OneEach == \A v, w \in Workers :
    (v # w /\ pc[v] \in Holding /\ pc[w] \in Holding) => job[v] # job[w]

\* A lane of the inbox is a line: what came in is ordered, and only that is.
Inbox ==
    /\ \A j \in Jobs : /\ status[In(j)] # "waiting_window"
                       /\ \A i \in earlier[In(j)] : i[1] = "in" /\ status[i] # "none"
    /\ \A i, j \in Jobs :
          (i # j /\ From[i] = From[j] /\ status[In(i)] # "none" /\ status[In(j)] # "none") =>
              In(i) \in earlier[In(j)] \/ In(j) \in earlier[In(i)]

\* Who has used up its attempts is dead.
Tried == \A k \in Items : status[k] # "dead" => attempts[k] < MaxAttempts

IInv == /\ TypeOK
        /\ \A w \in Workers : OnJob(w)
        /\ OneEach
        /\ Inbox
        /\ Tried
        /\ AnsweredOnce
        /\ OutboxHonest

-----------------------------------------------------------------------------
(* Rows *)

LEMMA ItemFacts ==
  /\ \A j \in Jobs : /\ In(j) \in Items /\ In(j)[1] = "in" /\ In(j)[2] = j
                     /\ Out(j) \in Items /\ Out(j)[1] = "out" /\ Out(j)[2] = j
  /\ \A i, j \in Jobs : /\ In(i) # Out(j)
                        /\ In(i) = In(j) => i = j
                        /\ Out(i) = Out(j) => i = j
  /\ \A k \in Items : /\ k[2] \in Jobs
                      /\ k[1] = "in" => k = In(k[2])
                      /\ k[1] = "out" => k = Out(k[2])
                      /\ k[1] \in {"in", "out"}
  BY DEF Items, In, Out

LEMMA DraftIsOut ==
  ASSUME IInv, NEW w \in Workers
  PROVE  /\ Draft(w) \subseteq Items
         /\ \A k \in Draft(w) : k[1] = "out" /\ pc[w] = "finishing" /\ job[w] = In(k[2])
                                /\ k = Out(k[2])
  BY ItemFacts DEF IInv, OnJob, Draft

LEMMA InPresent ==
  ASSUME IInv, NEW j \in Jobs
  PROVE  In(j) \in Present <=> status[In(j)] # "none"
  BY ItemFacts, DraftIsOut DEF Present

LEMMA OwedAreOut ==
  ASSUME NEW s, NEW k \in Owed(s)
  PROVE  k \in Items /\ k[1] = "out" /\ status[k] = "waiting_window"
  BY ItemFacts DEF Owed, Lane

LEMMA InitIInv == Init => IInv
<1> SUFFICES ASSUME Init PROVE IInv
  OBVIOUS
<1>1. TypeOK
  <2>1. 0 \in 0 .. MaxAttempts
    BY QueueAssumption
  <2> QED
    BY <2>1 DEF Init, TypeOK
<1>2. Inbox /\ AnsweredOnce /\ OutboxHonest
  BY ItemFacts DEF Init, Inbox, AnsweredOnce, OutboxHonest
<1>3. Tried
  BY QueueAssumption DEF Init, Tried
<1>4. OneEach /\ \A w \in Workers : OnJob(w)
  BY DEF Init, OneEach, OnJob, Holding
<1> QED
  BY <1>1, <1>2, <1>3, <1>4 DEF IInv

LEMMA ReceiveIInv ==
  ASSUME IInv, NEW j \in Jobs, Receive(j)
  PROVE  IInv'
<1> DEFINE new == {In(j)} \ Present
<1>0. new = IF status[In(j)] = "none" THEN {In(j)} ELSE {}
  BY InPresent
<1>1. /\ \A k \in Items : status'[k] = IF k \in new \cup Owed(From[j]) THEN "pending" ELSE status[k]
      /\ \A k \in Items : earlier'[k] = IF k \in new THEN Ahead(k) ELSE earlier[k]
      /\ UNCHANGED <<attempts, pc, job, sent>>
  BY DEF Receive
<1>2. \A k \in Items : /\ status[k] \in {"pending", "done", "dead"} => status'[k] = status[k]
                       /\ status[k] # "none" => status'[k] # "none"
                       /\ status'[k] = "dead" => status[k] = "dead"
                       /\ status'[k] = "done" => status[k] = "done"
                       /\ k # In(j) => (status[k] = "none" => status'[k] = "none")
                       /\ status[k] = "dead" => status'[k] = "dead"
                       /\ k[1] = "in" => status'[k] = status[k] \/ (k = In(j) /\ status'[k] = "pending")
  BY <1>0, <1>1, OwedAreOut
<1>3. Present \subseteq Items
  BY DraftIsOut DEF Present
<1>4. TypeOK'
  <2>1. Ahead(In(j)) \in SUBSET Items
    BY <1>3 DEF Ahead
  <2> QED
    BY <1>0, <2>1, ItemFacts DEF Receive, IInv, TypeOK
<1>5. ASSUME NEW w \in Workers PROVE OnJob(w)'
  BY <1>0, <1>1, <1>2 DEF IInv, OnJob, TypeOK, Holding
<1>6. OneEach'
  BY <1>1 DEF IInv, OneEach
<1>7. Inbox'
  <2>1. ASSUME NEW i \in Jobs
        PROVE  /\ status'[In(i)] # "waiting_window"
               /\ \A k \in earlier'[In(i)] : k[1] = "in" /\ status'[k] # "none"
    <3>1. status'[In(i)] # "waiting_window"
      BY <1>2, ItemFacts DEF IInv, Inbox
    <3>2. CASE In(i) \in new
      <4>1. earlier'[In(i)] = Ahead(In(i))
        BY <1>1, <3>2, ItemFacts
      <4>2. ASSUME NEW k \in Ahead(In(i)) PROVE k[1] = "in" /\ k \in Items
        BY <1>3, <4>2, ItemFacts DEF Ahead, Lane
      <4>3. ASSUME NEW k \in Ahead(In(i)) PROVE status[k] # "none"
        BY <4>2, <4>3, InPresent, ItemFacts DEF Ahead
      <4> QED
        BY <1>2, <3>1, <4>1, <4>2, <4>3
    <3>3. CASE In(i) \notin new
      BY <1>1, <1>2, <3>1, <3>3, ItemFacts DEF IInv, Inbox, TypeOK
    <3> QED
      BY <3>2, <3>3
  <2>2. ASSUME NEW a \in Jobs, NEW b \in Jobs, a # b, From[a] = From[b],
               status'[In(a)] # "none", status'[In(b)] # "none"
        PROVE  In(a) \in earlier'[In(b)] \/ In(b) \in earlier'[In(a)]
    <3>1. ASSUME NEW c \in Jobs, NEW d \in Jobs, c # d, From[c] = From[d], In(c) \in new,
                 status'[In(d)] # "none"
          PROVE  In(d) \in earlier'[In(c)]
      <4>1. In(d) \in Present
        BY <1>0, <1>2, <3>1, InPresent, ItemFacts
      <4>2. Lane(In(d)) = Lane(In(c))
        BY <3>1, ItemFacts DEF Lane
      <4>3. earlier'[In(c)] = Ahead(In(c))
        BY <1>1, <3>1, ItemFacts
      <4> QED
        BY <4>1, <4>2, <4>3 DEF Ahead
    <3>2. CASE In(a) \notin new /\ In(b) \notin new
      BY <1>0, <1>1, <1>2, <2>2, <3>2, ItemFacts DEF IInv, Inbox
    <3> QED
      BY <2>2, <3>1, <3>2
  <2> QED
    BY <2>1, <2>2 DEF Inbox
<1>8. Tried'
  BY <1>1, <1>2 DEF IInv, Tried
<1>9. AnsweredOnce' /\ OutboxHonest'
  BY <1>1, <1>2, ItemFacts DEF IInv, AnsweredOnce, OutboxHonest
<1> QED
  BY <1>4, <1>5, <1>6, <1>7, <1>8, <1>9 DEF IInv

-----------------------------------------------------------------------------
(* Workers *)

\* Two workers of one lane would have to come each before the other.
LEMMA LanesAlone ==
  ASSUME IInv, NEW v \in Workers, NEW w \in Workers, v # w, pc[v] \in Holding, pc[w] \in Holding,
         job[w][1] = "in"
  PROVE  Lane(job[v]) # Lane(job[w])
<1> SUFFICES ASSUME Lane(job[v]) = Lane(job[w]) PROVE FALSE
  OBVIOUS
<1>1. /\ job[v] \in Items /\ job[w] \in Items /\ job[v] # job[w]
      /\ status[job[v]] = "pending" /\ status[job[w]] = "pending"
  BY DEF IInv, OnJob, OneEach, Holding
<1>2. job[v][1] = "in" /\ From[job[v][2]] = From[job[w][2]]
  BY <1>1, ItemFacts DEF Lane
<1>3. /\ job[v] = In(job[v][2]) /\ job[w] = In(job[w][2])
      /\ job[v][2] \in Jobs /\ job[w][2] \in Jobs
  BY <1>1, <1>2, ItemFacts
<1>4. job[v] \in earlier[job[w]] \/ job[w] \in earlier[job[v]]
  BY <1>1, <1>2, <1>3 DEF IInv, Inbox
<1> QED
  BY <1>1, <1>2, <1>4 DEF IInv, OnJob

LEMMA PickIInv ==
  ASSUME IInv, NEW w \in Workers, NEW k \in Items, Pick(w, k)
  PROVE  IInv'
<1>1. TypeOK'
  BY DEF Pick, IInv, TypeOK, rows
<1>2. ASSUME NEW v \in Workers PROVE OnJob(v)'
  <2>1. CASE v # w
    BY <2>1 DEF Pick, rows, IInv, TypeOK, OnJob, Holding
  <2>2. CASE v = w
    <3>1. /\ pc'[v] = "working" /\ job'[v] = k /\ status[k] = "pending"
          /\ \A i \in earlier[k] : status[i] \notin {"pending", "dead"}
      BY <2>2 DEF Pick, Runnable, Blocks, IInv, TypeOK
    <3>2. ASSUME k[1] = "in", NEW i \in earlier[k] PROVE status[i] = "done"
      <4>1. k = In(k[2]) /\ k[2] \in Jobs /\ earlier[k] \subseteq Items
        BY <3>2, ItemFacts DEF IInv, TypeOK
      <4>2. i[1] = "in" /\ status[i] # "none" /\ i \in Items
        BY <3>2, <4>1 DEF IInv, Inbox
      <4>3. status[i] # "waiting_window"
        BY <4>2, ItemFacts DEF IInv, Inbox
      <4> QED
        BY <3>1, <3>2, <4>2, <4>3 DEF IInv, TypeOK
    <3> QED
      BY <3>1, <3>2 DEF Pick, rows, OnJob
  <2> QED
    BY <2>1, <2>2
<1>3. OneEach'
  BY DEF Pick, Locked, IInv, OneEach, TypeOK
<1> QED
  BY <1>1, <1>2, <1>3
  DEF Pick, rows, IInv, Inbox, Tried, AnsweredOnce, OutboxHonest

\* Only replies' places in line change while a worker is at its job.
LEMMA InboxKept ==
  ASSUME IInv, UNCHANGED status, \A j \in Jobs : earlier'[In(j)] = earlier[In(j)]
  PROVE  Inbox'
  BY DEF IInv, Inbox

LEMMA TurnIInv ==
  ASSUME IInv, NEW w \in Workers, Turn(w)
  PROVE  IInv'
<1>1. PICK j \in Jobs : job[w] = In(j)
  BY DEF Turn
<1>2. Out(job[w][2]) = Out(j) /\ job[w][1] = "in"
  BY <1>1, ItemFacts
<1>3. Ahead(Out(j)) \subseteq Items
  BY DraftIsOut DEF Ahead, Present
<1>4. TypeOK'
  BY <1>2, <1>3, ItemFacts DEF Turn, IInv, TypeOK
<1>5. ASSUME NEW k \in Items, k[1] = "in" PROVE earlier'[k] = earlier[k]
  BY <1>2, <1>5, ItemFacts DEF Turn, IInv, TypeOK
<1>6. Inbox'
  BY <1>5, InboxKept, ItemFacts DEF Turn
<1>7. ASSUME NEW v \in Workers PROVE OnJob(v)'
  BY <1>2, <1>5 DEF Turn, IInv, OnJob, Holding, TypeOK
<1>8. OneEach'
  BY DEF Turn, IInv, OneEach, Holding, TypeOK
<1> QED
  BY <1>4, <1>6, <1>7, <1>8 DEF Turn, IInv, Tried, AnsweredOnce, OutboxHonest

LEMMA DeliverIInv ==
  ASSUME IInv, NEW w \in Workers, Deliver(w)
  PROVE  IInv'
<1>1. PICK j \in Jobs : job[w] = Out(j)
  BY DEF Deliver
<1>2. /\ job[w][1] = "out" /\ job[w] \in Items /\ pc[w] = "working"
      /\ sent \subseteq sent' /\ sent' \subseteq sent \cup {Out(j)}
      /\ UNCHANGED <<status, earlier, attempts, due, templates, job, fresh>>
  BY <1>1, ItemFacts DEF Deliver, rows
<1>3. /\ pc'[w] \in {"closing", "finishing", "failing"}
      /\ pc'[w] = "finishing" => job[w] \in sent'
      /\ \A v \in Workers \ {w} : pc'[v] = pc[v]
      /\ pc' \in [Workers -> {"off", "idle", "working", "finishing", "failing", "closing"}]
  BY DEF Deliver, IInv, TypeOK
<1>4. TypeOK'
  BY <1>1, <1>2, <1>3 DEF IInv, TypeOK
<1>5. ASSUME NEW v \in Workers PROVE OnJob(v)'
  BY <1>2, <1>3 DEF IInv, OnJob, Holding
<1>6. OneEach'
  BY <1>2, <1>3 DEF IInv, OneEach, Holding
<1>7. status[Out(j)] = "pending"
  BY <1>1, <1>2 DEF IInv, OnJob, Holding
<1>8. OutboxHonest'
  BY <1>2, <1>7, ItemFacts DEF IInv, OutboxHonest, AnsweredOnce
<1> QED
  BY <1>2, <1>4, <1>5, <1>6, <1>8 DEF IInv, Inbox, Tried, AnsweredOnce

LEMMA UndoKeeps ==
  ASSUME IInv, NEW w \in Workers, Undo(w)
  PROVE  /\ \A k \in Items : k[1] = "in" => earlier'[k] = earlier[k]
         /\ earlier' \in [Items -> SUBSET Items]
         /\ Inbox'
<1>1. ASSUME NEW k \in Items, k[1] = "in" PROVE earlier'[k] = earlier[k]
  <2>1. k = In(k[2]) /\ k[2] \in Jobs
    BY <1>1, ItemFacts
  <2>2. \A i \in earlier[k] : i[1] = "in"
    BY <2>1 DEF IInv, Inbox
  <2>3. k \notin Draft(w) /\ earlier[k] \ Draft(w) = earlier[k]
    BY <1>1, <2>2, DraftIsOut
  <2> QED
    BY <2>3 DEF Undo
<1>2. earlier' \in [Items -> SUBSET Items]
  BY DEF Undo, IInv, TypeOK
<1> QED
  BY <1>1, <1>2, InboxKept, ItemFacts DEF Undo

LEMMA StopIInv ==
  ASSUME IInv, NEW w \in Workers, Fail(w) \/ Crash(w)
  PROVE  IInv'
<1>1. /\ Undo(w) /\ UNCHANGED <<status, attempts, due, sent, fresh>>
      /\ \A v \in Workers \ {w} : pc'[v] = pc[v] /\ job'[v] = job[v]
      /\ \/ pc'[w] = "failing" /\ job'[w] = job[w] /\ pc[w] \notin {"off", "idle"}
         \/ pc'[w] = "idle" /\ job'[w] = NoItem
  BY DEF Fail, Crash, Undo, IInv, TypeOK, Holding
<1>2. TypeOK'
  BY <1>1, UndoKeeps DEF Undo, Fail, Crash, IInv, TypeOK
<1>3. ASSUME NEW v \in Workers PROVE OnJob(v)'
  <2>1. CASE v = w
    BY <1>1, <2>1 DEF IInv, OnJob, Holding
  <2>2. CASE v # w
    BY <1>1, <2>2, UndoKeeps DEF IInv, OnJob, Holding
  <2> QED
    BY <2>1, <2>2
<1>4. OneEach'
  BY <1>1 DEF IInv, OneEach, Holding
<1> QED
  BY <1>1, <1>2, <1>3, <1>4, UndoKeeps DEF IInv, Tried, AnsweredOnce, OutboxHonest

\* What Finish makes of the rows: the job done, its reply queued, replies reopened.
LEMMA FinishRows ==
  ASSUME IInv, NEW w \in Workers, Finish(w)
  PROVE  /\ job[w] \in Items /\ status[job[w]] = "pending" /\ status'[job[w]] = "done"
         /\ \A k \in Items \ {job[w]} :
               /\ status[k] \in {"pending", "done", "dead"} /\ k \notin Draft(w) =>
                     status'[k] = status[k]
               /\ status[k] # "none" => status'[k] # "none"
               /\ status'[k] = "done" => status[k] = "done" /\ k \notin Draft(w)
               /\ status'[k] = "dead" => status[k] = "dead"
               /\ k \in Draft(w) => status'[k] = "pending"
               /\ status[k] = "none" /\ k \notin Draft(w) => status'[k] = "none"
               /\ k[1] = "in" => status'[k] = status[k]
         /\ \A v \in Workers \ {w} : pc'[v] = pc[v] /\ job'[v] = job[v]
         /\ pc'[w] = "idle" /\ UNCHANGED <<earlier, attempts, templates, sent, fresh>>
<1>1. job[w] \in Items /\ status[job[w]] = "pending"
  BY DEF Finish, IInv, OnJob, Holding
<1>2. \A s : \A k \in Owed(s) : k[1] = "out" /\ status[k] = "waiting_window"
  BY OwedAreOut
<1>3. \A k \in Draft(w) : k[1] = "out"
  BY DraftIsOut
<1>4. /\ \A k \in Items :
            \/ k = job[w] /\ status'[k] = "done"
            \/ k # job[w] /\ k \in Draft(w) /\ status'[k] = "pending"
            \/ /\ k # job[w] /\ k \notin Draft(w) /\ status'[k] = "pending"
               /\ \E s : k \in Owed(s)
            \/ k # job[w] /\ k \notin Draft(w) /\ status'[k] = status[k]
  BY DEF Finish
<1>5. /\ \A v \in Workers \ {w} : pc'[v] = pc[v] /\ job'[v] = job[v]
      /\ pc'[w] = "idle" /\ UNCHANGED <<earlier, attempts, templates, sent, fresh>>
  BY DEF Finish, IInv, TypeOK
<1> QED
  BY <1>1, <1>2, <1>3, <1>4, <1>5

LEMMA FinishIInv ==
  ASSUME IInv, NEW w \in Workers, Finish(w)
  PROVE  IInv'
<1>1. ASSUME NEW j \in Jobs PROVE status[Out(j)] # "none" <=> status[In(j)] = "done"
  BY DEF IInv, AnsweredOnce
<1>2. TypeOK'
  <2>1. status' \in [Items -> {"none", "pending", "waiting_window", "done", "dead"}]
    BY DEF Finish, IInv, TypeOK
  <2> QED
    BY <2>1 DEF Finish, IInv, TypeOK
<1>3. \A k \in Draft(w) : status[k] = "none" /\ k = Out(k[2]) /\ job[w] = In(k[2]) /\ k[2] \in Jobs
  BY <1>1, DraftIsOut, FinishRows, ItemFacts
<1>4. \A k \in Items : /\ status[k] = "done" => status'[k] = "done"
                       /\ status[k] \in {"pending", "dead"} /\ k # job[w] => status'[k] = status[k]
  BY <1>3, FinishRows
<1>5. ASSUME NEW v \in Workers PROVE OnJob(v)'
  <2>1. CASE v = w
    BY <2>1, FinishRows DEF OnJob, Holding
  <2>2. CASE v # w
    <3>1. pc[v] \in Holding => job[v] # job[w]
      BY <2>2 DEF Finish, IInv, OneEach, Holding
    <3>2. pc[v] \notin {"off", "idle"} => job[v] \in Items /\ earlier[job[v]] \subseteq Items
      BY DEF IInv, OnJob, TypeOK
    <3> QED
      BY <1>4, <2>2, <3>1, <3>2, FinishRows DEF IInv, OnJob, Holding
  <2> QED
    BY <2>1, <2>2
<1>6. OneEach'
  BY FinishRows DEF IInv, OneEach, Holding
<1>7. Inbox'
  <2>1. \A k \in Items : k[1] = "in" => /\ status'[k] # "none" <=> status[k] # "none"
                                        /\ status'[k] = "waiting_window" => status[k] = "waiting_window"
    BY FinishRows
  <2>2. \A j \in Jobs : earlier[In(j)] \subseteq Items /\ earlier' = earlier
    BY FinishRows, ItemFacts DEF IInv, TypeOK
  <2> QED
    BY <2>1, <2>2, ItemFacts DEF IInv, Inbox
<1>8. Tried'
  BY <1>4, FinishRows DEF IInv, Tried
<1>9. ASSUME NEW j \in Jobs PROVE status'[Out(j)] # "none" <=> status'[In(j)] = "done"
  <2>1. CASE job[w] = In(j)
    <3>1. Out(j) \in Draft(w) /\ Out(j) # job[w]
      BY <2>1, ItemFacts DEF Finish, Draft
    <3> QED
      BY <2>1, <3>1, FinishRows, ItemFacts
  <2>2. CASE job[w] # In(j)
    <3>1. Out(j) \notin Draft(w)
      BY <1>3, <2>2, ItemFacts
    <3>2. status'[In(j)] = status[In(j)]
      BY <2>2, FinishRows, ItemFacts
    <3>3. status'[Out(j)] # "none" <=> status[Out(j)] # "none"
      BY <3>1, FinishRows, ItemFacts
    <3> QED
      BY <1>1, <3>2, <3>3
  <2> QED
    BY <2>1, <2>2
<1>10. ASSUME NEW j \in Jobs
       PROVE  /\ status'[Out(j)] = "done" => Out(j) \in sent'
              /\ Out(j) \in sent' => status'[In(j)] = "done"
  <2>1. job[w] = Out(j) => Out(j) \in sent
    BY ItemFacts DEF Finish, IInv, OnJob
  <2>2. status'[Out(j)] = "done" => job[w] = Out(j) \/ status[Out(j)] = "done"
    BY FinishRows, ItemFacts
  <2> QED
    BY <1>4, <2>1, <2>2, FinishRows, ItemFacts DEF IInv, OutboxHonest
<1> QED
  BY <1>2, <1>5, <1>6, <1>7, <1>8, <1>9, <1>10 DEF IInv, AnsweredOnce, OutboxHonest

\* A row that was pending or dead is set to what it may be instead.
LEMMA RowSet ==
  ASSUME IInv, NEW k \in Items, ~Locked(k), status[k] \in {"pending", "dead"},
         NEW value \in {"pending", "dead", "waiting_window"},
         value = "waiting_window" => k[1] = "out",
         status' = [status EXCEPT ![k] = value],
         UNCHANGED <<earlier, sent>>,
         \A v \in Workers : (pc'[v] = pc[v] /\ job'[v] = job[v]) \/ pc'[v] = "idle"
  PROVE  (\A v \in Workers : OnJob(v)') /\ OneEach' /\ Inbox' /\ AnsweredOnce' /\ OutboxHonest'
<1>1. ASSUME NEW i \in Items
      PROVE  status'[i] = (IF i = k THEN value ELSE status[i])
  BY DEF IInv, TypeOK
<1>2. ASSUME NEW v \in Workers PROVE OnJob(v)'
  <2>1. pc[v] \in Holding => job[v] # k
    BY DEF Locked
  <2>2. pc[v] \notin {"off", "idle"} => job[v] \in Items /\ earlier[job[v]] \subseteq Items
    BY DEF IInv, OnJob, TypeOK
  <2> QED
    BY <1>1, <2>1, <2>2 DEF IInv, OnJob, Holding
<1>3. OneEach'
  BY DEF IInv, OneEach, Holding
<1>4. Inbox'
  <2>1. \A j \in Jobs : earlier[In(j)] \subseteq Items /\ In(j) \in Items /\ In(j)[1] = "in"
    BY ItemFacts DEF IInv, TypeOK
  <2> QED
    BY <1>1, <2>1 DEF IInv, Inbox
<1>5. AnsweredOnce' /\ OutboxHonest'
  BY <1>1, ItemFacts DEF IInv, AnsweredOnce, OutboxHonest
<1> QED
  BY <1>2, <1>3, <1>4, <1>5

LEMMA RecoverIInv ==
  ASSUME IInv, NEW w \in Workers, Recover(w)
  PROVE  IInv'
<1> DEFINE k == job[w]
<1>1. /\ k \in Items /\ ~Locked(k)
      /\ pc'[w] = "idle" /\ \A v \in Workers \ {w} : pc'[v] = pc[v] /\ job'[v] = job[v]
      /\ UNCHANGED <<sent, fresh, earlier, templates>>
      /\ pc' \in [Workers -> {"off", "idle", "working", "finishing", "failing", "closing"}]
      /\ job' \in [Workers -> Items \cup {NoItem}]
  BY DEF Recover, IInv, OnJob, TypeOK, rows
<1>2. k[1] \in {"in", "out"} /\ (pc[w] = "closing" => k[1] = "out")
  BY <1>1, ItemFacts DEF Recover, IInv, OnJob
<1> HIDE DEF k
<1>3. CASE UNCHANGED rows
  BY <1>1, <1>3 DEF rows, IInv, TypeOK, OnJob, OneEach, Inbox, Tried, AnsweredOnce, OutboxHonest, Holding
<1>4. CASE /\ status[k] = "pending" /\ pc[w] = "closing"
           /\ status' = [status EXCEPT ![k] = "waiting_window"]
           /\ UNCHANGED <<earlier, attempts, due, templates>>
  <2>1. TypeOK' /\ Tried'
    BY <1>1, <1>4 DEF IInv, TypeOK, Tried
  <2> QED
    BY <1>1, <1>2, <1>4, <2>1, RowSet DEF IInv
<1>5. CASE /\ status[k] = "pending" /\ pc[w] = "failing"
           /\ attempts' = [attempts EXCEPT ![k] = @ + 1]
           /\ due' = [due EXCEPT ![k] = FALSE]
           /\ status' = IF attempts'[k] >= MaxAttempts
                        THEN [status EXCEPT ![k] = "dead"] ELSE status
           /\ UNCHANGED <<earlier, templates>>
  <2>1. attempts[k] \in Nat /\ attempts[k] < MaxAttempts /\ attempts'[k] = attempts[k] + 1
    BY <1>1, <1>5, QueueAssumption DEF IInv, TypeOK, Tried
  <2>2. attempts' \in [Items -> 0 .. MaxAttempts]
    BY <1>1, <1>5, <2>1, QueueAssumption DEF IInv, TypeOK
  <2>3. PICK value \in {"pending", "dead"} :
            /\ status' = [status EXCEPT ![k] = value]
            /\ value = "pending" => attempts'[k] < MaxAttempts
    <3>1. CASE attempts'[k] >= MaxAttempts
      BY <1>5, <3>1
    <3>2. CASE ~(attempts'[k] >= MaxAttempts)
      <4>1. status' = [status EXCEPT ![k] = "pending"]
        BY <1>1, <1>5, <3>2 DEF IInv, TypeOK
      <4>2. attempts'[k] < MaxAttempts
        BY <2>1, <3>2, QueueAssumption
      <4> QED
        BY <4>1, <4>2
    <3> QED
      BY <3>1, <3>2
  <2>4. TypeOK'
    BY <1>1, <1>5, <2>2, <2>3 DEF IInv, TypeOK
  <2>5. Tried'
    BY <1>1, <1>5, <2>3 DEF IInv, TypeOK, Tried
  <2> QED
    BY <1>1, <1>5, <2>3, <2>4, <2>5, RowSet DEF IInv
<1> QED
  BY <1>3, <1>4, <1>5 DEF Recover, k

LEMMA WorldIInv ==
  ASSUME IInv, NEW k \in Items, NEW j \in Jobs, BackoffEnds(k) \/ Ages(j) \/ RetryDead(k)
  PROVE  IInv'
<1>1. CASE BackoffEnds(k) \/ Ages(j)
  <2>1. UNCHANGED <<status, earlier, attempts, pc, job, sent>>
    BY <1>1 DEF BackoffEnds, Ages, rows
  <2>2. TypeOK'
    BY <1>1 DEF BackoffEnds, Ages, rows, IInv, TypeOK
  <2>3. (\A w \in Workers : OnJob(w)') /\ OneEach' /\ Inbox' /\ Tried'
    BY <2>1 DEF IInv, OnJob, OneEach, Inbox, Tried
  <2> QED
    BY <2>1, <2>2, <2>3 DEF IInv, AnsweredOnce, OutboxHonest
<1>2. CASE RetryDead(k)
  <2>1. ~Locked(k)
    BY <1>2 DEF RetryDead, Locked, IInv, OnJob
  <2>2. TypeOK' /\ Tried'
    BY <1>2, QueueAssumption DEF RetryDead, IInv, TypeOK, Tried
  <2> QED
    BY <1>2, <2>1, <2>2, RowSet DEF RetryDead, IInv
<1> QED
  BY <1>1, <1>2

LEMMA NextIInv == IInv /\ [Next]_vars => IInv'
<1> SUFFICES ASSUME IInv, [Next]_vars PROVE IInv'
  OBVIOUS
<1>1. CASE UNCHANGED vars
  BY <1>1 DEF vars, rows, IInv, TypeOK, OnJob, OneEach, Inbox, Tried, AnsweredOnce, OutboxHonest
<1>2. ASSUME NEW j \in Jobs, Ages(j) PROVE IInv'
  BY <1>2, WorldIInv, ItemFacts
<1>3. ASSUME NEW k \in Items, BackoffEnds(k) \/ RetryDead(k) PROVE IInv'
  BY <1>3, WorldIInv, ItemFacts
<1>4. ASSUME NEW w \in Workers, Handle(w) \/ Settle(w) \/ Crash(w) PROVE IInv'
  BY <1>4, TurnIInv, DeliverIInv, StopIInv, FinishIInv, RecoverIInv DEF Handle, Settle
<1> QED
  BY <1>1, <1>2, <1>3, <1>4, ReceiveIInv, PickIInv DEF Next

LEMMA Invariant == Spec => []IInv
  BY InitIInv, NextIInv, PTL DEF Spec

-----------------------------------------------------------------------------
(* Theorems *)

\* Every variable keeps to its type; attempts never exceed their maximum.
THEOREM QueueTypeCorrect == Spec => []TypeOK
  BY Invariant, PTL DEF IInv

\* Whoever handles what a sender said, everything said before has been handled and
\* nobody else works in that lane, for any number of workers, crashes and retries.
THEOREM NobodyOvertakes == Spec => []TurnsInOrder
<1>1. IInv => TurnsInOrder
  BY LanesAlone DEF IInv, OnJob, TurnsInOrder
<1> QED
  BY <1>1, Invariant, PTL

\* A reply exists exactly where its job has been handled.
THEOREM EachAnsweredOnce == Spec => []AnsweredOnce
  BY Invariant, PTL DEF IInv

\* A reply marked done was accepted by Meta, and none goes out for a turn undone.
THEOREM OutboxIsHonest == Spec => []OutboxHonest
  BY Invariant, PTL DEF IInv

-----------------------------------------------------------------------------
(* The queue is a conversation *)

LEMMA ReceiveSays ==
  ASSUME IInv, IInv', NEW j \in Jobs, Receive(j)
  PROVE  Conversation!Say(j) \/ UNCHANGED <<Said, Before, Answered>>
<1> DEFINE new == {In(j)} \ Present
<1>1. new = IF status[In(j)] = "none" THEN {In(j)} ELSE {}
  BY InPresent
<1>2. /\ \A k \in Items : status'[k] = IF k \in new \cup Owed(From[j]) THEN "pending" ELSE status[k]
      /\ \A k \in Items : earlier'[k] = IF k \in new THEN Ahead(k) ELSE earlier[k]
  BY DEF Receive
<1>3. \A k \in Items : k \notin new => (status'[k] # "none" <=> status[k] # "none")
  BY <1>2, OwedAreOut
<1> HIDE DEF new
<1>4. Answered' = Answered
  BY <1>1, <1>3, ItemFacts DEF Answered
<1>5. CASE status[In(j)] # "none"
  <2>1. Said' = Said
    BY <1>1, <1>3, <1>5, ItemFacts DEF Said
  <2>2. Before' = Before
    BY <1>1, <1>2, <1>5, ItemFacts DEF Before
  <2> QED
    BY <1>4, <2>1, <2>2
<1>6. CASE status[In(j)] = "none"
  <2>1. j \notin Said /\ Said' = Said \cup {j}
    BY <1>1, <1>2, <1>3, <1>6, ItemFacts DEF Said
  <2>2. ASSUME NEW i \in Jobs
        PROVE  In(i) \in Ahead(In(j)) <=> i \in Said /\ From[i] = From[j]
    BY InPresent, ItemFacts DEF Ahead, Lane, Said
  <2>3. {i \in Jobs : In(i) \in Ahead(In(j))} = {i \in Said : From[i] = From[j]}
    BY <2>2 DEF Said
  <2>4. Before' = [Before EXCEPT ![j] = {i \in Said : From[i] = From[j]}]
    <3>1. ASSUME NEW i \in Jobs
          PROVE  earlier'[In(i)] = IF i = j THEN Ahead(In(j)) ELSE earlier[In(i)]
      BY <1>1, <1>2, <1>6, ItemFacts
    <3> QED
      BY <2>3, <3>1 DEF Before
  <2> QED
    BY <1>4, <2>1, <2>4 DEF Conversation!Say
<1> QED
  BY <1>5, <1>6

LEMMA FinishAnswers ==
  ASSUME IInv, IInv', NEW w \in Workers, Finish(w)
  PROVE  (\E j \in Jobs : Conversation!Answer(j)) \/ UNCHANGED <<Said, Before, Answered>>
<1> DEFINE j == job[w][2]
<1>1. job[w] \in Items /\ j \in Jobs
  BY FinishRows, ItemFacts
<1>2. Said' = Said /\ Before' = Before
  BY FinishRows, ItemFacts DEF Said, Before
<1>3. \A i \in Jobs : Out(i) \notin Draft(w) =>
          (status'[Out(i)] # "none" <=> status[Out(i)] # "none")
  BY FinishRows, ItemFacts
<1>4. CASE job[w][1] = "out"
  <2>1. Answered' = Answered
    BY <1>3, <1>4 DEF Answered, Draft
  <2> QED
    BY <1>2, <2>1
<1>5. CASE job[w][1] = "in"
  <2>1. job[w] = In(j) /\ Draft(w) = {Out(j)}
    BY <1>1, <1>5, ItemFacts DEF Finish, Draft
  <2>2. status[In(j)] = "pending" /\ status'[Out(j)] # "none"
    BY <1>1, <2>1, FinishRows, ItemFacts
  <2>3. j \in Said \ Answered
    BY <1>1, <2>2 DEF Said, Answered, IInv, AnsweredOnce
  <2>4. Answered' = Answered \cup {j}
    BY <1>1, <1>3, <2>1, <2>2, ItemFacts DEF Answered
  <2>5. Before[j] \subseteq Answered
    <3>1. \A i \in earlier[In(j)] : status[i] = "done"
      BY <1>5, <2>1 DEF Finish, IInv, OnJob, Holding
    <3> QED
      BY <1>1, <3>1 DEF Before, Answered, IInv, AnsweredOnce
  <2> HIDE DEF j
  <2> QED
    BY <1>1, <1>2, <2>3, <2>4, <2>5 DEF Conversation!Answer
<1> QED
  BY <1>1, <1>4, <1>5, ItemFacts

\* No other step shows.
LEMMA OthersHidden ==
  ASSUME IInv, [Next]_vars
  PROVE  \/ \E j \in Jobs : Receive(j)
         \/ \E w \in Workers : Finish(w)
         \/ UNCHANGED <<Said, Before, Answered>>
<1>1. ASSUME UNCHANGED <<status, earlier>> PROVE UNCHANGED <<Said, Before, Answered>>
  BY <1>1 DEF Said, Before, Answered
<1>2. ASSUME NEW w \in Workers, Turn(w) PROVE UNCHANGED <<Said, Before, Answered>>
  <2>1. \A j \in Jobs : earlier'[In(j)] = earlier[In(j)]
    BY <1>2, ItemFacts DEF Turn, IInv, TypeOK
  <2> QED
    BY <1>2, <2>1 DEF Turn, Said, Before, Answered
<1>3. ASSUME NEW w \in Workers, Undo(w) PROVE UNCHANGED <<Said, Before, Answered>>
  <2>1. \A j \in Jobs : earlier'[In(j)] = earlier[In(j)]
    BY <1>3, UndoKeeps, ItemFacts
  <2> QED
    BY <1>3, <2>1 DEF Undo, Said, Before, Answered
<1>4. ASSUME NEW k \in Items, NEW value \in {"pending", "waiting_window", "dead"}, status[k] # "none",
             status' = [status EXCEPT ![k] = value], UNCHANGED earlier
      PROVE  UNCHANGED <<Said, Before, Answered>>
  <2>1. \A i \in Items : status'[i] # "none" <=> status[i] # "none"
    BY <1>4 DEF IInv, TypeOK
  <2> QED
    BY <1>4, <2>1, ItemFacts DEF Said, Before, Answered
<1>5. ASSUME NEW w \in Workers, Recover(w) PROVE UNCHANGED <<Said, Before, Answered>>
  <2>1. job[w] \in Items
    BY <1>5 DEF Recover, IInv, OnJob
  <2>2. \/ UNCHANGED <<status, earlier>>
        \/ \E value \in {"waiting_window", "dead"} :
              /\ status[job[w]] # "none" /\ UNCHANGED earlier
              /\ status' = [status EXCEPT ![job[w]] = value]
    BY <1>5 DEF Recover, rows
  <2>3. CASE UNCHANGED <<status, earlier>>
    BY <1>1, <2>3
  <2>4. ASSUME NEW value \in {"waiting_window", "dead"}, status[job[w]] # "none", UNCHANGED earlier,
               status' = [status EXCEPT ![job[w]] = value]
        PROVE  UNCHANGED <<Said, Before, Answered>>
    BY <1>4, <2>1, <2>4
  <2> QED
    BY <2>2, <2>3, <2>4
<1>6. ASSUME NEW k \in Items, RetryDead(k) PROVE UNCHANGED <<Said, Before, Answered>>
  BY <1>4, <1>6 DEF RetryDead
<1>7. ASSUME NEW w \in Workers, Handle(w) \/ Crash(w) PROVE UNCHANGED <<Said, Before, Answered>>
  <2>1. CASE Deliver(w)
    BY <1>1, <2>1 DEF Deliver, rows
  <2>2. CASE Fail(w) \/ Crash(w)
    BY <1>3, <2>2 DEF Fail, Crash
  <2> QED
    BY <1>2, <1>7, <2>1, <2>2 DEF Handle
<1>8. ASSUME NEW j \in Jobs, Ages(j) PROVE UNCHANGED <<status, earlier>>
  BY <1>8 DEF Ages, rows
<1>9. ASSUME NEW k \in Items, BackoffEnds(k) PROVE UNCHANGED <<status, earlier>>
  BY <1>9 DEF BackoffEnds
<1>10. ASSUME NEW w \in Workers, NEW k \in Items, Pick(w, k) PROVE UNCHANGED <<status, earlier>>
  BY <1>10 DEF Pick, rows
<1>11. UNCHANGED vars => UNCHANGED <<status, earlier>>
  BY DEF vars, rows
<1> QED
  BY <1>1, <1>5, <1>6, <1>7, <1>8, <1>9, <1>10, <1>11 DEF Next, Settle

\* What a sender sees is a conversation: what they say is taken in once and
\* answered once, in the order they said it.
THEOREM QueueImplementsDialogue == Spec => ImplementsDialogue
<1>1. Init => Conversation!Init
  BY ItemFacts DEF Init, Conversation!Init, Said, Before, Answered
<1>2. IInv /\ IInv' /\ [Next]_vars => [Conversation!Next]_(Conversation!vars)
  BY ReceiveSays, FinishAnswers, OthersHidden DEF Conversation!Next, Conversation!vars
<1> QED
  BY <1>1, <1>2, Invariant, PTL DEF Spec, ImplementsDialogue, Conversation!Spec

-----------------------------------------------------------------------------
(* Replies, with one worker *)

\* What comes before a reply are replies to the same person, and on record.
Outbox == \A j \in Jobs : \A i \in earlier[Out(j)] :
    Lane(i) = Lane(Out(j)) /\ status[i] # "none"

\* Who can be written to is not kept waiting for the window.
Parked == \A j \in Jobs : status[Out(j)] = "waiting_window" => ~WindowOpen(To[j])

\* A template never waits for the window.
Words == \A j \in Jobs : status[Out(j)] = "waiting_window" => Out(j) \notin templates

\* Who is about to put a reply aside still may, and who is about to send one finds
\* those before it sent, or in words while the window is shut.
Minds(w) ==
    /\ pc[w] = "closing" => ~WindowOpen(To[job[w][2]]) /\ job[w] \notin templates
    /\ (pc[w] = "working" /\ job[w][1] = "out") =>
          \A i \in earlier[job[w]] :
              i \in sent \/ (i \notin templates /\ ~WindowOpen(To[job[w][2]]))

Told == Outbox /\ Words /\ Parked /\ \A w \in Workers : Minds(w)

\* A worker that was started works alone, and stays alone.
LEMMA OthersOff ==
  ASSUME IInv, OneWorker, NEW w \in Workers, Handle(w) \/ Settle(w) \/ Crash(w),
         NEW v \in Workers, v # w
  PROVE  pc[v] = "off" /\ pc'[v] = "off"
<1>1. pc[w] # "off"
  BY DEF Handle, Turn, Deliver, Fail, Settle, Finish, Recover, Crash, Holding
<1>2. pc'[v] = pc[v]
  BY DEF Handle, Turn, Deliver, Fail, Settle, Finish, Recover, Crash, IInv, TypeOK
<1> QED
  BY <1>1, <1>2 DEF OneWorker

LEMMA NobodyStarts ==
  ASSUME IInv, [Next]_vars
  PROVE  \A w \in Workers : pc'[w] = "off" <=> pc[w] = "off"
<1>1. CASE \E w \in Workers : Handle(w) \/ Settle(w) \/ Crash(w)
  BY <1>1 DEF Handle, Turn, Deliver, Fail, Settle, Finish, Recover, Crash, Holding, IInv, TypeOK
<1>2. CASE \E w \in Workers, k \in Items : Pick(w, k)
  BY <1>2 DEF Pick, IInv, TypeOK
<1>3. CASE UNCHANGED pc
  BY <1>3
<1> QED
  BY <1>1, <1>2, <1>3 DEF Next, vars, Receive, Ages, BackoffEnds, RetryDead

\* Only what is handled opens a window.
LEMMA WindowStays ==
  ASSUME NEW s, WindowOpen(s)',
         \A j \in Jobs : status'[In(j)] = "done" /\ fresh'[j] => status[In(j)] = "done" /\ fresh[j]
  PROVE  WindowOpen(s)
  BY DEF WindowOpen

\* A step that handles nothing and leaves workers and replies where they are.
LEMMA ToldStays ==
  ASSUME IInv, Told, UNCHANGED <<templates, pc, job, sent>>,
         \A j \in Jobs : earlier'[Out(j)] = earlier[Out(j)],
         \A k \in Items : /\ status[k] # "none" => status'[k] # "none"
                          /\ status'[k] = "waiting_window" => status[k] = "waiting_window",
         \A j \in Jobs : status'[In(j)] = "done" /\ fresh'[j] => status[In(j)] = "done" /\ fresh[j]
  PROVE  Told'
<1>1. \A s : WindowOpen(s)' => WindowOpen(s)
  BY WindowStays
<1>2. \A j \in Jobs : earlier[Out(j)] \subseteq Items
  BY ItemFacts DEF IInv, TypeOK
<1>3. Outbox' /\ Words'
  BY <1>2, ItemFacts DEF Told, Outbox, Words, Lane
<1>4. Parked'
  BY <1>1, ItemFacts DEF Told, Parked
<1>5. ASSUME NEW w \in Workers PROVE Minds(w)'
  <2>1. pc[w] = "closing" => ~WindowOpen(To[job[w][2]])' /\ job[w] \notin templates
    BY <1>1 DEF Told, Minds
  <2>2. CASE pc[w] = "working" /\ job[w][1] = "out"
    <3>1. job[w] = Out(job[w][2]) /\ job[w][2] \in Jobs
      BY <2>2, ItemFacts DEF IInv, OnJob
    <3>2. earlier'[job[w]] = earlier[job[w]]
      BY <3>1
    <3> QED
      BY <1>1, <2>2, <3>2 DEF Told, Minds
  <2> QED
    BY <2>1, <2>2 DEF Minds
<1> QED
  BY <1>3, <1>4, <1>5 DEF Told

\* Whatever comes before a reply that is free to go was sent, or waits in words for the
\* same window.
LEMMA PickMinds ==
  ASSUME IInv, Told, NEW w \in Workers, NEW k \in Items, Pick(w, k)
  PROVE  Told'
<1>1. UNCHANGED <<rows, sent, fresh>> /\ UNCHANGED <<status, earlier, templates>>
  BY DEF Pick, rows
<1>2. \A s : WindowOpen(s)' <=> WindowOpen(s)
  BY <1>1 DEF WindowOpen
<1>3. ASSUME NEW v \in Workers PROVE Minds(v)'
  <2>1. CASE v # w
    <3>1. pc'[v] = pc[v] /\ job'[v] = job[v]
      BY <2>1 DEF Pick, IInv, TypeOK
    <3> QED
      BY <1>1, <1>2, <3>1 DEF Told, Minds
  <2>2. CASE v = w
    <3>1. pc'[v] = "working" /\ job'[v] = k /\ Runnable(k)
      BY <2>2 DEF Pick, IInv, TypeOK
    <3>2. ASSUME k[1] = "out", NEW i \in earlier[k]
          PROVE  i \in sent \/ (i \notin templates /\ ~WindowOpen(To[k[2]]))
      <4>1. k = Out(k[2]) /\ k[2] \in Jobs /\ i \in Items
        BY <3>2, ItemFacts DEF IInv, TypeOK
      <4>2. Lane(i) = Lane(k) /\ status[i] # "none"
        BY <3>2, <4>1 DEF Told, Outbox
      <4>3. i = Out(i[2]) /\ i[2] \in Jobs /\ To[i[2]] = To[k[2]]
        BY <3>2, <4>1, <4>2, ItemFacts DEF Lane
      <4>4. status[i] \in {"done", "waiting_window"}
        BY <3>1, <3>2, <4>1, <4>2 DEF Runnable, Blocks, IInv, TypeOK
      <4>5. status[i] = "done" => i \in sent
        BY <4>3 DEF IInv, OutboxHonest
      <4>6. status[i] = "waiting_window" => i \notin templates /\ ~WindowOpen(To[k[2]])
        BY <4>3 DEF Told, Words, Parked
      <4> QED
        BY <4>4, <4>5, <4>6
    <3> QED
      BY <1>1, <1>2, <3>1, <3>2 DEF Minds
  <2> QED
    BY <2>1, <2>2
<1>4. Outbox' /\ Words' /\ Parked'
  BY <1>1, <1>2 DEF Told, Outbox, Words, Parked, Lane
<1> QED
  BY <1>3, <1>4 DEF Told

LEMMA HandleMinds ==
  ASSUME IInv, Told, OneWorker, NEW w \in Workers, Handle(w) \/ Crash(w)
  PROVE  Told'
<1>1. UNCHANGED <<status, fresh>>
  BY DEF Handle, Turn, Deliver, Fail, Crash, Undo, rows
<1>2. \A s : WindowOpen(s)' <=> WindowOpen(s)
  BY <1>1 DEF WindowOpen
<1>3. Parked'
  BY <1>1, <1>2 DEF Told, Parked
<1>4. /\ pc'[w] # "working"
      /\ pc'[w] = "closing" => /\ job'[w] = job[w] /\ job[w] \notin templates'
                               /\ ~WindowOpen(To[job[w][2]])
  BY DEF Handle, Turn, Deliver, MayGo, Fail, Crash, rows, IInv, TypeOK
<1>5. \A v \in Workers : Minds(v)'
  BY <1>2, <1>4, OthersOff DEF Minds
<1>6. Outbox'
  <2>1. CASE Turn(w)
    <3>1. PICK j \in Jobs : job[w] = In(j)
      BY <2>1 DEF Turn
    <3>2. earlier' = [earlier EXCEPT ![Out(j)] = Ahead(Out(j))]
      <4>1. job[w][2] = j
        BY <3>1, ItemFacts
      <4> QED
        BY <2>1, <4>1, Zenon DEF Turn
    <3>3. \A v \in Workers : Draft(v) = {}
      <4>1. pc[w] = "working"
        BY <2>1 DEF Turn
      <4> QED
        BY <4>1, OthersOff DEF Draft
    <3>4. \A i \in Ahead(Out(j)) : Lane(i) = Lane(Out(j)) /\ status[i] # "none"
      BY <3>3 DEF Ahead, Present
    <3>5. \A i \in Jobs : earlier'[Out(i)] = IF i = j THEN Ahead(Out(j)) ELSE earlier[Out(i)]
      BY <3>2, ItemFacts DEF IInv, TypeOK
    <3> QED
      BY <1>1, <3>4, <3>5 DEF Told, Outbox, Lane
  <2>2. CASE Deliver(w)
    BY <1>1, <2>2 DEF Deliver, rows, Told, Outbox, Lane
  <2>3. CASE Undo(w)
    <3>1. \A k \in Items : earlier'[k] \subseteq earlier[k]
      BY <2>3 DEF Undo
    <3> QED
      BY <1>1, <3>1, ItemFacts DEF Told, Outbox, Lane
  <2> QED
    BY <2>1, <2>2, <2>3 DEF Handle, Fail, Crash
<1>7. ASSUME NEW k \in templates', status[k] = "waiting_window" PROVE k \in templates
  <2>1. CASE Turn(w)
    <3>1. PICK j \in Jobs : job[w] = In(j) /\ job[w][2] = j
      BY <2>1, ItemFacts DEF Turn
    <3>2. status[Out(j)] = "none"
      BY <2>1, <3>1 DEF Turn, IInv, OnJob, Holding, AnsweredOnce
    <3> QED
      BY <1>7, <2>1, <3>1, <3>2 DEF Turn
  <2>2. CASE Deliver(w) \/ Undo(w)
    BY <1>7, <2>2 DEF Deliver, Undo, rows
  <2> QED
    BY <2>1, <2>2 DEF Handle, Fail, Crash
<1>8. Words'
  BY <1>1, <1>7 DEF Told, Words
<1> QED
  BY <1>3, <1>5, <1>6, <1>8 DEF Told

\* Who is answered while a reply of theirs waits finds it reopened.
LEMMA FinishMinds ==
  ASSUME IInv, Told, OneWorker, NEW w \in Workers, Finish(w)
  PROVE  Told'
<1>1. \A v \in Workers : Minds(v)'
  BY FinishRows, OthersOff DEF Settle, Minds
<1>2. Outbox'
  <2>1. \A k \in Items : status[k] # "none" => status'[k] # "none"
    BY FinishRows
  <2>2. \A j \in Jobs : earlier[Out(j)] \subseteq Items
    BY ItemFacts DEF IInv, TypeOK
  <2> QED
    BY <2>1, <2>2, FinishRows DEF Told, Outbox, Lane
<1>3. ASSUME NEW j \in Jobs, status'[Out(j)] = "waiting_window", WindowOpen(To[j])'
      PROVE  FALSE
  <2> DEFINE reopened == IF job[w][1] = "in" THEN Owed(From[job[w][2]]) ELSE {}
  <2>1. status[Out(j)] = "waiting_window" /\ Out(j) \notin reopened
    BY <1>3, ItemFacts DEF Finish
  <2>2. ~WindowOpen(To[j])
    BY <2>1 DEF Told, Parked
  <2>3. PICK i \in Jobs : From[i] = To[j] /\ status'[In(i)] = "done" /\ fresh[i]
    BY <1>3, <2>2, FinishRows DEF WindowOpen
  <2>4. status[In(i)] # "done"
    BY <2>2, <2>3 DEF WindowOpen
  <2>5. job[w] = In(i)
    BY <2>3, <2>4, FinishRows, ItemFacts
  <2>6. Out(j) \in Owed(From[i])
    BY <2>1, <2>3, ItemFacts DEF Owed, Lane
  <2> QED
    BY <2>1, <2>5, <2>6, ItemFacts
<1>4. Parked'
  BY <1>3 DEF Parked
<1>5. Words'
  BY ItemFacts DEF Finish, Told, Words
<1> QED
  BY <1>1, <1>2, <1>4, <1>5 DEF Told

LEMMA RecoverMinds ==
  ASSUME IInv, Told, OneWorker, NEW w \in Workers, Recover(w)
  PROVE  Told'
<1>1. /\ job[w] \in Items /\ pc'[w] = "idle" /\ UNCHANGED <<earlier, templates, sent, fresh>>
      /\ \/ UNCHANGED status
         \/ /\ pc[w] = "closing" /\ status[job[w]] = "pending"
            /\ status' = [status EXCEPT ![job[w]] = "waiting_window"]
         \/ status[job[w]] = "pending" /\ status' = [status EXCEPT ![job[w]] = "dead"]
  BY DEF Recover, rows, IInv, OnJob, TypeOK
<1>2. /\ \A k \in Items : status[k] # "none" => status'[k] # "none"
      /\ \A k \in Items : status'[k] = "done" => status[k] = "done"
      /\ \A k \in Items : status'[k] = "waiting_window" =>
            status[k] = "waiting_window" \/ (k = job[w] /\ pc[w] = "closing")
  BY <1>1 DEF IInv, TypeOK
<1>3. \A s : WindowOpen(s)' => WindowOpen(s)
  BY <1>1, <1>2, WindowStays, ItemFacts
<1>4. \A v \in Workers : Minds(v)'
  BY <1>1, OthersOff DEF Settle, Minds
<1>5. Parked'
  BY <1>2, <1>3, ItemFacts DEF Told, Parked, Minds
<1>6. Outbox'
  <2>1. \A j \in Jobs : earlier[Out(j)] \subseteq Items
    BY ItemFacts DEF IInv, TypeOK
  <2> QED
    BY <1>1, <1>2, <2>1 DEF Told, Outbox, Lane
<1>7. Words'
  BY <1>1, <1>2, ItemFacts DEF Told, Words, Minds
<1> QED
  BY <1>4, <1>5, <1>6, <1>7 DEF Told

LEMMA ToldStep == ASSUME IInv, Told, OneWorker, [Next]_vars PROVE Told'
<1>1. CASE UNCHANGED vars
  BY <1>1, ToldStays DEF vars, rows
<1>2. ASSUME NEW j \in Jobs, Receive(j) PROVE Told'
  <2> DEFINE new == {In(j)} \ Present
  <2>1. \A k \in new : k = In(j) /\ status[k] = "none"
    BY InPresent
  <2>2. \A k \in Items : status'[k] = IF k \in new \cup Owed(From[j]) THEN "pending" ELSE status[k]
    BY <1>2 DEF Receive
  <2>3. /\ \A i \in Jobs : earlier'[Out(i)] = earlier[Out(i)]
        /\ \A k \in Items : /\ status[k] # "none" => status'[k] # "none"
                            /\ status'[k] = "waiting_window" => status[k] = "waiting_window"
                            /\ status'[k] = "done" => status[k] = "done"
    BY <1>2, <2>1, <2>2, ItemFacts DEF Receive
  <2>4. \A i \in Jobs : status[In(i)] = "done" /\ fresh'[i] => fresh[i]
    BY <1>2, <2>1 DEF Receive, IInv, TypeOK
  <2> QED
    BY <1>2, <2>3, <2>4, ToldStays, ItemFacts DEF Receive
<1>3. ASSUME NEW j \in Jobs, Ages(j) PROVE Told'
  BY <1>3, ToldStays DEF Ages, rows, IInv, TypeOK
<1>4. ASSUME NEW k \in Items, BackoffEnds(k) \/ RetryDead(k) PROVE Told'
  <2>1. /\ UNCHANGED <<earlier, templates, pc, job, sent, fresh>>
        /\ \A i \in Items : /\ status[i] # "none" => status'[i] # "none"
                            /\ status'[i] = "waiting_window" => status[i] = "waiting_window"
                            /\ status'[i] = "done" => status[i] = "done"
    BY <1>4 DEF BackoffEnds, RetryDead, IInv, TypeOK
  <2> QED
    BY <2>1, ToldStays, ItemFacts
<1>5. ASSUME NEW w \in Workers, Handle(w) \/ Settle(w) \/ Crash(w) PROVE Told'
  BY <1>5, HandleMinds, FinishMinds, RecoverMinds DEF Settle
<1> QED
  BY <1>1, <1>2, <1>3, <1>4, <1>5, PickMinds DEF Next

LEMMA ToldAlways == Spec => [](IInv /\ (OneWorker => Told))
<1>1. Init => IInv /\ Told
  BY InitIInv, ItemFacts DEF Init, Told, Outbox, Words, Parked, Minds
<1>2. IInv /\ (OneWorker => Told) /\ [Next]_vars => (IInv /\ (OneWorker => Told))'
  BY NextIInv, NobodyStarts, ToldStep DEF OneWorker
<1> QED
  BY <1>1, <1>2, PTL DEF Spec

\* With one worker no reply is left waiting for its window while its recipient can be
\* written to: what opens the window reopens the reply, and nobody puts one aside later.
THEOREM OwedRepliesReopen == Spec => []OwedMeansClosed
<1>1. (OneWorker => Told) => OwedMeansClosed
  BY DEF Told, Parked, OwedMeansClosed
<1> QED
  BY <1>1, ToldAlways, PTL

\* With one worker only a template overtakes, it overtakes nothing but words, and only
\* while they may not be sent: everything else leaves for a person in the order it was
\* queued, whatever had to wait for the window or died and was retried.
THEOREM RepliesGoInOrder == Spec => RepliesInOrder
<1> DEFINE InTurn(k) == \A i \in earlier[k] \ sent :
                           k \in templates /\ i \notin templates /\ ~WindowOpen(To[k[2]])
<1>1. ASSUME IInv, Told, [Next]_vars, NEW k \in sent' \ sent PROVE InTurn(k)
  <2>1. PICK w \in Workers : Deliver(w)
    BY <1>1 DEF Next, vars, rows, Receive, Ages, Pick, Handle, Settle, Turn, Fail, Finish, Recover,
                Crash, Undo, BackoffEnds, RetryDead
  <2>2. /\ pc[w] = "working" /\ k = job[w] /\ MayGo(k)
        /\ job[w] \in {Out(j) : j \in Jobs}
    BY <1>1, <2>1 DEF Deliver
  <2>3. job[w][1] = "out"
    BY <2>2, ItemFacts
  <2> QED
    BY <1>1, <2>2, <2>3 DEF Told, Minds, MayGo
<1>2. IInv /\ (OneWorker => Told) /\ [Next]_vars =>
          [OneWorker => \A k \in sent' \ sent : InTurn(k)]_vars
  BY <1>1
<1> QED
  BY <1>2, ToldAlways, PTL DEF Spec, RepliesInOrder
==============================================================================
