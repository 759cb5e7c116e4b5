--------------------------- MODULE RequestsProofs ----------------------------
(***************************************************************************)
(* Requests that wait for the owner, proved for any customers, requests,   *)
(* cases and tasks: types and the cars for any interleaving, and for the   *)
(* one durable worker that a conversation waits on one question at a time, *)
(* that what is confirmed is as asked, counted, and not cancelled, and     *)
(* that each request has the one life of Enquiry.                          *)
(***************************************************************************)
EXTENDS Requests, FiniteSetTheorems, WellFoundedInduction, TLAPS

-----------------------------------------------------------------------------
(* Types, for any interleaving *)

Cases == [CaseIds -> Case \cup {NoCase}]

Conversations == [Customers -> Conversation]

\* A case never goes away, and what it asks about stays.
Extends(old, new) ==
    \A k \in CaseIds : old[k] # NoCase =>
        /\ new[k] # NoCase
        /\ new[k].of = old[k].of /\ new[k].about = old[k].about /\ new[k].reason = old[k].reason

AskedRight(cs) ==
    \A k \in CaseIds : cs[k] # NoCase => (cs[k].reason = "booking_hold" <=> cs[k].about \in Requests)

\* An urgent reason freezes a conversation, and a frozen one has a case.
Paged(cs, cvs) ==
    \A c \in Customers : /\ cvs[c].reason = "urgent" => cvs[c].frozen
                         /\ cvs[c].frozen => CasesOf(cs, c) # {}

\* The rows v a session has loaded, when cs are the cases.
Loaded(cs, v) ==
    /\ v.request \in [Requests -> Request]
    /\ v.case \in Cases /\ AskedRight(v.case) /\ Extends(v.case, cs)
    /\ v.conv \in Conversations /\ Paged(cs, v.conv)

\* What a task holds for the step it is at.
Equipped(t) ==
    /\ pc[t] # "idle" => Loaded(case, view[t])
    /\ pc[t] \in {"routing", "turning", "asking"} => of[t] \in Customers
    /\ pc[t] = "asking" => CasesOf(case, of[t]) # {}
    /\ pc[t] = "chasing" => \A k \in late[t] : case[k] # NoCase
    /\ pc[t] \in {"deciding", "relaying", "telling"} =>
          item[t] \in CaseIds /\ case[item[t]] # NoCase
    /\ pc[t] = "deciding" => view[t].case[item[t]] # NoCase

TInv == TypeOK /\ view = [t \in Tasks |-> view[t]] /\ Paged(case, conv) /\ \A t \in Tasks : Equipped(t)

-----------------------------------------------------------------------------
(* The one worker *)

\* Cases are numbered without gaps.
Numbered == \A j, k \in CaseIds : j < k /\ case[k] # NoCase => case[j] # NoCase

OneTask == \A s, t \in Tasks : pc[s] # "idle" /\ pc[t] # "idle" => s = t

OneQuestion == \A c \in Customers : \A j, k \in Unsettled(c) : j = k

\* A conversation that is frozen waits on the owner, or is about to.
Held == \A c \in Customers :
    conv[c].frozen => Unsettled(c) # {} \/ \E t \in Tasks : pc[t] = "asking" /\ of[t] = c

\* What the owner is asked about is neither withdrawn nor told to be cancelled.
Askable(k) == LET r == k.about IN
    r \in Requests => request[r].last # "withdrawn" /\ r \notin gone

OpenQuestions ==
    \A k \in CaseIds : case[k] # NoCase =>
        /\ case[k].about \in Requests => /\ case[k].of = OwnerOf[case[k].about]
                                         /\ request[case[k].about].status # "none"
        /\ case[k].status \in Unanswered => Askable(case[k])

GoneIsCancelled == \A r \in gone : request[r].status = "cancelled"

\* What the one task that runs knows, where it is.
Current(t) ==
    /\ pc[t] \in {"sweeping", "turning", "deciding"} => view[t] = Snapshot
    /\ pc[t] = "turning" => Unsettled(of[t]) = {}
    /\ pc[t] = "asking" => LET k == Newest(CasesOf(case, of[t]))
                           IN Unsettled(of[t]) = {} /\ Askable(case[k])
    /\ pc[t] = "chasing" => \A k \in late[t] : view[t].case[k] = case[k]
    /\ pc[t] = "deciding" => case[item[t]].status \in Unanswered
    /\ pc[t] \in {"relaying", "telling"} => case[item[t]].status = "decided"

IInv == /\ TInv
        /\ Numbered /\ OneTask /\ OneQuestion /\ Held
        /\ OpenQuestions /\ GoneIsCancelled /\ ConfirmedAsAsked
        /\ \A t \in Tasks : Current(t)

-----------------------------------------------------------------------------
(* Numbers of cases *)

LEMMA LeastId ==
  ASSUME NEW ks \in SUBSET CaseIds, ks # {}
  PROVE  \E k \in ks : \A j \in ks : k <= j
<1>1. ks \subseteq Nat
  BY RequestsAssumption DEF CaseIds
<1> DEFINE less == OpToRel(<, Nat)
<1>2. IsWellFoundedOn(less, Nat)
  BY NatLessThanWellFounded, Zenon
<1>3. \A j, k \in Nat : <<j, k>> \notin less => k <= j
  BY DEF OpToRel
<1> HIDE DEF less
<1>4. \E k \in ks : \A j \in ks : <<j, k>> \notin less
  BY <1>1, <1>2, WFMin
<1> QED
  BY <1>1, <1>3, <1>4

LEMMA NewestIs ==
  ASSUME NEW ks \in SUBSET CaseIds, ks # {}
  PROVE  Newest(ks) \in ks /\ \A j \in ks : j <= Newest(ks)
<1> DEFINE mirrored == {MaxCases + 1 - k : k \in ks}
<1>1. MaxCases \in Nat /\ ks \subseteq 1 .. MaxCases
  BY RequestsAssumption DEF CaseIds
<1>2. mirrored \in SUBSET CaseIds /\ mirrored # {}
  <2>1. \A k \in ks : MaxCases + 1 - k \in 1 .. MaxCases
    BY <1>1
  <2> QED
    BY <2>1 DEF CaseIds
<1>3. PICK m \in mirrored : \A n \in mirrored : m <= n
  BY <1>2, LeastId
<1>4. PICK k \in ks : m = MaxCases + 1 - k
  BY <1>3
<1>5. \A j \in ks : j <= k
  <2> TAKE j \in ks
  <2>1. MaxCases + 1 - k <= MaxCases + 1 - j
    BY <1>3, <1>4
  <2> QED
    BY <1>1, <2>1
<1> QED
  BY <1>5 DEF Newest

LEMMA OfThese == ASSUME NEW cs, NEW c PROVE CasesOf(cs, c) \in SUBSET CaseIds
  BY DEF CasesOf

-----------------------------------------------------------------------------
(* What the steps do to cases and conversations *)

LEMMA CaseTyped ==
  ASSUME NEW cs \in Cases, NEW k \in CaseIds, cs[k] # NoCase
  PROVE  cs[k] \in Case /\ cs[k].of \in Customers
  BY DEF Cases, Case

LEMMA ExtendsFurther ==
  ASSUME NEW a, NEW b, NEW c, Extends(a, b), Extends(b, c)
  PROVE  Extends(a, c)
  BY DEF Extends

LEMMA StillHers ==
  ASSUME NEW a, NEW b, Extends(a, b), NEW c
  PROVE  CasesOf(a, c) \subseteq CasesOf(b, c)
  BY DEF Extends, CasesOf

\* A case that is written in place.
LEMMA CaseWritten ==
  ASSUME NEW cs \in Cases, AskedRight(cs), NEW k \in CaseIds, cs[k] # NoCase,
         NEW new \in Case, new.of = cs[k].of, new.about = cs[k].about, new.reason = cs[k].reason
  PROVE  LET ds == [cs EXCEPT ![k] = new]
         IN ds \in Cases /\ AskedRight(ds) /\ Extends(cs, ds)
  BY SentinelAssumption DEF Cases, AskedRight, Extends

LEMMA CaseMoved ==
  ASSUME NEW k \in Case,
         NEW status \in {"open", "awaiting", "timed_out", "decided", "relayed", "withdrawn"}
  PROVE  /\ Moved(k, status) \in Case /\ Moved(k, status).status = status
         /\ Moved(k, status).of = k.of /\ Moved(k, status).about = k.about
         /\ Moved(k, status).reason = k.reason
  BY DEF Moved, Case

LEMMA RaisedIs ==
  ASSUME NEW cs \in Cases, AskedRight(cs), Spare(cs) # {}, NEW c \in Customers,
         NEW reason \in Reasons, NEW r \in Requests \cup {NoRequest},
         reason = "booking_hold" <=> r \in Requests
  PROVE  /\ Raised(cs, c, reason, r) \in Cases /\ AskedRight(Raised(cs, c, reason, r))
         /\ Extends(cs, Raised(cs, c, reason, r))
         /\ CasesOf(Raised(cs, c, reason, r), c) # {} /\ Raised(cs, c, reason, r) # cs
         /\ \E k \in Spare(cs) :
               /\ \A j \in Spare(cs) : k <= j
               /\ Raised(cs, c, reason, r)
                    = [cs EXCEPT ![k] = [of |-> c, about |-> r, reason |-> reason, status |-> "open",
                                         clock |-> "unasked", reminded |-> FALSE]]
<1> DEFINE new == [of |-> c, about |-> r, reason |-> reason, status |-> "open",
                   clock |-> "unasked", reminded |-> FALSE]
           k == CHOOSE j \in Spare(cs) : \A i \in Spare(cs) : j <= i
<1>1. Spare(cs) \in SUBSET CaseIds
  BY DEF Spare
<1>2. k \in Spare(cs) /\ \A i \in Spare(cs) : k <= i
  BY <1>1, LeastId
<1>3. Raised(cs, c, reason, r) = [cs EXCEPT ![k] = new]
  BY DEF Raised
<1>4. new \in Case /\ new # NoCase
  <2>1. new \in Case
    BY DEF Case
  <2> QED
    BY <2>1, SentinelAssumption
<1>5. k \in CaseIds /\ cs[k] = NoCase
  BY <1>2 DEF Spare
<1>6. new.of = c /\ new.about = r /\ new.reason = reason
  OBVIOUS
<1> HIDE DEF new, k
<1>7. [cs EXCEPT ![k] = new] \in Cases
  BY <1>4, <1>5 DEF Cases
<1>8. AskedRight([cs EXCEPT ![k] = new]) /\ Extends(cs, [cs EXCEPT ![k] = new])
  BY <1>4, <1>5, <1>6 DEF Cases, AskedRight, Extends
<1>9. CasesOf([cs EXCEPT ![k] = new], c) # {} /\ [cs EXCEPT ![k] = new] # cs
  BY <1>4, <1>5, <1>6 DEF Cases, CasesOf
<1> QED
  BY <1>2, <1>3, <1>7, <1>8, <1>9 DEF new

\* A conversation as the state can be.
Proper(cv) == cv \in Conversation /\ (cv.reason = "urgent" => cv.frozen)

LEMMA TaggedIs ==
  ASSUME NEW cv, Proper(cv), NEW outcome \in {"booked", "escalated"}
  PROVE  /\ Proper(Tagged(cv, outcome))
         /\ Tagged(cv, outcome).frozen = cv.frozen /\ Tagged(cv, outcome).reason = cv.reason
         /\ cv.sales = "booked" \/ outcome = "booked" => Tagged(cv, outcome).sales = "booked"
  BY DEF Proper, Conversation, Tagged, Rank

LEMMA EscalatedIs ==
  ASSUME NEW cv, Proper(cv), NEW reason \in Reasons
  PROVE  /\ Classified(cv, reason) \in Reasons /\ Classified(cv, reason) \in {"urgent", reason}
         /\ Proper(Escalated(cv, reason))
         /\ cv.sales = "booked" => Escalated(cv, reason).sales = "booked"
         /\ Classified(cv, reason) = "figure" => Escalated(cv, reason).frozen = cv.frozen
<1>1. Classified(cv, reason) \in {"urgent", reason} /\ Classified(cv, reason) \in Reasons
  BY DEF Classified, Reasons
<1>2. cv.reason = "urgent" => Classified(cv, reason) = "urgent"
  BY DEF Classified
<1> QED
  BY <1>1, <1>2, TaggedIs DEF Escalated, Proper, Conversation

\* What the guard leaves of a turn is as proper as what the turn made.
LEMMA GuardedIs ==
  ASSUME NEW cs \in Cases, AskedRight(cs), NEW cv, Proper(cv), NEW c \in Customers,
         cv.frozen => CasesOf(cs, c) # {}, NEW g \in Guarded(cs, cv, c)
  PROVE  /\ g[1] \in Cases /\ AskedRight(g[1]) /\ Extends(cs, g[1]) /\ Proper(g[2])
         /\ g[1] # cs \/ g[2].frozen => CasesOf(g[1], c) # {}
         /\ cv.sales = "booked" => g[2].sales = "booked"
         /\ g # <<cs, cv>> =>
               /\ Spare(cs) # {} /\ Classified(cv, "figure") \in Reasons \ {"booking_hold"}
               /\ g[1] = Raised(cs, c, Classified(cv, "figure"), NoRequest)
               /\ g[2] = Escalated(cv, "figure")
<1>1. CASE g = <<cs, cv>>
  BY <1>1 DEF Extends
<1>2. CASE g # <<cs, cv>>
  <2> DEFINE why == Classified(cv, "figure")
  <2>1. Spare(cs) # {} /\ g = <<Raised(cs, c, why, NoRequest), Escalated(cv, "figure")>>
    BY <1>2 DEF Guarded
  <2>2. why \in Reasons \ {"booking_hold"}
    BY EscalatedIs DEF Reasons
  <2>3. Proper(Escalated(cv, "figure"))
        /\ (cv.sales = "booked" => Escalated(cv, "figure").sales = "booked")
    BY EscalatedIs DEF Reasons
  <2> HIDE DEF why
  <2> QED
    BY <2>1, <2>2, <2>3, RaisedIs, RequestsAssumption DEF why
<1> QED
  BY <1>1, <1>2

-----------------------------------------------------------------------------
(* Every step keeps the types *)

LEMMA StillLoaded ==
  ASSUME NEW a, NEW b, Extends(a, b), NEW v, Loaded(a, v)
  PROVE  Loaded(b, v)
<1>1. Extends(v.case, b)
  BY ExtendsFurther DEF Loaded
<1>2. Paged(b, v.conv)
  BY StillHers DEF Loaded, Paged
<1> QED
  BY <1>1, <1>2 DEF Loaded

LEMMA SnapshotLoaded == ASSUME TInv PROVE Loaded(case, Snapshot)
  BY DEF TInv, TypeOK, Loaded, Snapshot, Cases, Conversations, AskedRight, Extends

LEMMA StillPaged ==
  ASSUME TInv, NEW cs, Extends(case, cs) PROVE Paged(cs, conv)
  BY StillHers DEF TInv, Paged

\* The other tasks are where they were.
Apart(t) ==
    /\ view' = [s \in Tasks |-> view'[s]]
    /\ \A s \in Tasks \ {t} : /\ pc'[s] = pc[s] /\ of'[s] = of[s] /\ view'[s] = view[s]
                              /\ item'[s] = item[s] /\ late'[s] = late[s]

LEMMA OthersKeep ==
  ASSUME TInv, NEW t \in Tasks, TypeOK', Extends(case, case'), Paged(case', conv'),
         Apart(t), Equipped(t)'
  PROVE  TInv'
<1> SUFFICES ASSUME NEW s \in Tasks \ {t} PROVE Equipped(s)'
  BY DEF TInv, Apart
<1>1. /\ pc'[s] = pc[s] /\ of'[s] = of[s] /\ view'[s] = view[s]
      /\ item'[s] = item[s] /\ late'[s] = late[s]
  BY DEF Apart
<1>2. Equipped(s)
  BY DEF TInv
<1>3. pc[s] # "idle" => Loaded(case', view[s])
  BY <1>2, StillLoaded DEF Equipped
<1>4. pc[s] = "asking" => CasesOf(case', of[s]) # {}
  BY <1>2, StillHers DEF Equipped
<1>5. \A k \in CaseIds : case[k] # NoCase => case'[k] # NoCase
  BY DEF Extends
<1>6. late[s] \subseteq CaseIds
  BY DEF TInv, TypeOK
<1> QED
  BY <1>1, <1>2, <1>3, <1>4, <1>5, <1>6 DEF Equipped

LEMMA Goes ==
  ASSUME TInv, NEW t \in Tasks, NEW label, Goto(t, label)
  PROVE  /\ pc' = [pc EXCEPT ![t] = label] /\ pc'[t] = label
         /\ \A s \in Tasks \ {t} : pc'[s] = pc[s]
  BY DEF Goto, TInv, TypeOK

LEMMA Loads ==
  ASSUME TInv, NEW t \in Tasks, Load(t)
  PROVE  /\ view'[t] = Snapshot /\ view' = [s \in Tasks |-> view'[s]]
         /\ \A s \in Tasks \ {t} : view'[s] = view[s]
<1>1. view' = [[s \in Tasks |-> view[s]] EXCEPT ![t] = Snapshot]
  BY Zenon DEF Load, TInv
<1> QED
  BY <1>1

LEMMA Ends ==
  ASSUME TInv, NEW t \in Tasks, End(t)
  PROVE  /\ Apart(t) /\ pc'[t] = "idle" /\ Equipped(t)'
         /\ pc' \in [Tasks -> {"idle", "sweeping", "routing", "turning", "asking", "overdue",
                               "chasing", "deciding", "relaying", "telling"}]
         /\ of' \in [Tasks -> Customers \cup {Nobody}]
         /\ msg' \in [Tasks -> {"business", "urgent"}]
         /\ item' \in [Tasks -> CaseIds \cup {0}]
         /\ answer' \in [Tasks -> Answers \cup {"none"}]
         /\ late' \in [Tasks -> SUBSET CaseIds]
<1>1. view' = [[s \in Tasks |-> view[s]] EXCEPT ![t] = NoView]
  BY Zenon DEF End, TInv
<1>2. pc'[t] = "idle"
  BY Goes DEF End
<1>3. Apart(t)
  BY <1>1, Goes DEF Apart, End, TInv, TypeOK
<1> QED
  BY <1>2, <1>3 DEF End, Goto, TInv, TypeOK, Equipped

LEMMA StartTyped == Init => TInv
<1> SUFFICES ASSUME Init PROVE TInv
  OBVIOUS
<1>1. TypeOK
  BY RequestsAssumption DEF Init, TypeOK, NewRequest, Request, Events, Conversation
<1> QED
  BY <1>1 DEF Init, TInv, Paged, Equipped

LEMMA QuietTyped == ASSUME TInv, UNCHANGED vars PROVE TInv'
  BY DEF vars, tables, task, TInv, TypeOK, Paged, CasesOf, Equipped, Loaded, AskedRight, Extends,
         Cases, Conversations

LEMMA WindowOpens ==
  ASSUME TInv, UNCHANGED conv \/ \E c \in Customers : OpensWindow(c)
  PROVE  conv' \in Conversations /\ Paged(case, conv')
<1>1. conv \in [Customers -> Conversation] /\ Paged(case, conv)
  BY DEF TInv, TypeOK
<1>2. ASSUME NEW c \in Customers, OpensWindow(c) PROVE conv' \in Conversations /\ Paged(case, conv')
  <2>1. conv' \in Conversations
    BY <1>1, <1>2 DEF OpensWindow, Conversations, Conversation
  <2>2. \A d \in Customers : conv'[d].reason = conv[d].reason /\ conv'[d].frozen = conv[d].frozen
    BY <1>1, <1>2 DEF OpensWindow, Conversation
  <2> QED
    BY <1>1, <2>1, <2>2 DEF Paged
<1> QED
  BY <1>1, <1>2 DEF Conversations

\* A task that loads the rows as they are and writes none, but that the customer wrote.
LEMMA LoadsTyped ==
  ASSUME TInv, NEW t \in Tasks,
         NEW label \in {"sweeping", "turning", "telling", "deciding", "chasing"},
         Goto(t, label), Load(t),
         UNCHANGED conv \/ \E c \in Customers : OpensWindow(c),
         UNCHANGED <<request, case, strict, told, gone>>,
         of' \in [Tasks -> Customers \cup {Nobody}], \A s \in Tasks \ {t} : of'[s] = of[s],
         label = "turning" => of'[t] \in Customers,
         msg' \in [Tasks -> {"business", "urgent"}],
         item' \in [Tasks -> CaseIds \cup {0}], \A s \in Tasks \ {t} : item'[s] = item[s],
         label \in {"telling", "deciding"} => item'[t] \in CaseIds /\ case[item'[t]] # NoCase,
         answer' \in [Tasks -> Answers \cup {"none"}],
         late' \in [Tasks -> SUBSET CaseIds], \A s \in Tasks \ {t} : late'[s] = late[s],
         label = "chasing" => \A k \in late'[t] : case[k] # NoCase
  PROVE  TInv'
<1>1. conv' \in Conversations /\ Paged(case, conv')
  BY WindowOpens
<1>2. Extends(case, case') /\ Paged(case', conv')
  BY <1>1 DEF Extends
<1>3. TypeOK'
  BY <1>1, Goes DEF TInv, TypeOK, Conversations
<1>4. Apart(t)
  BY Goes, Loads DEF Apart
<1>5. Loaded(case', view'[t]) /\ view'[t].case = case
  <2>1. view'[t] = Snapshot
    BY Loads
  <2>2. Loaded(case, Snapshot)
    BY SnapshotLoaded
  <2> QED
    BY <2>1, <2>2 DEF Snapshot
<1>6. Equipped(t)'
  BY <1>5, Goes DEF Equipped
<1> QED
  BY <1>2, <1>3, <1>4, <1>6, OthersKeep

LEMMA ArriveTyped ==
  ASSUME TInv, NEW t \in Tasks, NEW c \in Customers, NEW m \in {"business", "urgent"},
         Arrive(t, c, m) \/ Maintain(t)
  PROVE  TInv'
<1>1. /\ of' \in [Tasks -> Customers \cup {Nobody}] /\ \A s \in Tasks \ {t} : of'[s] = of[s]
      /\ msg' \in [Tasks -> {"business", "urgent"}]
  BY DEF Arrive, Maintain, TInv, TypeOK
<1>2. Goto(t, "sweeping") /\ Load(t)
      /\ UNCHANGED <<tables, item, answer, late, told, gone>>
  BY DEF Arrive, Maintain
<1> QED
  BY <1>1, <1>2, LoadsTyped DEF TInv, TypeOK, tables

LEMMA BeginTurnTyped ==
  ASSUME TInv, NEW t \in Tasks, BeginTurn(t) PROVE TInv'
<1>1. of[t] \in Customers
  BY DEF BeginTurn, TInv, Equipped
<1>2. Goto(t, "turning") /\ Load(t)
      /\ UNCHANGED <<tables, of, msg, item, answer, late, told, gone>>
  BY DEF BeginTurn
<1> QED
  BY <1>1, <1>2, LoadsTyped DEF TInv, TypeOK, tables

LEMMA OwnerAnswersTyped ==
  ASSUME TInv, NEW t \in Tasks, NEW k \in CaseIds, NEW a \in Answers, OwnerAnswers(t, k, a)
  PROVE  TInv'
<1>1. /\ item' \in [Tasks -> CaseIds \cup {0}] /\ item'[t] = k /\ case[k] # NoCase
      /\ \A s \in Tasks \ {t} : item'[s] = item[s]
      /\ answer' \in [Tasks -> Answers \cup {"none"}]
  BY DEF OwnerAnswers, TInv, TypeOK
<1>2. Goto(t, "deciding") /\ Load(t)
      /\ UNCHANGED <<tables, of, msg, late, told, gone>>
  BY DEF OwnerAnswers
<1> QED
  BY <1>1, <1>2, LoadsTyped DEF TInv, TypeOK, tables

LEMMA RouteOwedTyped ==
  ASSUME TInv, NEW t \in Tasks, RouteOwed(t) PROVE TInv'
<1>1. of[t] \in Customers
  BY DEF RouteOwed, TInv, Equipped
<1>2. PICK k \in Owed(of[t]) : item' = [item EXCEPT ![t] = k]
  BY DEF RouteOwed
<1>3. k \in CaseIds /\ case[k] # NoCase
  BY DEF Owed, CasesOf
<1>4. /\ item' \in [Tasks -> CaseIds \cup {0}] /\ item'[t] = k
      /\ \A s \in Tasks \ {t} : item'[s] = item[s]
  BY <1>2, <1>3 DEF TInv, TypeOK
<1>5. /\ Goto(t, "telling") /\ Load(t) /\ OpensWindow(of[t])
      /\ UNCHANGED <<request, case, strict, of, msg, answer, late, told, gone>>
  BY DEF RouteOwed
<1> QED
  BY <1>1, <1>3, <1>4, <1>5, LoadsTyped DEF TInv, TypeOK

LEMMA RelayTyped ==
  ASSUME TInv, NEW t \in Tasks, Relay(t) PROVE TInv'
<1>1. item[t] \in CaseIds /\ case[item[t]] # NoCase
  BY DEF Relay, TInv, Equipped
<1>2. Goto(t, "telling") /\ Load(t)
      /\ UNCHANGED <<tables, of, msg, item, answer, late, told, gone>>
  BY DEF Relay
<1> QED
  BY <1>1, <1>2, LoadsTyped DEF TInv, TypeOK, tables

\* A task that ends, having written cases and conversations as they may be.
LEMMA EndsTyped ==
  ASSUME TInv, NEW t \in Tasks, End(t), Extends(case, case'), Paged(case', conv'),
         case' \in Cases, AskedRight(case'), conv' \in Conversations,
         UNCHANGED <<request, strict, gone>>, told' \subseteq CaseIds
  PROVE  TInv'
<1>1. TypeOK'
  BY Ends DEF TInv, TypeOK, Cases, AskedRight, Conversations
<1> QED
  BY <1>1, Ends, OthersKeep

LEMMA AsItIs ==
  ASSUME TInv
  PROVE  case \in Cases /\ AskedRight(case) /\ conv \in Conversations /\ Paged(case, conv)
         /\ Extends(case, case)
  BY DEF TInv, TypeOK, Cases, AskedRight, Conversations, Extends

LEMMA LoadOverdueTyped ==
  ASSUME TInv, NEW t \in Tasks, LoadOverdue(t) PROVE TInv'
<1>1. CASE Overdue = {}
  BY <1>1, EndsTyped, AsItIs DEF LoadOverdue, tables, TInv, TypeOK
<1>2. CASE Overdue # {}
  <2>1. Overdue \subseteq CaseIds /\ \A k \in Overdue : case[k] # NoCase
    BY DEF Overdue
  <2>2. /\ late' \in [Tasks -> SUBSET CaseIds] /\ late'[t] = Overdue
        /\ \A s \in Tasks \ {t} : late'[s] = late[s]
    BY <1>2, <2>1 DEF LoadOverdue, TInv, TypeOK
  <2>3. Goto(t, "chasing") /\ Load(t)
        /\ UNCHANGED <<tables, of, msg, item, answer, told, gone>>
    BY <1>2 DEF LoadOverdue
  <2> QED
    BY <2>1, <2>2, <2>3, LoadsTyped DEF TInv, TypeOK, tables
<1> QED
  BY <1>1, <1>2

LEMMA QuitTyped ==
  ASSUME TInv, NEW t \in Tasks, ChaseDone(t) \/ PutOff(t) \/ RequestReopen(t)
  PROVE  TInv'
<1>1. UNCHANGED conv \/ \E c \in Customers : OpensWindow(c)
  BY DEF ChaseDone, RequestReopen, tables, PutOff, TInv, Equipped
<1>2. End(t) /\ UNCHANGED <<request, case, strict, told, gone>>
  BY DEF ChaseDone, RequestReopen, tables, PutOff
<1>3. conv' \in Conversations /\ Paged(case, conv')
  BY <1>1, WindowOpens
<1>4. told \subseteq CaseIds
  BY DEF TInv, TypeOK
<1> QED
  BY <1>2, <1>3, <1>4, EndsTyped, AsItIs

\* A case in hand is moved, and nothing else about it changes.
LEMMA ItemMoved ==
  ASSUME TInv, NEW t \in Tasks, pc[t] \in {"deciding", "relaying", "telling"},
         NEW status \in {"open", "awaiting", "timed_out", "decided", "relayed", "withdrawn"},
         case' = [case EXCEPT ![item[t]] = Moved(@, status)]
  PROVE  case' \in Cases /\ AskedRight(case') /\ Extends(case, case')
<1>1. item[t] \in CaseIds /\ case[item[t]] # NoCase
  BY DEF TInv, Equipped
<1>2. case \in Cases /\ AskedRight(case)
  BY AsItIs
<1> DEFINE k == item[t]
<1>3. case[k] \in Case
  BY <1>1, <1>2, CaseTyped
<1>4. /\ Moved(case[k], status) \in Case
      /\ Moved(case[k], status).of = case[k].of /\ Moved(case[k], status).about = case[k].about
      /\ Moved(case[k], status).reason = case[k].reason
  BY <1>3, CaseMoved
<1>5. case' = [case EXCEPT ![k] = Moved(case[k], status)]
  OBVIOUS
<1> HIDE DEF k
<1> QED
  BY <1>1, <1>2, <1>4, <1>5, CaseWritten DEF k

LEMMA FindWithdrawnTyped ==
  ASSUME TInv, NEW t \in Tasks, FindWithdrawn(t) PROVE TInv'
<1>1. case' \in Cases /\ AskedRight(case') /\ Extends(case, case')
  BY ItemMoved DEF FindWithdrawn, Deciding
<1>2. UNCHANGED <<request, conv, strict, told, gone>> /\ End(t)
  BY DEF FindWithdrawn
<1> QED
  BY <1>1, <1>2, EndsTyped, AsItIs, StillPaged DEF TInv, TypeOK

LEMMA TellTyped ==
  ASSUME TInv, NEW t \in Tasks, NEW worded, NEW sent, Tell(t, worded, sent) PROVE TInv'
<1>1. case' = [case EXCEPT ![item[t]] = Moved(@, "relayed")] /\ pc[t] = "telling"
  BY DEF Tell
<1>2. case' \in Cases /\ AskedRight(case') /\ Extends(case, case')
  BY <1>1, ItemMoved
<1>3. item[t] \in CaseIds /\ case[item[t]] # NoCase
  BY <1>1 DEF TInv, Equipped
<1> DEFINE c == case[item[t]].of
<1>4. conv' = [conv EXCEPT ![c].frozen = FALSE, ![c].reason = "none", ![c].figure = FALSE]
      /\ told' \subseteq told \cup {item[t]} /\ End(t) /\ UNCHANGED <<request, strict, gone>>
  BY DEF Tell
<1>5. Paged(case', conv)
  BY <1>2, StillPaged
<1>6. c \in Customers
  BY <1>3, AsItIs, CaseTyped
<1> HIDE DEF c
<1>7. conv' \in Conversations
  <2>1. conv \in [Customers -> Conversation]
    BY DEF TInv, TypeOK
  <2>2. [conv[c] EXCEPT !.frozen = FALSE, !.reason = "none", !.figure = FALSE] \in Conversation
    BY <1>6, <2>1 DEF Conversation
  <2>3. conv' = [conv EXCEPT ![c] = [conv[c] EXCEPT !.frozen = FALSE, !.reason = "none",
                                                    !.figure = FALSE]]
    BY <1>4, <1>6, <2>1 DEF Conversation
  <2> QED
    BY <1>6, <2>1, <2>2, <2>3 DEF Conversations
<1>8. \A d \in Customers : (conv'[d].frozen => conv[d].frozen)
         /\ (conv'[d].reason = "urgent" => conv'[d].frozen)
  <2> TAKE d \in Customers
  <2>1. conv[d].reason = "urgent" => conv[d].frozen
    BY DEF TInv, Paged
  <2>2. conv \in [Customers -> Conversation]
    BY DEF TInv, TypeOK
  <2> QED
    BY <1>4, <2>1, <2>2 DEF Conversation
<1>9. Paged(case', conv')
  BY <1>5, <1>8 DEF Paged
<1> QED
  BY <1>2, <1>3, <1>4, <1>7, <1>9, EndsTyped DEF TInv, TypeOK

\* A task that goes on, having written what it may, and holds what the next step needs.
LEMMA GoesOnTyped ==
  ASSUME TInv, NEW t \in Tasks, pc[t] # "idle",
         NEW label \in {"routing", "overdue", "asking", "chasing", "relaying"}, Goto(t, label),
         UNCHANGED <<strict, of, msg, view, item, answer, told>>,
         request' \in [Requests -> Request], gone' \subseteq Requests,
         case' \in Cases, AskedRight(case'), Extends(case, case'),
         conv' \in Conversations, Paged(case', conv'),
         late' \in [Tasks -> SUBSET CaseIds], \A s \in Tasks \ {t} : late'[s] = late[s],
         label \in {"routing", "asking"} => of[t] \in Customers,
         label = "asking" => CasesOf(case', of[t]) # {},
         label = "chasing" => \A k \in late'[t] : case'[k] # NoCase,
         label = "relaying" => item[t] \in CaseIds /\ case[item[t]] # NoCase
  PROVE  TInv'
<1>1. TypeOK'
  BY Goes DEF TInv, TypeOK, Cases, AskedRight, Conversations
<1>2. Apart(t)
  BY Goes DEF Apart, TInv
<1>3. Loaded(case', view[t])
  <2>1. Loaded(case, view[t])
    BY DEF TInv, Equipped
  <2> QED
    BY <2>1, StillLoaded
<1>4. label = "relaying" => case'[item[t]] # NoCase
  BY DEF Extends
<1>5. pc'[t] = label
  BY Goes
<1>6. Equipped(t)'
  BY <1>3, <1>4, <1>5 DEF Equipped
<1> QED
  BY <1>1, <1>2, <1>6, OthersKeep

LEMMA SweepTyped ==
  ASSUME TInv, NEW t \in Tasks, Sweep(t) PROVE TInv'
<1>1. request' \in [Requests -> Request]
  BY DEF Sweep, TInv, TypeOK, Request, Released, Settled, Events
<1>2. PICK quiet \in SUBSET {c \in Customers : Silent(c)} :
        conv' = [c \in Customers |->
                   IF c \in quiet THEN [conv[c] EXCEPT !.sales = FellSilentAs(c)] ELSE conv[c]]
  BY DEF Sweep
<1>3. \A c \in Customers : FellSilentAs(c) \in {"none", "dropped", "escalated", "booked"}
  BY DEF FellSilentAs
<1>4. conv \in [Customers -> Conversation]
  BY DEF TInv, TypeOK
<1>5. conv' \in Conversations
  BY <1>2, <1>3, <1>4 DEF Conversations, Conversation
<1>6. \A c \in Customers : conv'[c].reason = conv[c].reason /\ conv'[c].frozen = conv[c].frozen
  BY <1>2, <1>4 DEF Conversation
<1>7. Paged(case, conv')
  BY <1>6 DEF TInv, Paged
<1>8. /\ pc[t] # "idle" /\ UNCHANGED <<case, strict, of, msg, view, item, answer, late, told, gone>>
      /\ Goto(t, IF of[t] = Nobody THEN "overdue" ELSE "routing")
  BY DEF Sweep
<1>9. of[t] # Nobody => of[t] \in Customers
  BY DEF TInv, TypeOK
<1> QED
  BY <1>1, <1>5, <1>7, <1>8, <1>9, AsItIs, GoesOnTyped DEF TInv, TypeOK

LEMMA ChaseOneTyped ==
  ASSUME TInv, NEW t \in Tasks, ChaseOne(t) PROVE TInv'
<1> DEFINE k == Newest(late[t])
           new == IF NeedsReminder(k, view[t].case[k]) THEN [case[k] EXCEPT !.reminded = TRUE]
                  ELSE IF HasTimedOut(k, view[t].case[k]) THEN Moved(case[k], "timed_out")
                  ELSE case[k]
<1>1. pc[t] = "chasing" /\ late[t] # {} /\ late[t] \in SUBSET CaseIds
  BY DEF ChaseOne, TInv, TypeOK
<1>2. k \in late[t] /\ k \in CaseIds
  BY <1>1, NewestIs
<1>3. case[k] # NoCase /\ case[k] \in Case /\ case \in Cases /\ AskedRight(case)
  BY <1>1, <1>2, AsItIs, CaseTyped DEF TInv, Equipped
<1>4. case' = [case EXCEPT ![k] = new] /\ late' = [late EXCEPT ![t] = @ \ {k}]
      /\ UNCHANGED <<request, conv, strict, pc, of, msg, view, item, answer, told, gone>>
  BY DEF ChaseOne
<1>5. new \in Case /\ new.of = case[k].of /\ new.about = case[k].about /\ new.reason = case[k].reason
  <2>1. /\ [case[k] EXCEPT !.reminded = TRUE] \in Case
        /\ [case[k] EXCEPT !.reminded = TRUE].of = case[k].of
        /\ [case[k] EXCEPT !.reminded = TRUE].about = case[k].about
        /\ [case[k] EXCEPT !.reminded = TRUE].reason = case[k].reason
    BY <1>3 DEF Case
  <2>2. /\ Moved(case[k], "timed_out") \in Case
        /\ Moved(case[k], "timed_out").of = case[k].of
        /\ Moved(case[k], "timed_out").about = case[k].about
        /\ Moved(case[k], "timed_out").reason = case[k].reason
    BY <1>3, CaseMoved
  <2> QED
    BY <1>3, <2>1, <2>2
<1> HIDE DEF new, k
<1>6. case' \in Cases /\ AskedRight(case') /\ Extends(case, case')
  BY <1>2, <1>3, <1>4, <1>5, CaseWritten
<1>7. /\ late' \in [Tasks -> SUBSET CaseIds] /\ \A s \in Tasks \ {t} : late'[s] = late[s]
      /\ late'[t] \subseteq late[t]
  BY <1>4 DEF TInv, TypeOK
<1>8. Goto(t, "chasing")
  BY <1>1, <1>4 DEF Goto, TInv, TypeOK
<1>9. \A j \in late'[t] : case'[j] # NoCase
  BY <1>1, <1>6, <1>7 DEF TInv, Equipped, Extends
<1> QED
  BY <1>1, <1>4, <1>6, <1>7, <1>8, <1>9, GoesOnTyped, AsItIs, StillPaged DEF TInv, TypeOK

LEMMA AskTyped ==
  ASSUME TInv, NEW t \in Tasks, Ask(t) PROVE TInv'
<1> DEFINE k == Newest(CasesOf(case, of[t]))
           new == [case[k] EXCEPT !.status = "awaiting", !.clock = "asked"]
<1>1. pc[t] = "asking" /\ CasesOf(case, of[t]) # {}
  BY DEF Ask, TInv, Equipped
<1>2. k \in CasesOf(case, of[t])
  BY <1>1, OfThese, NewestIs
<1>3. k \in CaseIds /\ case[k] # NoCase
  BY <1>2 DEF CasesOf
<1>4. case[k] \in Case /\ case \in Cases /\ AskedRight(case)
  BY <1>3, AsItIs, CaseTyped
<1>5. /\ new \in Case /\ new.of = case[k].of
      /\ new.about = case[k].about /\ new.reason = case[k].reason
  BY <1>4 DEF Case
<1>6. case' = [case EXCEPT ![k] = new]
      /\ UNCHANGED <<request, conv, strict, of, msg, view, item, answer, late, told, gone>>
  BY <1>3, <1>4 DEF Ask, Case, Cases
<1>7. Goto(t, "overdue")
  BY DEF Ask
<1> HIDE DEF new, k
<1>8. case' \in Cases /\ AskedRight(case') /\ Extends(case, case')
  BY <1>3, <1>4, <1>5, <1>6, CaseWritten
<1> QED
  BY <1>1, <1>6, <1>7, <1>8, GoesOnTyped, AsItIs, StillPaged DEF TInv, TypeOK

\* The owner's decision is recorded, whatever it does to the request and to how the
\* conversation is counted.
LEMMA RecordsTyped ==
  ASSUME TInv, NEW t \in Tasks, Deciding(t), RecordDecision(t),
         request' \in [Requests -> Request], conv' \in Conversations, Paged(case, conv')
  PROVE  TInv'
<1>1. case' \in Cases /\ AskedRight(case') /\ Extends(case, case')
  BY ItemMoved DEF RecordDecision, Deciding
<1>2. Paged(case', conv')
  BY <1>1, StillHers DEF Paged
<1>3. /\ pc[t] # "idle" /\ Goto(t, "relaying")
      /\ UNCHANGED <<strict, of, msg, view, item, answer, late, told, gone>>
  BY DEF RecordDecision, Deciding
<1>4. item[t] \in CaseIds /\ case[item[t]] # NoCase
  BY DEF Deciding, TInv, Equipped
<1> QED
  BY <1>1, <1>2, <1>3, <1>4, GoesOnTyped DEF TInv, TypeOK

LEMMA AskedIs ==
  ASSUME TInv, NEW t \in Tasks, Deciding(t), AboutRequest(t)
  PROVE  Asked(t) \in Requests
<1>1. /\ Loaded(case, view[t]) /\ item[t] \in CaseIds /\ view[t].case[item[t]] # NoCase
  BY DEF Deciding, TInv, Equipped
<1> QED
  BY <1>1 DEF Loaded, AskedRight, Asked, AboutRequest

LEMMA DecideTyped ==
  ASSUME TInv, NEW t \in Tasks,
         JustRecord(t) \/ Decline(t) \/ \E reachable \in BOOLEAN : Approve(t, reachable)
  PROVE  TInv'
<1>1. CASE JustRecord(t)
  BY <1>1, RecordsTyped, AsItIs DEF JustRecord, TInv, TypeOK
<1>2. CASE Decline(t)
  <2>1. request' \in [Requests -> Request]
    BY <1>2 DEF Decline, TInv, TypeOK, Settled, Request, Events
  <2> QED
    BY <1>2, <2>1, RecordsTyped, AsItIs DEF Decline, Decides
<1>3. ASSUME NEW reachable \in BOOLEAN, Approve(t, reachable) PROVE TInv'
  <2> DEFINE r == Asked(t)
             c == OwnerOf[r]
  <2>1. r \in Requests /\ c \in Customers
    BY <1>3, AskedIs, RequestsAssumption DEF Approve, Decides
  <2>2. RecordDecision(t) /\ Deciding(t)
    BY <1>3 DEF Approve, Decides
  <2>3. CASE UNCHANGED <<request, conv>>
    BY <2>2, <2>3, RecordsTyped, AsItIs DEF TInv, TypeOK
  <2>4. CASE /\ request' = [request EXCEPT ![r] = Settled("confirmed", "confirmed")]
             /\ conv' = [conv EXCEPT ![c] = Tagged(conv[c], "booked")]
    <3>1. request' \in [Requests -> Request]
      BY <2>4 DEF TInv, TypeOK, Settled, Request, Events
    <3>2. Proper(conv[c])
      BY <2>1 DEF TInv, TypeOK, Paged, Proper
    <3>3. /\ Tagged(conv[c], "booked") \in Conversation
          /\ Tagged(conv[c], "booked").frozen = conv[c].frozen
          /\ Tagged(conv[c], "booked").reason = conv[c].reason
      BY <3>2, TaggedIs DEF Proper
    <3> HIDE DEF c
    <3>4. conv' \in Conversations /\ Paged(case, conv')
      BY <2>1, <2>4, <3>3 DEF TInv, TypeOK, Conversations, Paged
    <3> QED
      BY <2>2, <3>1, <3>4, RecordsTyped
  <2> QED
    BY <1>3, <2>3, <2>4 DEF Approve
<1> QED
  BY <1>1, <1>2, <1>3

\* What a turn reads of the conversation it serves.
LEMMA TurnView ==
  ASSUME TInv, NEW t \in Tasks, Turning(t)
  PROVE  /\ of[t] \in Customers /\ Loaded(case, view[t])
         /\ Proper(view[t].conv[of[t]])
         /\ view[t].conv[of[t]].frozen => CasesOf(case, of[t]) # {}
<1>1. of[t] \in Customers /\ Loaded(case, view[t])
  BY DEF Turning, TInv, Equipped
<1> QED
  BY <1>1 DEF Loaded, Conversations, Paged, Proper

LEMMA WriteTyped ==
  ASSUME TInv, NEW t \in Tasks, Turning(t),
         NEW r \in Requests \cup {NoRequest}, NEW q, r \in Requests => q \in Request,
         NEW cs \in Cases, AskedRight(cs), Extends(case, cs), NEW cv, Proper(cv),
         cv.frozen => CasesOf(cs, of[t]) # {}, Write(t, r, q, cs, cv),
         NEW label \in {"asking", "overdue"}, Goto(t, label),
         label = "asking" => CasesOf(cs, of[t]) # {},
         UNCHANGED <<strict, of, msg, view, item, answer, late, told>>, gone' \subseteq Requests
  PROVE  TInv'
<1>1. of[t] \in Customers /\ Loaded(case, view[t])
  BY TurnView
<1>2. request' \in [Requests -> Request] /\ case' = cs
  BY DEF Write, TInv, TypeOK
<1> DEFINE c == of[t]
           wrote == [cv EXCEPT !.window = TRUE,
                               !.sales = IF @ = view[t].conv[c].sales THEN conv[c].sales ELSE @]
<1>3. conv' = [conv EXCEPT ![c] = wrote] /\ conv \in [Customers -> Conversation]
  BY DEF Write, TInv, TypeOK
<1>4. wrote \in Conversation /\ wrote.frozen = cv.frozen /\ wrote.reason = cv.reason
  BY <1>1, <1>3 DEF Proper, Conversation
<1> HIDE DEF wrote
<1>5. conv' \in Conversations
  BY <1>1, <1>3, <1>4 DEF Conversations
<1>6. Paged(cs, conv')
  <2>1. Paged(cs, conv)
    BY StillPaged
  <2> QED
    BY <1>1, <1>3, <1>4, <2>1 DEF Paged, Proper
<1> QED
  BY <1>1, <1>2, <1>5, <1>6, GoesOnTyped DEF Turning, TInv, TypeOK

LEMMA EndTurnTyped ==
  ASSUME TInv, NEW t \in Tasks, Turning(t),
         NEW r \in Requests \cup {NoRequest}, NEW q, r \in Requests => q \in Request,
         NEW cs \in Cases, AskedRight(cs), Extends(case, cs), NEW cv, Proper(cv),
         cv.frozen => CasesOf(cs, of[t]) # {}, EndTurn(t, r, q, cs, cv), gone' \subseteq Requests,
         cs # case => CasesOf(cs, of[t]) # {}
  PROVE  TInv'
<1>1. of[t] \in Customers
  BY TurnView
<1>2. PICK g \in Guarded(cs, cv, of[t]) :
        /\ Write(t, r, q, g[1], g[2])
        /\ IF g[2].frozen \/ g[1] # cs THEN Goto(t, "asking") ELSE Goto(t, "overdue")
  BY DEF EndTurn
<1>3. /\ g[1] \in Cases /\ AskedRight(g[1]) /\ Extends(cs, g[1]) /\ Proper(g[2])
      /\ g[1] # cs \/ g[2].frozen => CasesOf(g[1], of[t]) # {}
  BY <1>1, GuardedIs
<1>4. Extends(case, g[1])
  BY <1>3, ExtendsFurther
<1>5. UNCHANGED <<strict, of, msg, view, item, answer, late, told>>
  BY DEF EndTurn
<1>6. CASE g[2].frozen \/ g[1] # cs
  BY <1>2, <1>3, <1>4, <1>5, <1>6, WriteTyped
<1>7. CASE ~(g[2].frozen \/ g[1] # cs)
  BY <1>2, <1>3, <1>4, <1>5, <1>7, WriteTyped
<1> QED
  BY <1>6, <1>7

\* A case that a turn raises, for a reason it classifies.
LEMMA TurnRaises ==
  ASSUME TInv, NEW t \in Tasks, Turning(t), Spare(case) # {},
         NEW reason \in Reasons, NEW r \in Requests \cup {NoRequest},
         reason = "booking_hold" <=> r \in Requests
  PROVE  LET cs == Raised(case, of[t], reason, r)
         IN /\ cs \in Cases /\ AskedRight(cs) /\ Extends(case, cs) /\ CasesOf(cs, of[t]) # {}
  BY TurnView, AsItIs, RaisedIs

LEMMA TalksTyped ==
  ASSUME TInv, NEW t \in Tasks,
         \/ UrgentTurn(t) \/ GuidanceTurn(t) \/ TalkTurn(t) \/ Question(t) \/ Advise(t)
  PROVE  TInv'
<1> DEFINE cv == view[t].conv[of[t]]
<1>1. Turning(t)
  BY DEF UrgentTurn, GuidanceTurn, TalkTurn, Question, Advise, Business
<1>2. /\ of[t] \in Customers /\ Proper(cv) /\ (cv.frozen => CasesOf(case, of[t]) # {})
  BY <1>1, TurnView
<1>3. gone \subseteq Requests
  BY DEF TInv, TypeOK
<1>4. CASE UrgentTurn(t)
  <2>1. Spare(case) # {}
    BY <1>4 DEF UrgentTurn
  <2>2. Proper(Escalated(cv, "urgent"))
    BY <1>2, EscalatedIs DEF Reasons
  <2>3. LET cs == Raised(case, of[t], "urgent", NoRequest)
        IN cs \in Cases /\ AskedRight(cs) /\ Extends(case, cs) /\ CasesOf(cs, of[t]) # {}
    BY <1>1, <2>1, TurnRaises, RequestsAssumption DEF Reasons
  <2> HIDE DEF cv
  <2> QED
    BY <1>1, <1>3, <1>4, <2>2, <2>3, WriteTyped, RequestsAssumption DEF UrgentTurn, cv
<1>5. CASE GuidanceTurn(t)
  BY <1>1, <1>2, <1>3, <1>5, WriteTyped, AsItIs, RequestsAssumption DEF GuidanceTurn
<1>6. CASE TalkTurn(t)
  BY <1>1, <1>2, <1>3, <1>6, EndTurnTyped, AsItIs, RequestsAssumption DEF TalkTurn
<1>7. CASE Question(t)
  <2>1. Spare(case) # {}
    BY <1>7 DEF Question
  <2>2. Proper(Escalated(cv, "question")) /\ Classified(cv, "question") \in {"urgent", "question"}
    BY <1>2, EscalatedIs DEF Reasons
  <2>3. LET cs == Raised(case, of[t], Classified(cv, "question"), NoRequest)
        IN cs \in Cases /\ AskedRight(cs) /\ Extends(case, cs) /\ CasesOf(cs, of[t]) # {}
    BY <1>1, <2>1, <2>2, TurnRaises, RequestsAssumption DEF Reasons
  <2>4. EndTurn(t, NoRequest, NewRequest, Raised(case, of[t], Classified(cv, "question"), NoRequest),
                Escalated(cv, "question"))
    BY <1>7 DEF Question
  <2>5. UNCHANGED gone
    BY <1>7 DEF Question
  <2> HIDE DEF cv
  <2> QED
    BY <1>1, <1>3, <2>2, <2>3, <2>4, <2>5, EndTurnTyped, RequestsAssumption
<1>8. CASE Advise(t)
  <2> DEFINE cs == Raised(case, of[t], "advisory", NoRequest)
  <2>1. cs \in Cases /\ AskedRight(cs) /\ Extends(case, cs) /\ CasesOf(cs, of[t]) # {}
    BY <1>1, <1>8, TurnRaises, RequestsAssumption DEF Reasons, Advise
  <2>2. /\ Write(t, NoRequest, NewRequest, cs, cv)
        /\ UNCHANGED <<strict, of, msg, view, item, answer, late, told, gone>>
        /\ Goto(t, "asking") \/ Goto(t, "overdue")
    BY <1>8 DEF Advise
  <2> HIDE DEF cv, cs
  <2> QED
    BY <1>1, <1>2, <1>3, <2>1, <2>2, WriteTyped, RequestsAssumption
<1> QED
  BY <1>4, <1>5, <1>6, <1>7, <1>8

LEMMA ChangesTyped ==
  ASSUME TInv, NEW t \in Tasks, NEW r \in Requests,
         TakeRequest(t, r) \/ AskChange(t, r) \/ Withdraw(t, r) \/ Cancel(t, r)
  PROVE  TInv'
<1> DEFINE cv == view[t].conv[of[t]]
<1>1. Turning(t)
  BY DEF TakeRequest, AskChange, Withdraw, Cancel, Business
<1>2. /\ of[t] \in Customers /\ Loaded(case, view[t])
      /\ Proper(cv) /\ (cv.frozen => CasesOf(case, of[t]) # {})
  BY <1>1, TurnView
<1>3. /\ gone \subseteq Requests /\ gone \cup {r} \subseteq Requests
      /\ request[r] \in Request /\ view[t].request[r] \in Request
  BY <1>2 DEF TInv, TypeOK, Loaded
<1>4. CASE TakeRequest(t, r)
  <2> DEFINE cs == Raised(case, of[t], Classified(cv, "booking_hold"), r)
  <2>1. Spare(case) # {}
    BY <1>4 DEF TakeRequest
  <2>2. /\ Proper(Escalated(cv, "booking_hold"))
        /\ Classified(cv, "booking_hold") \in {"urgent", "booking_hold"}
    BY <1>2, EscalatedIs DEF Reasons
  <2>3. ~(cv.frozen /\ cv.reason = "urgent")
    BY <1>4 DEF TakeRequest, Business
  <2>4. Classified(cv, "booking_hold") = "booking_hold"
    BY <1>2, <2>3 DEF Classified, Proper
  <2>5. cs \in Cases /\ AskedRight(cs) /\ Extends(case, cs) /\ CasesOf(cs, of[t]) # {}
    BY <1>1, <2>1, <2>4, TurnRaises DEF Reasons
  <2>6. [NewRequest EXCEPT !.status = "held"] \in Request
    BY DEF NewRequest, Request, Events
  <2>7. /\ EndTurn(t, r, [NewRequest EXCEPT !.status = "held"], cs, Escalated(cv, "booking_hold"))
        /\ UNCHANGED gone
    BY <1>4 DEF TakeRequest
  <2> HIDE DEF cv, cs
  <2> QED
    BY <1>1, <1>3, <2>2, <2>5, <2>6, <2>7, EndTurnTyped
<1>5. CASE AskChange(t, r)
  <2> DEFINE q == [request[r] EXCEPT !.last = view[t].request[r].last, !.change = TRUE]
  <2>1. q \in Request
    BY <1>3 DEF Request
  <2>2. EndTurn(t, r, q, case, cv) /\ UNCHANGED gone
    BY <1>5 DEF AskChange
  <2> HIDE DEF cv, q
  <2> QED
    BY <1>1, <1>2, <1>3, <2>1, <2>2, EndTurnTyped, AsItIs
<1>6. CASE Withdraw(t, r)
  <2> DEFINE k == Newest(CasesOf(case, of[t]))
             closes == CasesOf(case, of[t]) # {} /\ case[k].reason = "booking_hold"
                                               /\ case[k].status \in OpenStatuses
             cs == IF closes THEN [case EXCEPT ![k] = Moved(@, "withdrawn")] ELSE case
  <2>1. Settled("cancelled", "withdrawn") \in Request
    BY DEF Settled, Request, Events
  <2>2. cs \in Cases /\ AskedRight(cs) /\ Extends(case, cs)
        /\ (closes => CasesOf(case, of[t]) # {})
    <3>1. CASE ~closes
      BY <3>1, AsItIs
    <3>2. CASE closes
      <4>1. k \in CaseIds /\ case[k] # NoCase
        <5>1. k \in CasesOf(case, of[t])
          BY <3>2, OfThese, NewestIs
        <5> QED
          BY <5>1 DEF CasesOf
      <4>2. case[k] \in Case /\ case \in Cases /\ AskedRight(case)
        BY <4>1, AsItIs, CaseTyped
      <4>3. cs = [case EXCEPT ![k] = Moved(case[k], "withdrawn")]
        BY <3>2
      <4> HIDE DEF k, cs
      <4> QED
        BY <3>2, <4>1, <4>2, <4>3, CaseMoved, CaseWritten
    <3> QED
      BY <3>1, <3>2
  <2>3. EndTurn(t, r, Settled("cancelled", "withdrawn"), cs, cv) /\ gone' = gone \cup {r}
    BY <1>6 DEF Withdraw
  <2>4. cs # case => closes
    OBVIOUS
  <2>5. CasesOf(case, of[t]) \subseteq CasesOf(cs, of[t])
    BY <2>2, StillHers
  <2> HIDE DEF cv, cs, closes
  <2> QED
    BY <1>1, <1>2, <1>3, <2>1, <2>2, <2>3, <2>4, <2>5, EndTurnTyped
<1>7. CASE Cancel(t, r)
  <2> DEFINE which == IF Live(view[t].request[r]) THEN r ELSE NoRequest
             q == Settled("cancelled", view[t].request[r].last)
  <2>1. q \in Request
    BY <1>3 DEF Settled, Request
  <2>2. EndTurn(t, which, q, case, cv) /\ gone' = gone \cup {r}
    BY <1>7 DEF Cancel
  <2>3. which \in Requests \cup {NoRequest}
    OBVIOUS
  <2> HIDE DEF cv, q, which
  <2> QED
    BY <1>1, <1>2, <1>3, <2>1, <2>2, <2>3, EndTurnTyped, AsItIs
<1> QED
  BY <1>4, <1>5, <1>6, <1>7

\* The sessions hold what they held, while time goes by.
LEMMA TimeTyped ==
  ASSUME TInv, Time PROVE TInv'
<1>1. UNCHANGED <<strict, task, told, gone>>
  BY DEF Time, Ripen, Elapse, WindowShuts
<1>2. ASSUME request' \in [Requests -> Request], case' \in Cases, AskedRight(case'),
             Extends(case, case'), conv' \in Conversations, Paged(case', conv')
      PROVE  TInv'
  <2>1. TypeOK'
    BY <1>1, <1>2 DEF TInv, TypeOK, Cases, AskedRight, Conversations, task
  <2>2. ASSUME NEW t \in Tasks PROVE Equipped(t)'
    <3>1. Equipped(t) /\ late[t] \subseteq CaseIds
      BY DEF TInv, TypeOK
    <3>2. pc[t] # "idle" => Loaded(case', view[t])
      BY <1>2, <3>1, StillLoaded DEF Equipped
    <3>3. CasesOf(case, of[t]) \subseteq CasesOf(case', of[t])
      BY <1>2, StillHers
    <3>4. \A k \in CaseIds : case[k] # NoCase => case'[k] # NoCase
      BY <1>2 DEF Extends
    <3> QED
      BY <1>1, <3>1, <3>2, <3>3, <3>4 DEF Equipped, task
  <2>3. view' = [t \in Tasks |-> view'[t]]
    BY <1>1 DEF TInv, task
  <2> QED
    BY <1>2, <2>1, <2>2, <2>3 DEF TInv
<1>3. ASSUME NEW r \in Requests, Ripen(r) PROVE TInv'
  <2>1. request' \in [Requests -> Request]
    BY <1>3 DEF Ripen, TInv, TypeOK, Request
  <2> QED
    BY <1>2, <1>3, <2>1, AsItIs DEF Ripen
<1>4. ASSUME NEW k \in CaseIds, Elapse(k) PROVE TInv'
  <2> DEFINE new == [case[k] EXCEPT !.clock = IF @ = "asked" THEN "reminder" ELSE "timeout"]
  <2>1. case[k] # NoCase /\ case[k] \in Case /\ case \in Cases /\ AskedRight(case)
    BY <1>4, AsItIs, CaseTyped DEF Elapse
  <2>2. /\ new \in Case /\ new.of = case[k].of
        /\ new.about = case[k].about /\ new.reason = case[k].reason
    BY <2>1 DEF Case
  <2>3. case' = [case EXCEPT ![k] = new] /\ UNCHANGED <<request, conv>>
    BY <1>4, <2>1 DEF Elapse, Case, Cases
  <2> HIDE DEF new
  <2>4. case' \in Cases /\ AskedRight(case') /\ Extends(case, case')
    BY <2>1, <2>2, <2>3, CaseWritten
  <2> QED
    BY <1>2, <2>3, <2>4, AsItIs, StillPaged DEF TInv, TypeOK
<1>5. ASSUME NEW c \in Customers, WindowShuts(c) PROVE TInv'
  <2>1. conv' = [conv EXCEPT ![c] = [conv[c] EXCEPT !.window = FALSE]]
        /\ UNCHANGED <<request, case>> /\ conv[c] \in Conversation
        /\ conv \in [Customers -> Conversation]
    BY <1>5 DEF WindowShuts, TInv, TypeOK
  <2>2. [conv[c] EXCEPT !.window = FALSE] \in Conversation
    BY <2>1 DEF Conversation
  <2>3. conv' \in Conversations
    BY <2>1, <2>2 DEF Conversations
  <2>4. \A d \in Customers : conv'[d].reason = conv[d].reason /\ conv'[d].frozen = conv[d].frozen
    BY <2>1 DEF Conversation
  <2>5. Paged(case, conv')
    BY <2>4 DEF TInv, Paged
  <2> QED
    BY <1>2, <2>1, <2>3, <2>5, AsItIs DEF TInv, TypeOK
<1> QED
  BY <1>3, <1>4, <1>5 DEF Time

LEMMA TurnTyped ==
  ASSUME TInv, NEW t \in Tasks, Turn(t) PROVE TInv'
<1>1. CASE \/ UrgentTurn(t) \/ GuidanceTurn(t) \/ TalkTurn(t) \/ Question(t) \/ Advise(t)
  BY <1>1, TalksTyped
<1>2. CASE \E r \in Requests : TakeRequest(t, r) \/ AskChange(t, r) \/ Withdraw(t, r) \/ Cancel(t, r)
  BY <1>2, ChangesTyped
<1> QED
  BY <1>1, <1>2 DEF Turn

LEMMA TypedStep == TInv /\ [Next]_vars => TInv'
<1> SUFFICES ASSUME TInv, [Next]_vars PROVE TInv'
  OBVIOUS
<1>1. CASE UNCHANGED vars
  BY <1>1, QuietTyped
<1>2. CASE Time
  BY <1>2, TimeTyped
<1>3. ASSUME NEW t \in Tasks, Work(t) PROVE TInv'
  <2>1. CASE Sweep(t)
    BY <2>1, SweepTyped
  <2>2. CASE LoadOverdue(t)
    BY <2>2, LoadOverdueTyped
  <2>3. CASE ChaseOne(t)
    BY <2>3, ChaseOneTyped
  <2>4. CASE ChaseDone(t) \/ PutOff(t) \/ RequestReopen(t)
    BY <2>4, QuitTyped
  <2>5. CASE RouteOwed(t)
    BY <2>5, RouteOwedTyped
  <2>6. CASE BeginTurn(t)
    BY <2>6, BeginTurnTyped
  <2>7. CASE Turn(t)
    BY <2>7, TurnTyped
  <2>8. CASE Ask(t)
    BY <2>8, AskTyped
  <2>9. CASE FindWithdrawn(t)
    BY <2>9, FindWithdrawnTyped
  <2>10. CASE JustRecord(t) \/ Decline(t) \/ \E reachable \in BOOLEAN : Approve(t, reachable)
    BY <2>10, DecideTyped
  <2>11. CASE Relay(t)
    BY <2>11, RelayTyped
  <2>12. CASE \E worded, sent \in BOOLEAN : Tell(t, worded, sent)
    BY <2>12, TellTyped
  <2> QED
    BY <1>3, <2>1, <2>2, <2>3, <2>4, <2>5, <2>6, <2>7, <2>8, <2>9, <2>10, <2>11, <2>12 DEF Work
<1>4. ASSUME NEW t \in Tasks,
             \/ Maintain(t)
             \/ \E c \in Customers, m \in {"business", "urgent"} : Arrive(t, c, m)
      PROVE  TInv'
  <2>1. CASE Maintain(t)
    <3>1. CASE Customers = {}
      <4>1. /\ Goto(t, "sweeping") /\ Load(t)
            /\ UNCHANGED <<tables, of, msg, item, answer, late, told, gone>>
        BY <2>1 DEF Maintain
      <4> QED
        BY <4>1, LoadsTyped DEF TInv, TypeOK, tables
    <3>2. CASE Customers # {}
      BY <2>1, <3>2, ArriveTyped
    <3> QED
      BY <3>1, <3>2
  <2> QED
    BY <1>4, <2>1, ArriveTyped
<1>5. ASSUME NEW t \in Tasks, \E k \in CaseIds, a \in Answers : OwnerAnswers(t, k, a)
      PROVE  TInv'
  BY <1>5, OwnerAnswersTyped
<1> QED
  BY <1>1, <1>2, <1>3, <1>4, <1>5 DEF Next

\* The rows, the tasks and what their sessions hold are what the code can make of them,
\* however many messages, answers and sweeps run side by side.
THEOREM RequestsTypeCorrect == Spec => []TypeOK
<1>1. Spec => []TInv
  BY StartTyped, TypedStep, PTL DEF Spec
<1>2. TInv => TypeOK
  BY DEF TInv
<1> QED
  BY <1>1, <1>2, PTL

-----------------------------------------------------------------------------
(* One car, one customer, for any interleaving *)

\* Every step but the owner's approval leaves the requests that are confirmed or fewer.
NoneConfirmed == \A r \in Requests : request'[r].status = "confirmed" => request[r].status = "confirmed"

LEMMA NotBothKept ==
  ASSUME NeverBothBooked, NoneConfirmed PROVE NeverBothBooked'
<1> SUFFICES ASSUME NEW p \in Rivals PROVE \E i \in 1 .. 2 : request'[p[i]].status # "confirmed"
  BY DEF NeverBothBooked
<1>1. p[1] \in Requests /\ p[2] \in Requests
  BY RequestsAssumption
<1>2. PICK i \in 1 .. 2 : request[p[i]].status # "confirmed"
  BY DEF NeverBothBooked
<1>3. i = 1 \/ i = 2
  BY <1>2
<1> QED
  BY <1>1, <1>2, <1>3 DEF NoneConfirmed

LEMMA TurnConfirmsNone ==
  ASSUME TInv, NEW t \in Tasks, Turn(t) PROVE NoneConfirmed
<1>1. request \in [Requests -> Request]
  BY DEF TInv, TypeOK
<1>2. CASE \/ UrgentTurn(t) \/ GuidanceTurn(t) \/ TalkTurn(t) \/ Question(t) \/ Advise(t)
  BY <1>2 DEF UrgentTurn, GuidanceTurn, TalkTurn, Question, Advise, EndTurn, Write, NoneConfirmed
<1>3. ASSUME NEW r \in Requests,
             TakeRequest(t, r) \/ AskChange(t, r) \/ Withdraw(t, r) \/ Cancel(t, r)
      PROVE  NoneConfirmed
  <2>1. PICK q : /\ request' = request \/ request' = [request EXCEPT ![r] = q]
                 /\ q.status = "confirmed" => request[r].status = "confirmed"
    <3>1. CASE TakeRequest(t, r)
      <4> WITNESS [NewRequest EXCEPT !.status = "held"]
      <4> QED
        BY <3>1 DEF TakeRequest, EndTurn, Write, NewRequest
    <3>2. CASE AskChange(t, r)
      <4> WITNESS [request[r] EXCEPT !.last = view[t].request[r].last, !.change = TRUE]
      <4> QED
        BY <1>1, <3>2 DEF AskChange, EndTurn, Write, Request
    <3>3. CASE Withdraw(t, r)
      <4> WITNESS Settled("cancelled", "withdrawn")
      <4> QED
        BY <3>3 DEF Withdraw, EndTurn, Write, Settled
    <3>4. CASE Cancel(t, r)
      <4> WITNESS Settled("cancelled", view[t].request[r].last)
      <4> QED
        BY <3>4 DEF Cancel, EndTurn, Write, Settled
    <3> QED
      BY <1>3, <3>1, <3>2, <3>3, <3>4
  <2> QED
    BY <1>1, <2>1 DEF NoneConfirmed
<1> QED
  BY <1>2, <1>3 DEF Turn

LEMMA ApproveApart ==
  ASSUME TInv, NeverBothBooked, NEW t \in Tasks, NEW reachable \in BOOLEAN, Approve(t, reachable)
  PROVE  NeverBothBooked'
<1> DEFINE r == Asked(t)
<1>1. r \in Requests /\ request \in [Requests -> Request]
  BY AskedIs DEF Approve, Decides, TInv, TypeOK
<1>2. CASE UNCHANGED request
  BY <1>2, NotBothKept DEF NoneConfirmed
<1>3. CASE Available(r) /\ request' = [request EXCEPT ![r] = Settled("confirmed", "confirmed")]
  <2> SUFFICES ASSUME NEW p \in Rivals PROVE \E i \in 1 .. 2 : request'[p[i]].status # "confirmed"
    BY DEF NeverBothBooked
  <2>1. p[1] \in Requests /\ p[2] \in Requests /\ p = <<p[1], p[2]>>
    BY RequestsAssumption
  <2>2. <<p[2], p[1]>> \in Rivals /\ p[1] # p[2]
    BY <2>1, RequestsAssumption
  <2> HIDE DEF r
  <2>3. CASE p[1] = r
    BY <1>1, <1>3, <2>1, <2>2, <2>3 DEF Available
  <2>4. CASE p[2] = r
    BY <1>1, <1>3, <2>1, <2>2, <2>4 DEF Available
  <2>5. CASE p[1] # r /\ p[2] # r
    <3>1. PICK i \in 1 .. 2 : request[p[i]].status # "confirmed"
      BY DEF NeverBothBooked
    <3>2. i = 1 \/ i = 2
      BY <3>1
    <3> QED
      BY <1>1, <1>3, <2>1, <2>5, <3>1, <3>2
  <2> QED
    BY <2>3, <2>4, <2>5
<1> QED
  BY <1>2, <1>3 DEF Approve, Confirms

LEMMA ApartStep == TInv /\ NeverBothBooked /\ [Next]_vars => NeverBothBooked'
<1> SUFFICES ASSUME TInv, NeverBothBooked, [Next]_vars PROVE NeverBothBooked'
  OBVIOUS
<1>1. request \in [Requests -> Request]
  BY DEF TInv, TypeOK
<1>2. CASE UNCHANGED request
  BY <1>2, NotBothKept DEF NoneConfirmed
<1>3. ASSUME NEW t \in Tasks, Sweep(t) PROVE NoneConfirmed
  BY <1>1, <1>3 DEF Sweep, NoneConfirmed, Released, Settled
<1>4. ASSUME NEW t \in Tasks, Decline(t) PROVE NoneConfirmed
  <2>1. request' = [request EXCEPT ![Asked(t)] = Settled("cancelled", "released")]
    BY <1>4 DEF Decline
  <2> QED
    BY <1>1, <2>1 DEF NoneConfirmed, Settled
<1>5. ASSUME NEW r \in Requests, Ripen(r) PROVE NoneConfirmed
  <2>1. request' = [request EXCEPT ![r].age = IF @ = "young" THEN "edge" ELSE "old"]
    BY <1>5 DEF Ripen
  <2> QED
    BY <1>1, <2>1 DEF NoneConfirmed, Request
<1>6. CASE \/ UNCHANGED vars
           \/ \E k \in CaseIds : Elapse(k)
           \/ \E c \in Customers : WindowShuts(c)
  BY <1>2, <1>6 DEF vars, tables, Elapse, WindowShuts
<1>7. ASSUME NEW t \in Tasks,
             \/ Maintain(t)
             \/ \E c \in Customers, m \in {"business", "urgent"} : Arrive(t, c, m)
             \/ \E k \in CaseIds, a \in Answers : OwnerAnswers(t, k, a)
      PROVE  UNCHANGED request
  BY <1>7 DEF Maintain, Arrive, OwnerAnswers, tables
<1>8. ASSUME NEW t \in Tasks,
             \/ LoadOverdue(t) \/ ChaseOne(t) \/ ChaseDone(t) \/ RouteOwed(t) \/ PutOff(t)
             \/ BeginTurn(t) \/ Ask(t) \/ FindWithdrawn(t) \/ JustRecord(t) \/ Relay(t)
             \/ RequestReopen(t) \/ \E worded, sent \in BOOLEAN : Tell(t, worded, sent)
      PROVE  UNCHANGED request
  BY <1>8 DEF LoadOverdue, ChaseOne, ChaseDone, RouteOwed, PutOff, BeginTurn, Ask, FindWithdrawn,
         JustRecord, Relay, RequestReopen, Tell, tables
<1>9. ASSUME NEW t \in Tasks, Work(t) PROVE NeverBothBooked'
  BY <1>2, <1>3, <1>4, <1>8, <1>9, TurnConfirmsNone, ApproveApart, NotBothKept DEF Work
<1> QED
  BY <1>2, <1>5, <1>6, <1>7, <1>9, NotBothKept DEF Next, Time

\* Approvals that run side by side, with sweeps and turns that hold what they loaded long
\* before, never put two customers into one car at overlapping times: every confirmation
\* looks at what is committed when it confirms (confirm_hold).
THEOREM NeverTwoInOneCar == Spec => []NeverBothBooked
<1>1. Init => NeverBothBooked
  <2> SUFFICES ASSUME Init, NEW p \in Rivals PROVE request[p[1]].status # "confirmed"
    BY DEF NeverBothBooked
  <2>1. p[1] \in Requests
    BY RequestsAssumption
  <2> QED
    BY <2>1 DEF Init, NewRequest
<1>2. Init => TInv /\ NeverBothBooked
  BY <1>1, StartTyped
<1>3. TInv /\ NeverBothBooked /\ [Next]_vars => TInv' /\ NeverBothBooked'
  BY TypedStep, ApartStep
<1> QED
  BY <1>2, <1>3, PTL DEF Spec

-----------------------------------------------------------------------------
(* One worker: the steps of the one task that runs *)

Data == Numbered /\ OneQuestion /\ OpenQuestions /\ GoneIsCancelled /\ ConfirmedAsAsked

LEMMA Sole ==
  ASSUME IInv, NEW t \in Tasks, pc[t] # "idle" \/ Idle
  PROVE  \A s \in Tasks \ {t} : pc[s] = "idle"
  BY DEF IInv, OneTask, Idle

LEMMA OneStep ==
  ASSUME IInv, NEW t \in Tasks, pc[t] # "idle" \/ Idle, \A s \in Tasks \ {t} : pc'[s] = pc[s],
         TInv', Data', Held', Current(t)'
  PROVE  IInv'
<1>1. \A s \in Tasks \ {t} : pc'[s] = "idle"
  BY Sole
<1>2. OneTask'
  BY <1>1 DEF OneTask
<1>3. \A s \in Tasks : Current(s)'
  BY <1>1 DEF Current
<1> QED
  BY <1>2, <1>3 DEF IInv, Data

\* Cases that move within their questions, or have an answer they had not.
Alike == \A k \in CaseIds :
    /\ case'[k] = NoCase <=> case[k] = NoCase
    /\ case[k] # NoCase =>
          /\ case'[k].of = case[k].of /\ case'[k].about = case[k].about
          /\ case'[k].status \in {"awaiting", "timed_out", "decided"}
                <=> case[k].status \in {"awaiting", "timed_out", "decided"}
          /\ case'[k].status \in Unanswered => case[k].status \in Unanswered

LEMMA AlikeKeeps ==
  ASSUME Numbered, OneQuestion, Alike
  PROVE  Numbered' /\ OneQuestion' /\ \A c \in Customers : Unsettled(c)' = Unsettled(c)
<1>1. \A c \in Customers : Unsettled(c)' = Unsettled(c)
  BY DEF Alike, Unsettled, CasesOf
<1>2. Numbered'
  BY DEF Alike, Numbered
<1> QED
  BY <1>1, <1>2 DEF OneQuestion

\* Requests that stay what was asked about and cancelled.
Steady == \A r \in Requests :
    /\ request[r].status # "none" => request'[r].status # "none"
    /\ request'[r].last = "withdrawn" => request[r].last = "withdrawn"
    /\ r \in gone => request'[r].status = "cancelled"

LEMMA SteadyKeeps ==
  ASSUME OpenQuestions, Alike, Steady, UNCHANGED gone, gone \subseteq Requests
  PROVE  OpenQuestions' /\ GoneIsCancelled'
<1>1. GoneIsCancelled'
  BY DEF Steady, GoneIsCancelled
<1>2. ASSUME NEW k \in CaseIds, case'[k] # NoCase
      PROVE  /\ case'[k].about \in Requests => /\ case'[k].of = OwnerOf[case'[k].about]
                                               /\ request'[case'[k].about].status # "none"
             /\ case'[k].status \in Unanswered => Askable(case[k])'
  <2>1. case[k] # NoCase /\ case'[k].of = case[k].of /\ case'[k].about = case[k].about
        /\ (case'[k].status \in Unanswered => case[k].status \in Unanswered)
    BY <1>2 DEF Alike
  <2> QED
    BY <2>1 DEF OpenQuestions, Askable, Steady
<1> QED
  BY <1>1, <1>2 DEF OpenQuestions, Askable

LEMMA HeldKept ==
  ASSUME IInv, NEW t \in Tasks, pc[t] \notin {"idle", "asking"} \/ Idle,
         \A c \in Customers : Unsettled(c)' = Unsettled(c) /\ (conv'[c].frozen => conv[c].frozen)
  PROVE  Held'
<1>1. \A s \in Tasks : pc[s] # "asking"
  BY Sole DEF Idle
<1> QED
  BY <1>1 DEF IInv, Held

\* A step that leaves the questions as they are, or better.
LEMMA QuestionsKept ==
  ASSUME IInv, TInv', NEW t \in Tasks, pc[t] \notin {"idle", "asking"} \/ Idle,
         \A s \in Tasks \ {t} : pc'[s] = pc[s],
         Alike, Steady, UNCHANGED gone, ConfirmedAsAsked',
         \A c \in Customers : conv'[c].frozen => conv[c].frozen,
         Current(t)'
  PROVE  IInv'
<1>1. Numbered' /\ OneQuestion' /\ \A c \in Customers : Unsettled(c)' = Unsettled(c)
  BY AlikeKeeps DEF IInv
<1>2. OpenQuestions' /\ GoneIsCancelled'
  BY SteadyKeeps DEF IInv, TInv, TypeOK
<1>3. Held'
  BY <1>1, HeldKept
<1> QED
  BY <1>1, <1>2, <1>3, OneStep DEF Data

\* A step that writes neither requests nor cases, nor what a conversation is counted as.
LEMMA RowsKept ==
  ASSUME IInv, TInv', NEW t \in Tasks, pc[t] \notin {"idle", "asking"} \/ Idle,
         \A s \in Tasks \ {t} : pc'[s] = pc[s],
         UNCHANGED <<request, case, gone>>,
         \A c \in Customers : conv'[c].frozen = conv[c].frozen /\ conv'[c].sales = conv[c].sales,
         Current(t)'
  PROVE  IInv'
<1>1. Alike
  BY DEF Alike
<1>2. Steady
  BY DEF Steady, IInv, GoneIsCancelled
<1>3. ConfirmedAsAsked'
  BY RequestsAssumption DEF IInv, ConfirmedAsAsked
<1> QED
  BY <1>1, <1>2, <1>3, QuestionsKept

LEMMA WindowOnly ==
  ASSUME TInv, UNCHANGED conv \/ \E c \in Customers : OpensWindow(c)
  PROVE  \A c \in Customers : conv'[c].frozen = conv[c].frozen /\ conv'[c].sales = conv[c].sales
<1>1. conv \in [Customers -> Conversation]
  BY DEF TInv, TypeOK
<1> QED
  BY <1>1 DEF OpensWindow, Conversation

LEMMA StartOne == Init => IInv
<1> SUFFICES ASSUME Init PROVE IInv
  OBVIOUS
<1>1. TInv
  BY StartTyped
<1>2. \A c \in Customers : Unsettled(c) = {} /\ ~conv[c].frozen
  BY DEF Init, Unsettled, CasesOf
<1>3. Held /\ OneQuestion /\ Numbered /\ OneTask /\ OpenQuestions /\ GoneIsCancelled
  BY <1>2 DEF Init, Held, OneQuestion, Numbered, OneTask, OpenQuestions, GoneIsCancelled
<1>4. ConfirmedAsAsked
  BY DEF Init, NewRequest, ConfirmedAsAsked
<1>5. \A t \in Tasks : Current(t)
  BY DEF Init, Current
<1> QED
  BY <1>1, <1>3, <1>4, <1>5 DEF IInv

LEMMA TakesIdle == ASSUME Serial, NEW t \in Tasks, Takes(t) PROVE Idle
  BY DEF Takes

LEMMA UptakeOne ==
  ASSUME Serial, IInv, TInv', NEW t \in Tasks,
         \/ Maintain(t)
         \/ \E c \in Customers, m \in {"business", "urgent"} : Arrive(t, c, m)
         \/ \E k \in CaseIds, a \in Answers : OwnerAnswers(t, k, a)
  PROVE  IInv'
<1>1. Idle /\ TInv
  BY TakesIdle DEF Maintain, Arrive, OwnerAnswers, IInv
<1>2. Load(t) /\ UNCHANGED <<tables, gone>> /\ \E label \in {"sweeping", "deciding"} : Goto(t, label)
  BY DEF Maintain, Arrive, OwnerAnswers
<1>3. view'[t] = Snapshot /\ Snapshot' = Snapshot
  BY <1>1, <1>2, Loads DEF Snapshot, tables
<1>4. \A s \in Tasks \ {t} : pc'[s] = pc[s]
  BY <1>1, <1>2, Goes
<1>5. pc'[t] \in {"sweeping", "deciding"}
  BY <1>1, <1>2, Goes
<1>6. pc'[t] = "deciding" => case'[item'[t]].status \in Unanswered
  <2>1. ASSUME NEW k \in CaseIds, NEW a \in Answers, OwnerAnswers(t, k, a)
        PROVE  case'[item'[t]].status \in Unanswered
    BY <1>1, <2>1 DEF OwnerAnswers, tables, TInv, TypeOK
  <2>2. ASSUME Goto(t, "sweeping") PROVE pc'[t] = "sweeping"
    BY <1>1, <2>2, Goes
  <2> QED
    BY <2>1, <2>2 DEF Maintain, Arrive
<1>7. Current(t)'
  BY <1>3, <1>5, <1>6 DEF Current
<1> QED
  BY <1>1, <1>2, <1>4, <1>7, RowsKept DEF tables

LEMMA SweepOne ==
  ASSUME IInv, TInv', NEW t \in Tasks, Sweep(t) PROVE IInv'
<1>1. pc[t] = "sweeping" /\ TInv /\ view[t].request = request
  BY DEF Sweep, IInv, Current, Snapshot
<1>2. (\A s \in Tasks \ {t} : pc'[s] = pc[s]) /\ pc'[t] \in {"overdue", "routing"}
  BY <1>1, Goes DEF Sweep
<1>3. /\ request \in [Requests -> Request] /\ conv \in [Customers -> Conversation]
      /\ gone \subseteq Requests
  BY <1>1 DEF TInv, TypeOK
<1>4. \A r \in Requests :
         request'[r] = IF Expired(request[r]) THEN Released ELSE request[r]
  BY <1>1 DEF Sweep
<1>5. \A c \in Customers : /\ conv'[c].frozen = conv[c].frozen
                           /\ conv[c].sales = "booked" => conv'[c].sales = "booked"
  <2>1. PICK quiet \in SUBSET {c \in Customers : Silent(c)} :
          conv' = [c \in Customers |->
                     IF c \in quiet THEN [conv[c] EXCEPT !.sales = FellSilentAs(c)] ELSE conv[c]]
    BY DEF Sweep
  <2> QED
    BY <1>3, <2>1 DEF Silent, Conversation
<1>6. Alike
  BY DEF Alike, Sweep
<1>7. Steady
  BY <1>3, <1>4 DEF Steady, Released, Settled, Expired, IInv, GoneIsCancelled
<1>8. ConfirmedAsAsked'
  BY <1>3, <1>4, <1>5, RequestsAssumption DEF IInv, ConfirmedAsAsked, Released, Settled
<1>9. Current(t)'
  BY <1>2 DEF Current
<1> QED
  BY <1>1, <1>2, <1>5, <1>6, <1>7, <1>8, <1>9, QuestionsKept DEF Sweep

LEMMA EndsOne ==
  ASSUME IInv, TInv', NEW t \in Tasks, pc[t] # "idle", pc[t] # "asking", End(t),
         UNCHANGED conv \/ \E c \in Customers : OpensWindow(c), UNCHANGED <<request, case, gone>>
  PROVE  IInv'
<1>1. TInv
  BY DEF IInv
<1>2. pc'[t] = "idle" /\ \A s \in Tasks \ {t} : pc'[s] = pc[s]
  BY <1>1, Ends DEF Apart
<1>3. Current(t)'
  BY <1>2 DEF Current
<1> QED
  BY <1>1, <1>2, <1>3, WindowOnly, RowsKept

LEMMA LoadOverdueOne ==
  ASSUME IInv, TInv', NEW t \in Tasks, LoadOverdue(t) PROVE IInv'
<1>1. TInv /\ pc[t] = "overdue" /\ UNCHANGED <<tables, gone>>
  BY DEF IInv, LoadOverdue
<1>2. CASE End(t)
  BY <1>1, <1>2, EndsOne DEF tables
<1>3. CASE Goto(t, "chasing") /\ Load(t)
  <2>1. pc'[t] = "chasing" /\ \A s \in Tasks \ {t} : pc'[s] = pc[s]
    BY <1>1, <1>3, Goes
  <2>2. view'[t].case = case
    BY <1>1, <1>3, Loads DEF Snapshot
  <2>3. Current(t)'
    BY <1>1, <2>1, <2>2 DEF Current, tables
  <2> QED
    BY <1>1, <2>1, <2>3, RowsKept DEF tables
<1> QED
  BY <1>2, <1>3 DEF LoadOverdue

LEMMA ChaseOneOne ==
  ASSUME IInv, TInv', NEW t \in Tasks, ChaseOne(t) PROVE IInv'
<1> DEFINE k == Newest(late[t])
           new == IF NeedsReminder(k, view[t].case[k]) THEN [case[k] EXCEPT !.reminded = TRUE]
                  ELSE IF HasTimedOut(k, view[t].case[k]) THEN Moved(case[k], "timed_out")
                  ELSE case[k]
<1>1. pc[t] = "chasing" /\ late[t] # {} /\ late[t] \in SUBSET CaseIds /\ TInv
  BY DEF ChaseOne, IInv, TInv, TypeOK
<1>2. k \in late[t] /\ k \in CaseIds
  BY <1>1, NewestIs
<1>3. view[t].case[k] = case[k] /\ case[k] # NoCase
  BY <1>1, <1>2 DEF IInv, Current, TInv, Equipped
<1>4. case[k] \in Case /\ case \in Cases
  BY <1>1, <1>2, <1>3, AsItIs, CaseTyped
<1>5. case' = [case EXCEPT ![k] = new] /\ late' = [late EXCEPT ![t] = @ \ {k}]
      /\ UNCHANGED <<request, conv, pc, view, gone>>
  BY DEF ChaseOne
<1>6. /\ new \in Case /\ new.of = case[k].of /\ new.about = case[k].about
      /\ \/ new.status = case[k].status
         \/ new.status = "timed_out" /\ case[k].status = "awaiting"
  <2>1. /\ [case[k] EXCEPT !.reminded = TRUE] \in Case
        /\ [case[k] EXCEPT !.reminded = TRUE].of = case[k].of
        /\ [case[k] EXCEPT !.reminded = TRUE].about = case[k].about
        /\ [case[k] EXCEPT !.reminded = TRUE].status = case[k].status
    BY <1>4 DEF Case
  <2>2. /\ Moved(case[k], "timed_out") \in Case
        /\ Moved(case[k], "timed_out").of = case[k].of
        /\ Moved(case[k], "timed_out").about = case[k].about
        /\ Moved(case[k], "timed_out").status = "timed_out"
    BY <1>4, CaseMoved
  <2>3. HasTimedOut(k, view[t].case[k]) => case[k].status = "awaiting"
    BY <1>3 DEF HasTimedOut
  <2>4. \/ new = [case[k] EXCEPT !.reminded = TRUE]
        \/ new = Moved(case[k], "timed_out") /\ case[k].status = "awaiting"
        \/ new = case[k]
    BY <2>3
  <2> HIDE DEF new, k
  <2> QED
    BY <1>4, <2>1, <2>2, <2>4
<1> HIDE DEF new, k
<1>7. Alike
  BY <1>2, <1>3, <1>4, <1>5, <1>6, SentinelAssumption DEF Alike, Cases, Unanswered
<1>8. Steady
  BY <1>5 DEF Steady, IInv, GoneIsCancelled
<1>9. Current(t)'
  <2>1. late'[t] = late[t] \ {k}
    BY <1>5, <1>1 DEF TInv, TypeOK
  <2>2. \A j \in late'[t] : case'[j] = case[j]
    BY <1>1, <1>4, <1>5, <2>1 DEF Cases
  <2> QED
    BY <1>1, <1>5, <2>1, <2>2 DEF IInv, Current
<1>10. ConfirmedAsAsked'
  BY <1>5 DEF IInv, ConfirmedAsAsked
<1> QED
  BY <1>1, <1>5, <1>7, <1>8, <1>9, <1>10, QuestionsKept

LEMMA QuitOne ==
  ASSUME IInv, TInv', NEW t \in Tasks, ChaseDone(t) \/ PutOff(t) \/ RequestReopen(t)
  PROVE  IInv'
<1>1. UNCHANGED conv \/ \E c \in Customers : OpensWindow(c)
  BY DEF ChaseDone, RequestReopen, tables, PutOff, IInv, TInv, Equipped
<1>2. End(t) /\ UNCHANGED <<request, case, gone>> /\ pc[t] \notin {"idle", "asking"}
  BY DEF ChaseDone, RequestReopen, tables, PutOff
<1> QED
  BY <1>1, <1>2, EndsOne

LEMMA RouteOne ==
  ASSUME IInv, TInv', NEW t \in Tasks, RouteOwed(t) \/ BeginTurn(t) \/ Relay(t)
  PROVE  IInv'
<1>1. TInv /\ pc[t] \in {"routing", "relaying"} /\ UNCHANGED <<request, case, gone>> /\ Load(t)
  BY DEF RouteOwed, BeginTurn, Relay, tables, IInv
<1>2. UNCHANGED conv \/ \E c \in Customers : OpensWindow(c)
  BY DEF RouteOwed, BeginTurn, Relay, tables, IInv, TInv, Equipped
<1>3. \A s \in Tasks \ {t} : pc'[s] = pc[s]
  BY <1>1, Goes DEF RouteOwed, BeginTurn, Relay
<1>4. Current(t)'
  <2>1. CASE RouteOwed(t)
    <3>1. pc'[t] = "telling"
      BY <1>1, <2>1, Goes DEF RouteOwed
    <3>2. PICK k \in Owed(of[t]) : item' = [item EXCEPT ![t] = k]
      BY <2>1 DEF RouteOwed
    <3>3. item'[t] = k /\ case[k].status = "decided"
      BY <1>1, <3>2 DEF Owed, TInv, TypeOK
    <3> QED
      BY <1>1, <3>1, <3>3 DEF Current
  <2>2. CASE BeginTurn(t)
    <3>1. pc'[t] = "turning"
      BY <1>1, <2>2, Goes DEF BeginTurn
    <3>2. view'[t] = Snapshot /\ Snapshot' = Snapshot
      BY <1>1, <2>2, Loads DEF Snapshot, BeginTurn, tables
    <3>3. Unsettled(of[t]) = {}
      BY <2>2 DEF BeginTurn, Owed, Pending, Unsettled, Unanswered
    <3>4. Unsettled(of[t])' = {}
      BY <2>2, <3>3 DEF BeginTurn, tables, Unsettled, CasesOf
    <3> QED
      BY <3>1, <3>2, <3>4 DEF Current
  <2>3. CASE Relay(t)
    <3>1. pc'[t] = "telling" /\ UNCHANGED <<item, case>>
      BY <1>1, <2>3, Goes DEF Relay, tables
    <3>2. case[item[t]].status = "decided"
      BY <2>3 DEF Relay, IInv, Current
    <3> QED
      BY <3>1, <3>2 DEF Current
  <2> QED
    BY <2>1, <2>2, <2>3
<1> QED
  BY <1>1, <1>2, <1>3, <1>4, WindowOnly, RowsKept

\* The question that is asked is the newest, and the only one.
LEMMA AskOne ==
  ASSUME IInv, TInv', NEW t \in Tasks, Ask(t) PROVE IInv'
<1> DEFINE k == Newest(CasesOf(case, of[t]))
           new == [case[k] EXCEPT !.status = "awaiting", !.clock = "asked"]
<1>1. TInv /\ pc[t] = "asking" /\ CasesOf(case, of[t]) # {} /\ of[t] \in Customers
  BY DEF Ask, IInv, TInv, Equipped
<1>2. k \in CasesOf(case, of[t])
  BY <1>1, OfThese, NewestIs
<1>3. k \in CaseIds /\ case[k] # NoCase /\ case[k].of = of[t]
  BY <1>2 DEF CasesOf
<1>4. case[k] \in Case /\ case \in Cases
  BY <1>1, <1>3, AsItIs, CaseTyped
<1>5. /\ new \in Case /\ new.of = case[k].of /\ new.about = case[k].about
      /\ new.status = "awaiting"
  BY <1>4 DEF Case
<1>6. case' = [case EXCEPT ![k] = new] /\ UNCHANGED <<request, conv, of, gone>>
  BY <1>3, <1>4 DEF Ask, Case, Cases
<1>7. Unsettled(of[t]) = {} /\ Askable(case[k])
  BY <1>1 DEF IInv, Current
<1>8. pc'[t] = "overdue" /\ \A s \in Tasks \ {t} : pc'[s] = pc[s]
  BY <1>1, Goes DEF Ask
<1> HIDE DEF new, k
<1>9. case' \in Cases /\ case'[k] = new /\ new # NoCase
      /\ \A j \in CaseIds \ {k} : case'[j] = case[j]
  BY <1>3, <1>4, <1>5, <1>6, SentinelAssumption DEF Cases
<1>10. \A c \in Customers : Unsettled(c)' = IF c = of[t] THEN {k} ELSE Unsettled(c)
  BY <1>3, <1>5, <1>7, <1>9 DEF Unsettled, CasesOf
<1>11. Numbered' /\ OneQuestion'
  BY <1>3, <1>9, <1>10 DEF IInv, Numbered, OneQuestion
<1>12. Held'
  <2>1. \A s \in Tasks \ {t} : pc[s] = "idle"
    BY <1>1, Sole
  <2> QED
    BY <1>6, <1>10, <2>1 DEF IInv, Held
<1>13. OpenQuestions'
  <2> SUFFICES ASSUME NEW j \in CaseIds, case'[j] # NoCase
               PROVE  /\ case'[j].about \in Requests =>
                            /\ case'[j].of = OwnerOf[case'[j].about]
                            /\ request'[case'[j].about].status # "none"
                      /\ case'[j].status \in Unanswered => Askable(case[j])'
    BY DEF OpenQuestions, Askable
  <2>1. CASE j = k
    BY <1>3, <1>5, <1>6, <1>7, <1>9, <2>1 DEF IInv, OpenQuestions, Askable
  <2>2. CASE j # k
    BY <1>6, <1>9, <2>2 DEF IInv, OpenQuestions, Askable
  <2> QED
    BY <2>1, <2>2
<1>14. GoneIsCancelled' /\ ConfirmedAsAsked'
  BY <1>6 DEF IInv, GoneIsCancelled, ConfirmedAsAsked
<1>15. Current(t)'
  BY <1>8 DEF Current
<1> QED
  BY <1>1, <1>8, <1>11, <1>12, <1>13, <1>14, <1>15, OneStep DEF Data

\* The owner's decision is about a request that is neither withdrawn nor told to be
\* cancelled, and as committed.
LEMMA DecidedView ==
  ASSUME IInv, NEW t \in Tasks, Deciding(t)
  PROVE  /\ view[t] = Snapshot /\ item[t] \in CaseIds /\ case[item[t]] # NoCase
         /\ case[item[t]] \in Case /\ case[item[t]].status \in Unanswered
         /\ AboutRequest(t) => /\ Asked(t) \in Requests /\ Asked(t) \notin gone
                               /\ Asked(t) = case[item[t]].about
                               /\ request[Asked(t)].last # "withdrawn"
                               /\ request[Asked(t)].status # "none"
<1>1. /\ view[t] = Snapshot /\ item[t] \in CaseIds /\ case[item[t]] # NoCase
      /\ case[item[t]].status \in Unanswered /\ TInv
  BY DEF Deciding, IInv, Current, TInv, Equipped
<1>2. case[item[t]] \in Case
  BY <1>1, AsItIs, CaseTyped
<1>3. AboutRequest(t) => Asked(t) \in Requests
  BY <1>1, AskedIs
<1>4. Asked(t) = case[item[t]].about
  BY <1>1 DEF Asked, Snapshot
<1> QED
  BY <1>1, <1>2, <1>3, <1>4 DEF IInv, OpenQuestions, Askable

LEMMA FindWithdrawnNever ==
  ASSUME IInv, NEW t \in Tasks, FindWithdrawn(t) PROVE FALSE
  BY DecidedView DEF FindWithdrawn, Withdrawn, Snapshot

\* A decision that leaves the requests steady and the customer counted.
LEMMA RecordsOne ==
  ASSUME IInv, TInv', NEW t \in Tasks, Deciding(t), RecordDecision(t), Steady, ConfirmedAsAsked',
         \A c \in Customers : conv'[c].frozen = conv[c].frozen
  PROVE  IInv'
<1> DEFINE k == item[t]
           new == Moved(case[k], "decided")
<1>1. /\ TInv /\ k \in CaseIds /\ case[k] # NoCase
      /\ case[k] \in Case /\ case[k].status \in Unanswered
  BY DecidedView DEF IInv
<1>2. case' = [case EXCEPT ![k] = new] /\ UNCHANGED <<item, gone>> /\ case \in Cases
  BY <1>1, AsItIs DEF RecordDecision
<1>3. new \in Case /\ new.of = case[k].of /\ new.about = case[k].about /\ new.status = "decided"
  BY <1>1, CaseMoved
<1>4. pc'[t] = "relaying" /\ \A s \in Tasks \ {t} : pc'[s] = pc[s]
  BY <1>1, Goes DEF RecordDecision
<1> HIDE DEF new, k
<1>5. Alike
  BY <1>1, <1>2, <1>3, SentinelAssumption DEF Alike, Cases, Unanswered
<1>6. Current(t)'
  BY <1>1, <1>2, <1>3, <1>4 DEF Current, Cases, k
<1> QED
  BY <1>2, <1>4, <1>5, <1>6, QuestionsKept DEF Deciding

LEMMA DecideOne ==
  ASSUME IInv, TInv', NEW t \in Tasks,
         JustRecord(t) \/ Decline(t) \/ \E reachable \in BOOLEAN : Approve(t, reachable)
  PROVE  IInv'
<1> DEFINE r == Asked(t)
           c == OwnerOf[r]
<1>1. Deciding(t) /\ RecordDecision(t) /\ UNCHANGED gone
  BY DEF JustRecord, Decline, Approve, Decides, RecordDecision
<1>2. /\ request \in [Requests -> Request] /\ conv \in [Customers -> Conversation]
      /\ gone \subseteq Requests /\ TInv
  BY DEF IInv, TInv, TypeOK
<1>3. CASE UNCHANGED <<request, conv>>
  <2>1. Steady /\ ConfirmedAsAsked'
    BY <1>3 DEF Steady, IInv, GoneIsCancelled, ConfirmedAsAsked
  <2> QED
    BY <1>1, <1>3, <2>1, RecordsOne
<1>4. ASSUME AboutRequest(t)
      PROVE  r \in Requests /\ r \notin gone /\ c \in Customers
  BY <1>1, <1>4, DecidedView, RequestsAssumption
<1>5. CASE Decline(t)
  <2>1. r \in Requests /\ r \notin gone /\ c \in Customers
    BY <1>4, <1>5 DEF Decline, Decides
  <2>2. request' = [request EXCEPT ![r] = Settled("cancelled", "released")] /\ UNCHANGED conv
    BY <1>5 DEF Decline
  <2> HIDE DEF r, c
  <2>3. Steady
    BY <1>2, <2>1, <2>2 DEF Steady, IInv, GoneIsCancelled, Settled
  <2>4. ConfirmedAsAsked'
    BY <1>2, <2>1, <2>2 DEF IInv, ConfirmedAsAsked, Settled
  <2> QED
    BY <1>1, <2>2, <2>3, <2>4, RecordsOne
<1>6. ASSUME NEW reachable \in BOOLEAN, Approve(t, reachable),
             request' = [request EXCEPT ![r] = Settled("confirmed", "confirmed")],
             conv' = [conv EXCEPT ![c] = Tagged(conv[c], "booked")]
      PROVE  IInv'
  <2>1. r \in Requests /\ r \notin gone /\ c \in Customers
    BY <1>4, <1>6 DEF Approve, Decides
  <2>2. Proper(conv[c])
    BY <1>2, <2>1 DEF TInv, Paged, Proper
  <2>3. /\ Tagged(conv[c], "booked").frozen = conv[c].frozen
        /\ Tagged(conv[c], "booked").sales = "booked"
    BY <2>2, TaggedIs
  <2>4. \A d \in Customers : /\ conv'[d].frozen = conv[d].frozen
                             /\ conv'[d].sales = IF d = c THEN "booked" ELSE conv[d].sales
    BY <1>2, <1>6, <2>1, <2>3
  <2>5. \A q \in Requests : request'[q] = IF q = r THEN Settled("confirmed", "confirmed") ELSE request[q]
    BY <1>2, <1>6, <2>1
  <2>6. OwnerOf[r] = c /\ \A q \in Requests : OwnerOf[q] \in Customers
    BY RequestsAssumption
  <2> HIDE DEF r, c
  <2>7. Steady
    BY <2>1, <2>5 DEF Steady, IInv, GoneIsCancelled, Settled
  <2>8. ConfirmedAsAsked'
    BY <2>1, <2>4, <2>5, <2>6 DEF IInv, ConfirmedAsAsked, Settled
  <2> QED
    BY <1>1, <2>4, <2>7, <2>8, RecordsOne
<1>7. ASSUME NEW reachable \in BOOLEAN, Approve(t, reachable) PROVE IInv'
  BY <1>3, <1>6, <1>7 DEF Approve
<1>8. CASE JustRecord(t)
  BY <1>3, <1>8 DEF JustRecord
<1> QED
  BY <1>5, <1>7, <1>8

\* The answer that is told was the one question of its conversation.
LEMMA TellOne ==
  ASSUME IInv, TInv', NEW t \in Tasks, NEW worded, NEW sent, Tell(t, worded, sent) PROVE IInv'
<1> DEFINE k == item[t]
           c == case[k].of
           new == Moved(case[k], "relayed")
<1>1. /\ TInv /\ pc[t] = "telling" /\ k \in CaseIds /\ case[k] # NoCase
      /\ case[k].status = "decided"
  BY DEF Tell, IInv, TInv, Equipped, Current
<1>2. case \in Cases /\ case[k] \in Case /\ c \in Customers
  BY <1>1, AsItIs, CaseTyped
<1>3. /\ case' = [case EXCEPT ![k] = new] /\ UNCHANGED <<request, gone>> /\ End(t)
      /\ conv' = [conv EXCEPT ![c].frozen = FALSE, ![c].reason = "none", ![c].figure = FALSE]
  BY DEF Tell
<1>4. /\ new \in Case /\ new.of = case[k].of /\ new.about = case[k].about
      /\ new.status = "relayed"
  BY <1>2, CaseMoved
<1>5. pc'[t] = "idle" /\ \A s \in Tasks \ {t} : pc'[s] = pc[s]
  BY <1>1, <1>3, Ends DEF Apart
<1>6. conv \in [Customers -> Conversation]
  BY <1>1 DEF TInv, TypeOK
<1> HIDE DEF new, k
<1>7. \A d \in Customers : /\ conv'[d].frozen = (IF d = c THEN FALSE ELSE conv[d].frozen)
                           /\ conv'[d].sales = conv[d].sales
  <2> HIDE DEF c
  <2> QED
    BY <1>2, <1>3, <1>6 DEF Conversation
<1>8. case' \in Cases /\ case'[k] = new /\ new # NoCase
      /\ \A j \in CaseIds \ {k} : case'[j] = case[j]
  BY <1>1, <1>2, <1>3, <1>4, SentinelAssumption DEF Cases
<1>9. \A d \in Customers : Unsettled(d)' = Unsettled(d) \ {k}
  BY <1>1, <1>4, <1>8 DEF Unsettled, CasesOf
<1>10. k \in Unsettled(c)
  BY <1>1, <1>2 DEF Unsettled, CasesOf
<1>11. Numbered' /\ OneQuestion'
  BY <1>1, <1>8, <1>9 DEF IInv, Numbered, OneQuestion
<1>12. Held'
  <2>1. \A s \in Tasks : pc[s] # "asking"
    BY <1>1, Sole
  <2>2. ASSUME NEW d \in Customers, conv'[d].frozen PROVE Unsettled(d)' # {}
    <3>1. d # c /\ conv[d].frozen
      BY <1>7, <2>2
    <3>2. PICK j \in Unsettled(d) : TRUE
      BY <2>1, <3>1 DEF IInv, Held
    <3>3. j # k
      BY <1>10, <3>1, <3>2 DEF Unsettled, CasesOf
    <3> QED
      BY <1>9, <3>2, <3>3
  <2> QED
    BY <2>2 DEF Held
<1>13. OpenQuestions'
  <2> SUFFICES ASSUME NEW j \in CaseIds, case'[j] # NoCase
               PROVE  /\ case'[j].about \in Requests =>
                            /\ case'[j].of = OwnerOf[case'[j].about]
                            /\ request'[case'[j].about].status # "none"
                      /\ case'[j].status \in Unanswered => Askable(case[j])'
    BY DEF OpenQuestions, Askable
  <2>1. CASE j = k
    BY <1>1, <1>3, <1>4, <1>8, <2>1 DEF IInv, OpenQuestions, Unanswered
  <2>2. CASE j # k
    BY <1>3, <1>8, <2>2 DEF IInv, OpenQuestions, Askable
  <2> QED
    BY <2>1, <2>2
<1>14. GoneIsCancelled' /\ ConfirmedAsAsked'
  BY <1>3, <1>7, RequestsAssumption DEF IInv, GoneIsCancelled, ConfirmedAsAsked
<1>15. Current(t)'
  BY <1>5 DEF Current
<1> QED
  BY <1>1, <1>5, <1>11, <1>12, <1>13, <1>14, <1>15, OneStep DEF Data

\* Time passes between the worker's tasks.
LEMMA TimeOne ==
  ASSUME Serial, IInv, TInv', Time PROVE IInv'
<1>1. Idle /\ UNCHANGED <<task, gone>> /\ TInv
  BY DEF Time, Ripen, Elapse, WindowShuts, IInv
<1>2. /\ request \in [Requests -> Request] /\ conv \in [Customers -> Conversation]
      /\ case \in Cases
  BY <1>1, AsItIs DEF TInv, TypeOK
<1>3. /\ Alike /\ Steady
      /\ \A r \in Requests : /\ request'[r].status = request[r].status
                              /\ request'[r].last = request[r].last
                              /\ request'[r].change = request[r].change
      /\ \A c \in Customers : /\ conv'[c].frozen = conv[c].frozen
                               /\ conv'[c].sales = conv[c].sales
  <2>1. ASSUME NEW r \in Requests, Ripen(r)
        PROVE  UNCHANGED <<case, conv>> /\ \A q \in Requests :
                  /\ request'[q].status = request[q].status
                  /\ request'[q].last = request[q].last
                  /\ request'[q].change = request[q].change
    BY <1>2, <2>1 DEF Ripen, Request
  <2>2. ASSUME NEW k \in CaseIds, Elapse(k) PROVE UNCHANGED <<request, conv>> /\ Alike
    <3>1. case[k] \in Case /\ case[k] # NoCase
      BY <1>2, <2>2, CaseTyped DEF Elapse
    <3> DEFINE new == [case[k] EXCEPT !.clock = IF @ = "asked" THEN "reminder" ELSE "timeout"]
    <3>2. case' = [case EXCEPT ![k] = new] /\ UNCHANGED <<request, conv>>
      BY <1>2, <2>2, <3>1 DEF Elapse, Case, Cases
    <3>3. /\ new \in Case /\ new.of = case[k].of /\ new.about = case[k].about
          /\ new.status = case[k].status
      BY <3>1 DEF Case
    <3> HIDE DEF new
    <3> QED
      BY <1>2, <3>1, <3>2, <3>3, SentinelAssumption DEF Alike, Cases
  <2>3. ASSUME NEW c \in Customers, WindowShuts(c)
        PROVE  UNCHANGED <<request, case>> /\ \A d \in Customers :
                  conv'[d].frozen = conv[d].frozen /\ conv'[d].sales = conv[d].sales
    BY <1>2, <2>3 DEF WindowShuts, Conversation
  <2>4. UNCHANGED case => Alike
    BY DEF Alike
  <2>5. (\A r \in Requests : request'[r].status = request[r].status /\ request'[r].last = request[r].last)
          => Steady
    BY <1>1 DEF Steady, IInv, GoneIsCancelled
  <2> QED
    BY <2>1, <2>2, <2>3, <2>4, <2>5 DEF Time
<1>4. Numbered' /\ OneQuestion' /\ \A c \in Customers : Unsettled(c)' = Unsettled(c)
  BY <1>3, AlikeKeeps DEF IInv
<1>5. OpenQuestions' /\ GoneIsCancelled'
  BY <1>1, <1>3, SteadyKeeps DEF IInv, TInv, TypeOK
<1>6. Held'
  BY <1>1, <1>3, <1>4 DEF IInv, Held, task, Idle
<1>7. ConfirmedAsAsked'
  BY <1>3, RequestsAssumption DEF IInv, ConfirmedAsAsked
<1>8. OneTask' /\ \A t \in Tasks : Current(t)'
  BY <1>1 DEF OneTask, Current, task, Idle
<1> QED
  BY <1>4, <1>5, <1>6, <1>7, <1>8 DEF IInv

-----------------------------------------------------------------------------
(* One worker: the customer's turn *)

Gapless(cs) == \A j, k \in CaseIds : j < k /\ cs[k] # NoCase => cs[j] # NoCase

\* Cases as a turn of customer c may leave them: nothing of hers is put to the owner yet,
\* and nobody else's is touched.
TurnCases(c, cs) ==
    /\ cs \in Cases /\ AskedRight(cs) /\ Extends(case, cs) /\ Gapless(cs)
    /\ \A k \in CaseIds :
          /\ case[k] # NoCase /\ case[k].of # c => cs[k] = case[k]
          /\ cs[k] # NoCase /\ cs[k].of # c => cs[k] = case[k]
          /\ cs[k] # NoCase /\ cs[k].of = c =>
                cs[k].status \notin {"awaiting", "timed_out", "decided"}
          /\ cs[k] # NoCase /\ cs[k].about \in Requests =>
                /\ cs[k].of = OwnerOf[cs[k].about]
                /\ request'[cs[k].about].status # "none"

\* Requests as a turn of customer c may leave them.
TurnRequests(c) ==
    /\ \A q \in Requests :
          /\ request'[q] = request[q] \/ OwnerOf[q] = c
          /\ request[q].status # "none" => request'[q].status # "none"
          /\ request'[q].status = "confirmed" => request[q].status = "confirmed" /\ ~request'[q].change
          /\ request'[q].last = "confirmed" => request[q].last = "confirmed"
          /\ q \in gone' => request'[q].status = "cancelled"
    /\ \A q \in gone' : q \in gone \/ OwnerOf[q] = c
    /\ gone' \subseteq Requests

AskableNext(k) == LET r == k.about IN
    r \in Requests => request'[r].last # "withdrawn" /\ r \notin gone'

\* The newest case is the one that was raised last.
LEMMA RaisedIsNewest ==
  ASSUME NEW cs \in Cases, AskedRight(cs), Gapless(cs), Spare(cs) # {}, NEW c \in Customers,
         NEW reason \in Reasons, NEW r \in Requests \cup {NoRequest},
         reason = "booking_hold" <=> r \in Requests
  PROVE  LET ds == Raised(cs, c, reason, r)
             new == [of |-> c, about |-> r, reason |-> reason, status |-> "open",
                     clock |-> "unasked", reminded |-> FALSE]
         IN /\ Gapless(ds) /\ ds[Newest(CasesOf(ds, c))] = new
            /\ \A j \in CaseIds : /\ cs[j] # NoCase => ds[j] = cs[j]
                                  /\ ds[j] # NoCase => ds[j] = cs[j] \/ ds[j] = new
<1> DEFINE ds == Raised(cs, c, reason, r)
           new == [of |-> c, about |-> r, reason |-> reason, status |-> "open",
                   clock |-> "unasked", reminded |-> FALSE]
<1>1. PICK k \in Spare(cs) : (\A j \in Spare(cs) : k <= j) /\ ds = [cs EXCEPT ![k] = new]
  BY RaisedIs
<1>2. ds \in Cases /\ CasesOf(ds, c) # {}
  BY RaisedIs
<1>3. k \in CaseIds /\ cs[k] = NoCase
  BY <1>1 DEF Spare
<1>4. new # NoCase /\ new.of = c
  <2>1. new \in Case
    BY DEF Case
  <2> QED
    BY <2>1, SentinelAssumption
<1>5. ds[k] = new /\ \A j \in CaseIds \ {k} : ds[j] = cs[j]
  BY <1>1, <1>3 DEF Cases
<1> HIDE DEF ds, new
<1>6. CaseIds \subseteq Nat
  BY RequestsAssumption DEF CaseIds
<1>7. \A j \in CaseIds : cs[j] # NoCase => j < k
  BY <1>3, <1>6 DEF Gapless
<1>8. \A j \in CaseIds : j < k => cs[j] # NoCase
  BY <1>1, <1>3, <1>6 DEF Spare
<1>9. Gapless(ds)
  <2> SUFFICES ASSUME NEW i \in CaseIds, NEW j \in CaseIds, i < j, ds[j] # NoCase
               PROVE  ds[i] # NoCase
    BY DEF Gapless
  <2>1. j <= k
    BY <1>3, <1>5, <1>6, <1>7
  <2> QED
    BY <1>3, <1>5, <1>6, <1>8, <2>1
<1>10. Newest(CasesOf(ds, c)) = k
  <2> DEFINE n == Newest(CasesOf(ds, c))
  <2>1. n \in CasesOf(ds, c) /\ \A j \in CasesOf(ds, c) : j <= n
    BY <1>2, OfThese, NewestIs
  <2> HIDE DEF n
  <2>2. k \in CasesOf(ds, c)
    BY <1>3, <1>4, <1>5 DEF CasesOf
  <2>3. n \in CaseIds /\ ds[n] # NoCase /\ k <= n
    BY <2>1, <2>2 DEF CasesOf
  <2>4. n = k
    BY <1>3, <1>5, <1>6, <1>7, <2>3
  <2> QED
    BY <2>4 DEF n
<1>11. \A j \in CaseIds : /\ cs[j] # NoCase => ds[j] = cs[j]
                          /\ ds[j] # NoCase => ds[j] = cs[j] \/ ds[j] = new
  BY <1>3, <1>5
<1> QED
  BY <1>5, <1>9, <1>10, <1>11 DEF ds, new

LEMMA RaisedTurnCases ==
  ASSUME NEW c \in Customers, NEW cs, TurnCases(c, cs), Spare(cs) # {},
         NEW reason \in Reasons, NEW r \in Requests \cup {NoRequest},
         reason = "booking_hold" <=> r \in Requests,
         r \in Requests => OwnerOf[r] = c /\ request'[r].status # "none"
  PROVE  LET ds == Raised(cs, c, reason, r)
         IN /\ TurnCases(c, ds)
            /\ ds[Newest(CasesOf(ds, c))].about = r
<1> DEFINE ds == Raised(cs, c, reason, r)
           new == [of |-> c, about |-> r, reason |-> reason, status |-> "open",
                   clock |-> "unasked", reminded |-> FALSE]
<1>1. cs \in Cases /\ AskedRight(cs) /\ Gapless(cs) /\ Extends(case, cs)
  BY DEF TurnCases
<1>2. /\ Gapless(ds) /\ ds[Newest(CasesOf(ds, c))] = new
      /\ \A j \in CaseIds : /\ cs[j] # NoCase => ds[j] = cs[j]
                            /\ ds[j] # NoCase => ds[j] = cs[j] \/ ds[j] = new
  BY <1>1, RaisedIsNewest
<1>3. ds \in Cases /\ AskedRight(ds) /\ Extends(cs, ds)
  BY <1>1, RaisedIs
<1>4. new.of = c /\ new.about = r /\ new.status = "open"
  OBVIOUS
<1> HIDE DEF ds, new
<1>5. Extends(case, ds)
  BY <1>1, <1>3, ExtendsFurther
<1>6. ASSUME NEW k \in CaseIds
      PROVE  /\ case[k] # NoCase /\ case[k].of # c => ds[k] = case[k]
             /\ ds[k] # NoCase /\ ds[k].of # c => ds[k] = case[k]
             /\ ds[k] # NoCase /\ ds[k].of = c =>
                   ds[k].status \notin {"awaiting", "timed_out", "decided"}
             /\ ds[k] # NoCase /\ ds[k].about \in Requests =>
                   /\ ds[k].of = OwnerOf[ds[k].about]
                   /\ request'[ds[k].about].status # "none"
  <2>1. CASE cs[k] # NoCase
    <3>1. ds[k] = cs[k]
      BY <1>2, <2>1
    <3> QED
      BY <2>1, <3>1 DEF TurnCases
  <2>2. CASE cs[k] = NoCase
    <3>1. case[k] = NoCase
      BY <2>2, <1>1 DEF Extends
    <3>2. ds[k] = NoCase \/ ds[k] = new
      BY <1>2, <2>2
    <3> QED
      BY <1>4, <3>1, <3>2
  <2> QED
    BY <2>1, <2>2
<1>7. TurnCases(c, ds)
  BY <1>2, <1>3, <1>5, <1>6 DEF TurnCases
<1> QED
  BY <1>2, <1>4, <1>7 DEF ds

\* What the turn of the one worker sees is what is committed, and the conversation is
\* not held up.
LEMMA TurnStarts ==
  ASSUME IInv, NEW t \in Tasks, Turning(t)
  PROVE  /\ TInv /\ of[t] \in Customers /\ view[t] = Snapshot
         /\ Unsettled(of[t]) = {} /\ ~conv[of[t]].frozen
         /\ Proper(view[t].conv[of[t]]) /\ ~view[t].conv[of[t]].frozen
         /\ case \in Cases /\ AskedRight(case) /\ Gapless(case)
<1>1. TInv /\ of[t] \in Customers /\ Proper(view[t].conv[of[t]])
  BY TurnView DEF IInv
<1>2. view[t] = Snapshot /\ Unsettled(of[t]) = {}
  BY DEF Turning, IInv, Current
<1>3. \A s \in Tasks : pc[s] # "asking"
  BY Sole DEF Turning
<1>4. ~conv[of[t]].frozen
  BY <1>1, <1>2, <1>3 DEF IInv, Held
<1> QED
  BY <1>1, <1>2, <1>4, AsItIs DEF Snapshot, IInv, Numbered, Gapless

LEMMA TurnSettles ==
  ASSUME IInv, TInv', NEW t \in Tasks, Turning(t),
         NEW r, NEW q, NEW cs, NEW cv, Write(t, r, q, cs, cv), UNCHANGED of,
         TurnCases(of[t], cs), TurnRequests(of[t]), cv \in Conversation,
         conv[of[t]].sales = "booked" => cv.sales = "booked",
         NEW label \in {"asking", "overdue"}, Goto(t, label),
         label = "asking" => AskableNext(cs[Newest(CasesOf(cs, of[t]))]),
         label = "overdue" => ~cv.frozen
  PROVE  IInv'
<1> DEFINE c == of[t]
           wrote == [cv EXCEPT !.window = TRUE,
                               !.sales = IF @ = view[t].conv[c].sales THEN conv[c].sales ELSE @]
<1>1. /\ TInv /\ c \in Customers /\ Unsettled(c) = {} /\ ~conv[c].frozen
  BY TurnStarts
<1>2. case' = cs /\ conv' = [conv EXCEPT ![c] = wrote] /\ conv \in [Customers -> Conversation]
  BY <1>1 DEF Write, TInv, TypeOK
<1>3. wrote.frozen = cv.frozen /\ (conv[c].sales = "booked" => wrote.sales = "booked")
  BY DEF Conversation
<1>4. pc'[t] = label /\ \A s \in Tasks \ {t} : pc'[s] = pc[s]
  BY <1>1, Goes
<1>5. pc[t] = "turning" /\ \A s \in Tasks \ {t} : pc[s] = "idle"
  BY Sole DEF Turning
<1> HIDE DEF wrote
<1>6. \A d \in Customers : Unsettled(d)' = Unsettled(d)
  <2> TAKE d \in Customers
  <2>1. CASE d = c
    BY <1>1, <1>2, <2>1 DEF Unsettled, CasesOf, TurnCases
  <2>2. CASE d # c
    BY <1>2, <2>2 DEF Unsettled, CasesOf, TurnCases
  <2> QED
    BY <2>1, <2>2
<1>7. Numbered' /\ OneQuestion'
  BY <1>2, <1>6 DEF IInv, Numbered, OneQuestion, TurnCases, Gapless
<1>8. \A d \in Customers : d # c => conv'[d] = conv[d]
  BY <1>2
<1>9. conv'[c].frozen = cv.frozen /\ (conv[c].sales = "booked" => conv'[c].sales = "booked")
  BY <1>1, <1>2, <1>3
<1>10. Held'
  <2> SUFFICES ASSUME NEW d \in Customers, conv'[d].frozen
               PROVE  Unsettled(d)' # {} \/ \E s \in Tasks : pc'[s] = "asking" /\ of'[s] = d
    BY DEF Held
  <2>1. CASE d = c
    BY <1>4, <1>9, <2>1
  <2>2. CASE d # c
    BY <1>5, <1>6, <1>8, <2>2 DEF IInv, Held
  <2> QED
    BY <2>1, <2>2
<1>11. OpenQuestions'
  <2> SUFFICES ASSUME NEW k \in CaseIds, case'[k] # NoCase
               PROVE  /\ case'[k].about \in Requests =>
                            /\ case'[k].of = OwnerOf[case'[k].about]
                            /\ request'[case'[k].about].status # "none"
                      /\ case'[k].status \in Unanswered => AskableNext(case'[k])
    BY DEF OpenQuestions, Askable, AskableNext
  <2>1. case'[k].about \in Requests => /\ case'[k].of = OwnerOf[case'[k].about]
                                       /\ request'[case'[k].about].status # "none"
    BY <1>2 DEF TurnCases
  <2>2. ASSUME case'[k].status \in Unanswered, case'[k].about \in Requests
        PROVE  request'[case'[k].about].last # "withdrawn" /\ case'[k].about \notin gone'
    <3>1. case'[k].of # c /\ case'[k] = case[k]
      BY <1>2, <2>2 DEF TurnCases, Unanswered
    <3>2. request[case[k].about].last # "withdrawn" /\ case[k].about \notin gone
      BY <2>2, <3>1 DEF IInv, OpenQuestions, Askable
    <3>3. OwnerOf[case[k].about] # c
      BY <2>1, <2>2, <3>1
    <3> QED
      BY <2>2, <3>1, <3>2, <3>3 DEF TurnRequests
  <2> QED
    BY <2>1, <2>2 DEF AskableNext
<1>12. GoneIsCancelled'
  BY DEF TurnRequests, GoneIsCancelled
<1>13. ConfirmedAsAsked'
  <2> SUFFICES ASSUME NEW x \in Requests
               PROVE  /\ request'[x].status = "confirmed" => ~request'[x].change
                      /\ request'[x].last = "confirmed" => conv'[OwnerOf[x]].sales = "booked"
    BY DEF ConfirmedAsAsked
  <2>1. OwnerOf[x] \in Customers
    BY RequestsAssumption
  <2> QED
    BY <1>8, <1>9, <2>1 DEF TurnRequests, IInv, ConfirmedAsAsked
<1>14. Current(t)'
  <2>1. CASE label = "overdue"
    BY <1>4, <2>1 DEF Current
  <2>2. CASE label = "asking"
    <3>1. Unsettled(of[t])' = {}
      BY <1>1, <1>6 DEF Unsettled, CasesOf
    <3>2. Askable(case[Newest(CasesOf(case, of[t]))])'
      BY <1>2, <2>2 DEF Askable, AskableNext
    <3> QED
      BY <1>4, <2>2, <3>1, <3>2 DEF Current
  <2> QED
    BY <2>1, <2>2
<1> QED
  BY <1>4, <1>5, <1>7, <1>10, <1>11, <1>12, <1>13, <1>14, OneStep DEF Data

LEMMA EndTurnOne ==
  ASSUME IInv, TInv', NEW t \in Tasks, Turning(t),
         NEW r, NEW q, NEW cs, NEW cv, EndTurn(t, r, q, cs, cv),
         TurnCases(of[t], cs), TurnRequests(of[t]), Proper(cv),
         conv[of[t]].sales = "booked" => cv.sales = "booked",
         cv.frozen => CasesOf(cs, of[t]) # {} /\ AskableNext(cs[Newest(CasesOf(cs, of[t]))])
  PROVE  IInv'
<1> DEFINE c == of[t]
           why == Classified(cv, "figure")
<1>1. TInv /\ c \in Customers
  BY TurnStarts
<1>2. PICK g \in Guarded(cs, cv, c) :
        /\ Write(t, r, q, g[1], g[2])
        /\ IF g[2].frozen \/ g[1] # cs THEN Goto(t, "asking") ELSE Goto(t, "overdue")
  BY DEF EndTurn
<1>3. UNCHANGED of
  BY DEF EndTurn
<1>4. /\ Proper(g[2]) /\ (cv.sales = "booked" => g[2].sales = "booked")
      /\ g # <<cs, cv>> =>
               /\ Spare(cs) # {} /\ why \in Reasons \ {"booking_hold"}
               /\ g[1] = Raised(cs, c, why, NoRequest)
               /\ g[2] = Escalated(cv, "figure")
  BY <1>1, GuardedIs DEF TurnCases
<1> HIDE DEF c, why
<1>5. CASE g = <<cs, cv>>
  <2>1. g[1] = cs /\ g[2] = cv
    BY <1>5
  <2>2. CASE cv.frozen
    BY <1>2, <1>3, <2>1, <2>2, TurnSettles DEF c, Proper
  <2>3. CASE ~cv.frozen
    BY <1>2, <1>3, <2>1, <2>3, TurnSettles DEF c, Proper
  <2> QED
    BY <2>2, <2>3
<1>6. CASE g # <<cs, cv>>
  <2>1. TurnCases(c, g[1]) /\ g[1][Newest(CasesOf(g[1], c))].about = NoRequest
    BY <1>1, <1>4, <1>6, RaisedTurnCases, RequestsAssumption DEF c
  <2>2. AskableNext(g[1][Newest(CasesOf(g[1], c))])
    BY <2>1, RequestsAssumption DEF AskableNext
  <2>3. g[1] # cs
    <3>1. cs \in Cases /\ AskedRight(cs)
      BY DEF TurnCases
    <3> QED
      BY <1>1, <1>4, <1>6, <3>1, RaisedIs, RequestsAssumption
  <2>4. Goto(t, "asking")
    BY <1>2, <2>3
  <2> QED
    BY <1>2, <1>3, <1>4, <2>1, <2>2, <2>4, TurnSettles DEF c, Proper
<1> QED
  BY <1>5, <1>6

\* The cases as they are, when no request changes but to something.
LEMMA SameTurnCases ==
  ASSUME IInv, NEW t \in Tasks, Turning(t), TurnRequests(of[t])
  PROVE  TurnCases(of[t], case)
<1>1. /\ of[t] \in Customers /\ Unsettled(of[t]) = {}
      /\ case \in Cases /\ AskedRight(case) /\ Gapless(case) /\ Extends(case, case)
  BY TurnStarts, AsItIs
<1>2. ASSUME NEW k \in CaseIds, case[k] # NoCase, case[k].of = of[t]
      PROVE  case[k].status \notin {"awaiting", "timed_out", "decided"}
  BY <1>1, <1>2 DEF Unsettled, CasesOf
<1>3. ASSUME NEW k \in CaseIds, case[k] # NoCase, case[k].about \in Requests
      PROVE  case[k].of = OwnerOf[case[k].about] /\ request'[case[k].about].status # "none"
  BY <1>3 DEF IInv, OpenQuestions, TurnRequests
<1> QED
  BY <1>1, <1>2, <1>3 DEF TurnCases

LEMMA NoRequestTurn ==
  ASSUME IInv, UNCHANGED <<request, gone>>, NEW c PROVE TurnRequests(c)
  BY DEF TurnRequests, IInv, GoneIsCancelled, ConfirmedAsAsked, TInv, TypeOK

LEMMA TalksOne ==
  ASSUME IInv, TInv', NEW t \in Tasks,
         \/ UrgentTurn(t) \/ GuidanceTurn(t) \/ TalkTurn(t) \/ Question(t) \/ Advise(t)
  PROVE  IInv'
<1> DEFINE c == of[t]
           cv == view[t].conv[c]
<1>1. Turning(t)
  BY DEF UrgentTurn, GuidanceTurn, TalkTurn, Question, Advise, Business
<1>2. /\ c \in Customers /\ Proper(cv) /\ ~cv.frozen /\ cv.sales = conv[c].sales
  BY <1>1, TurnStarts DEF Snapshot
<1>3. UNCHANGED <<request, gone, of>>
  BY DEF UrgentTurn, GuidanceTurn, TalkTurn, Question, Advise, EndTurn, Write
<1>4. TurnRequests(c) /\ TurnCases(c, case)
  BY <1>1, <1>3, NoRequestTurn, SameTurnCases
<1>5. ASSUME NEW reason \in Reasons \ {"booking_hold"}, Spare(case) # {}
      PROVE  LET ds == Raised(case, c, reason, NoRequest)
             IN /\ TurnCases(c, ds) /\ CasesOf(ds, c) # {}
                /\ AskableNext(ds[Newest(CasesOf(ds, c))])
  <2> DEFINE ds == Raised(case, c, reason, NoRequest)
  <2>1. TurnCases(c, ds) /\ ds[Newest(CasesOf(ds, c))].about = NoRequest
    BY <1>2, <1>4, <1>5, RaisedTurnCases, RequestsAssumption
  <2>2. CasesOf(ds, c) # {}
    BY <1>2, <1>5, AsItIs, RaisedIs, RequestsAssumption DEF IInv
  <2> QED
    BY <2>1, <2>2, RequestsAssumption DEF AskableNext
<1>6. CASE UrgentTurn(t)
  <2>1. /\ Proper(Escalated(cv, "urgent"))
        /\ cv.sales = "booked" => Escalated(cv, "urgent").sales = "booked"
    BY <1>2, EscalatedIs DEF Reasons
  <2>2. /\ Spare(case) # {} /\ Goto(t, "asking")
        /\ Write(t, NoRequest, NewRequest, Raised(case, c, "urgent", NoRequest), Escalated(cv, "urgent"))
    BY <1>6 DEF UrgentTurn
  <2> DEFINE ds == Raised(case, c, "urgent", NoRequest)
  <2>3. TurnCases(c, ds) /\ AskableNext(ds[Newest(CasesOf(ds, c))])
    BY <1>5, <2>2 DEF Reasons
  <2> HIDE DEF cv, ds
  <2> QED
    BY <1>1, <1>2, <1>3, <1>4, <2>1, <2>2, <2>3, TurnSettles DEF Proper, ds
<1>7. CASE GuidanceTurn(t)
  BY <1>2, <1>7 DEF GuidanceTurn
<1>8. CASE TalkTurn(t)
  <2>1. EndTurn(t, NoRequest, NewRequest, case, cv)
    BY <1>8 DEF TalkTurn
  <2> HIDE DEF cv
  <2> QED
    BY <1>1, <1>2, <1>4, <2>1, EndTurnOne
<1>9. CASE Question(t)
  <2> DEFINE why == Classified(cv, "question")
             ds == Raised(case, c, why, NoRequest)
  <2>1. /\ Proper(Escalated(cv, "question")) /\ why \in {"urgent", "question"}
        /\ cv.sales = "booked" => Escalated(cv, "question").sales = "booked"
    BY <1>2, EscalatedIs DEF Reasons
  <2>2. Spare(case) # {} /\ EndTurn(t, NoRequest, NewRequest, ds, Escalated(cv, "question"))
    BY <1>9 DEF Question
  <2>3. TurnCases(c, ds) /\ CasesOf(ds, c) # {} /\ AskableNext(ds[Newest(CasesOf(ds, c))])
    BY <1>5, <2>1, <2>2 DEF Reasons
  <2> HIDE DEF cv, ds
  <2> QED
    BY <1>1, <1>2, <1>4, <2>1, <2>2, <2>3, EndTurnOne
<1>10. CASE Advise(t)
  <2> DEFINE ds == Raised(case, c, "advisory", NoRequest)
  <2>1. /\ Spare(case) # {} /\ Write(t, NoRequest, NewRequest, ds, cv)
        /\ Goto(t, "asking") \/ Goto(t, "overdue")
    BY <1>10 DEF Advise
  <2>2. TurnCases(c, ds) /\ AskableNext(ds[Newest(CasesOf(ds, c))])
    BY <1>5, <2>1 DEF Reasons
  <2> HIDE DEF cv, ds
  <2> QED
    BY <1>1, <1>2, <1>3, <1>4, <2>1, <2>2, TurnSettles DEF Proper
<1> QED
  BY <1>6, <1>7, <1>8, <1>9, <1>10

LEMMA TakeOne ==
  ASSUME IInv, TInv', NEW t \in Tasks, NEW r \in Requests, TakeRequest(t, r) PROVE IInv'
<1> DEFINE c == of[t]
           cv == view[t].conv[c]
           why == Classified(cv, "booking_hold")
           q == [NewRequest EXCEPT !.status = "held"]
           cs == Raised(case, c, why, r)
<1>1. Turning(t) /\ OwnerOf[r] = c /\ request[r].status = "none" /\ Spare(case) # {}
  BY DEF TakeRequest, Business
<1>2. /\ c \in Customers /\ Proper(cv) /\ ~cv.frozen /\ cv.sales = conv[c].sales
  BY <1>1, TurnStarts DEF Snapshot
<1>3. /\ EndTurn(t, r, q, cs, Escalated(cv, "booking_hold")) /\ UNCHANGED gone
  BY DEF TakeRequest
<1>4. /\ Proper(Escalated(cv, "booking_hold")) /\ why = "booking_hold"
      /\ cv.sales = "booked" => Escalated(cv, "booking_hold").sales = "booked"
  <2>1. cv.reason # "urgent"
    BY <1>2 DEF Proper
  <2> QED
    BY <1>2, <2>1, EscalatedIs DEF Reasons, Classified
<1>5. request \in [Requests -> Request] /\ gone \subseteq Requests
  BY DEF IInv, TInv, TypeOK
<1>6. request' = [request EXCEPT ![r] = q]
  BY <1>3, RequestsAssumption DEF EndTurn, Write
<1>7. r \notin gone
  BY <1>1 DEF IInv, GoneIsCancelled
<1>8. q.status = "held" /\ q.last = "none"
  BY DEF NewRequest
<1> HIDE DEF q, cs
<1>9. TurnRequests(c)
  BY <1>1, <1>3, <1>5, <1>6, <1>7, <1>8 DEF TurnRequests, IInv, GoneIsCancelled, ConfirmedAsAsked
<1>10. TurnCases(c, case)
  BY <1>1, <1>9, SameTurnCases
<1>11. TurnCases(c, cs) /\ cs[Newest(CasesOf(cs, c))].about = r
  BY <1>1, <1>2, <1>4, <1>5, <1>6, <1>8, <1>10, RaisedTurnCases DEF Reasons, cs
<1>12. CasesOf(cs, c) # {}
  BY <1>1, <1>2, <1>4, AsItIs, RaisedIs DEF IInv, Reasons, cs
<1>13. AskableNext(cs[Newest(CasesOf(cs, c))])
  BY <1>3, <1>5, <1>6, <1>7, <1>8, <1>11 DEF AskableNext
<1> HIDE DEF cv
<1> QED
  BY <1>1, <1>2, <1>3, <1>4, <1>9, <1>11, <1>12, <1>13, EndTurnOne

LEMMA AskChangeOne ==
  ASSUME IInv, TInv', NEW t \in Tasks, NEW r \in Requests, AskChange(t, r) PROVE IInv'
<1> DEFINE c == of[t]
           cv == view[t].conv[c]
           q == [request[r] EXCEPT !.last = view[t].request[r].last, !.change = TRUE]
<1>1. Turning(t) /\ OwnerOf[r] = c /\ Awaiting(view[t].request[r])
  BY DEF AskChange, Business
<1>2. /\ c \in Customers /\ Proper(cv) /\ ~cv.frozen /\ cv.sales = conv[c].sales
      /\ view[t].request = request
  BY <1>1, TurnStarts DEF Snapshot
<1>3. EndTurn(t, r, q, case, cv) /\ UNCHANGED gone
  BY DEF AskChange
<1>4. request \in [Requests -> Request] /\ gone \subseteq Requests
  BY DEF IInv, TInv, TypeOK
<1>5. request' = [request EXCEPT ![r] = q]
  BY <1>3, RequestsAssumption DEF EndTurn, Write
<1>6. q.status = "held" /\ q.last = request[r].last /\ request[r].status = "held"
  BY <1>1, <1>2, <1>4 DEF Awaiting, Request
<1> HIDE DEF q
<1>7. TurnRequests(c)
  BY <1>1, <1>3, <1>4, <1>5, <1>6 DEF TurnRequests, IInv, GoneIsCancelled, ConfirmedAsAsked
<1>8. TurnCases(c, case)
  BY <1>1, <1>7, SameTurnCases
<1> HIDE DEF cv
<1> QED
  BY <1>1, <1>2, <1>3, <1>7, <1>8, EndTurnOne

LEMMA CancelOne ==
  ASSUME IInv, TInv', NEW t \in Tasks, NEW r \in Requests, Cancel(t, r) PROVE IInv'
<1> DEFINE c == of[t]
           cv == view[t].conv[c]
           which == IF Live(view[t].request[r]) THEN r ELSE NoRequest
           q == Settled("cancelled", view[t].request[r].last)
<1>1. Turning(t) /\ OwnerOf[r] = c /\ (Live(view[t].request[r]) \/ view[t].request[r].status = "cancelled")
  BY DEF Cancel, Business
<1>2. /\ c \in Customers /\ Proper(cv) /\ ~cv.frozen /\ cv.sales = conv[c].sales
      /\ view[t].request = request
  BY <1>1, TurnStarts DEF Snapshot
<1>3. EndTurn(t, which, q, case, cv) /\ gone' = gone \cup {r}
  BY DEF Cancel
<1>4. request \in [Requests -> Request] /\ gone \subseteq Requests
  BY DEF IInv, TInv, TypeOK
<1>5. \/ request' = [request EXCEPT ![r] = q]
      \/ request' = request /\ request[r].status = "cancelled"
  BY <1>1, <1>2, <1>3, RequestsAssumption DEF EndTurn, Write
<1>6. q.status = "cancelled" /\ q.last = request[r].last
  BY <1>2 DEF Settled
<1> HIDE DEF q, which
<1>7. TurnRequests(c)
  BY <1>1, <1>3, <1>4, <1>5, <1>6 DEF TurnRequests, IInv, GoneIsCancelled, ConfirmedAsAsked
<1>8. TurnCases(c, case)
  BY <1>1, <1>7, SameTurnCases
<1> HIDE DEF cv
<1> QED
  BY <1>1, <1>2, <1>3, <1>7, <1>8, EndTurnOne

LEMMA WithdrawOne ==
  ASSUME IInv, TInv', NEW t \in Tasks, NEW r \in Requests, Withdraw(t, r) PROVE IInv'
<1> DEFINE c == of[t]
           cv == view[t].conv[c]
           q == Settled("cancelled", "withdrawn")
           k == Newest(CasesOf(case, c))
           closes == CasesOf(case, c) # {} /\ case[k].reason = "booking_hold"
                                           /\ case[k].status \in OpenStatuses
           cs == IF closes THEN [case EXCEPT ![k] = Moved(@, "withdrawn")] ELSE case
<1>1. Turning(t) /\ OwnerOf[r] = c /\ Awaiting(view[t].request[r])
  BY DEF Withdraw, Business
<1>2. /\ c \in Customers /\ Proper(cv) /\ ~cv.frozen /\ cv.sales = conv[c].sales
      /\ view[t].request = request
  BY <1>1, TurnStarts DEF Snapshot
<1>3. EndTurn(t, r, q, cs, cv) /\ gone' = gone \cup {r}
  BY DEF Withdraw
<1>4. request \in [Requests -> Request] /\ gone \subseteq Requests
  BY DEF IInv, TInv, TypeOK
<1>5. request' = [request EXCEPT ![r] = q]
  BY <1>3, RequestsAssumption DEF EndTurn, Write
<1>6. q.status = "cancelled" /\ q.last = "withdrawn"
  BY DEF Settled
<1> HIDE DEF q
<1>7. TurnRequests(c)
  BY <1>1, <1>3, <1>4, <1>5, <1>6 DEF TurnRequests, IInv, GoneIsCancelled, ConfirmedAsAsked
<1>8. TurnCases(c, case)
  BY <1>1, <1>7, SameTurnCases
<1>9. TurnCases(c, cs)
  <2>1. CASE ~closes
    BY <1>8, <2>1
  <2>2. CASE closes
    <3>1. k \in CaseIds /\ case[k] # NoCase /\ case[k].of = c
      <4>1. k \in CasesOf(case, c)
        BY <2>2, OfThese, NewestIs
      <4> QED
        BY <4>1 DEF CasesOf
    <3>2. case[k] \in Case /\ case \in Cases /\ AskedRight(case) /\ Gapless(case)
      BY <1>1, <3>1, TurnStarts, CaseTyped
    <3> DEFINE new == Moved(case[k], "withdrawn")
    <3>3. cs = [case EXCEPT ![k] = new]
      BY <2>2
    <3>4. /\ new \in Case /\ new.of = case[k].of /\ new.about = case[k].about
          /\ new.reason = case[k].reason /\ new.status = "withdrawn"
      BY <3>2, CaseMoved
    <3> HIDE DEF k, cs, new, closes
    <3>5. cs \in Cases /\ AskedRight(cs) /\ Extends(case, cs)
      BY <3>1, <3>2, <3>3, <3>4, CaseWritten
    <3>6. cs[k] = new /\ new # NoCase /\ \A j \in CaseIds \ {k} : cs[j] = case[j]
      BY <3>1, <3>2, <3>3, <3>4, SentinelAssumption DEF Cases
    <3>7. Gapless(cs)
      BY <3>1, <3>2, <3>6 DEF Gapless
    <3> QED
      BY <1>8, <3>1, <3>4, <3>5, <3>6, <3>7 DEF TurnCases
  <2> QED
    BY <2>1, <2>2
<1> HIDE DEF cv, cs
<1> QED
  BY <1>1, <1>2, <1>3, <1>7, <1>9, EndTurnOne

LEMMA OneStepOfAll == Serial /\ IInv /\ [Next]_vars => IInv'
<1> SUFFICES ASSUME Serial, IInv, [Next]_vars PROVE IInv'
  OBVIOUS
<1>1. TInv'
  BY TypedStep DEF IInv
<1>2. CASE UNCHANGED vars
  <2>1. UNCHANGED <<request, case, conv, pc, of, view, item, late, gone>>
    BY <1>2 DEF vars, tables, task
  <2>2. Numbered' /\ OneTask' /\ OneQuestion' /\ Held' /\ OpenQuestions' /\ GoneIsCancelled'
        /\ ConfirmedAsAsked'
    BY <2>1 DEF IInv, Numbered, OneTask, OneQuestion, Held, OpenQuestions, GoneIsCancelled,
       ConfirmedAsAsked, Unsettled, CasesOf, Askable
  <2>3. \A t \in Tasks : Current(t)'
    BY <2>1 DEF IInv, Current, Snapshot, Unsettled, CasesOf, Askable
  <2> QED
    BY <1>1, <2>2, <2>3 DEF IInv
<1>3. CASE Time
  BY <1>1, <1>3, TimeOne
<1>4. ASSUME NEW t \in Tasks,
             \/ Maintain(t)
             \/ \E c \in Customers, m \in {"business", "urgent"} : Arrive(t, c, m)
             \/ \E k \in CaseIds, a \in Answers : OwnerAnswers(t, k, a)
      PROVE  IInv'
  BY <1>1, <1>4, UptakeOne
<1>5. ASSUME NEW t \in Tasks, Turn(t) PROVE IInv'
  <2>1. CASE \/ UrgentTurn(t) \/ GuidanceTurn(t) \/ TalkTurn(t) \/ Question(t) \/ Advise(t)
    BY <1>1, <2>1, TalksOne
  <2>2. ASSUME NEW r \in Requests,
               TakeRequest(t, r) \/ AskChange(t, r) \/ Withdraw(t, r) \/ Cancel(t, r)
        PROVE  IInv'
    BY <1>1, <2>2, TakeOne, AskChangeOne, WithdrawOne, CancelOne
  <2> QED
    BY <1>5, <2>1, <2>2 DEF Turn
<1>6. ASSUME NEW t \in Tasks, Work(t) PROVE IInv'
  <2>1. CASE Sweep(t)
    BY <1>1, <2>1, SweepOne
  <2>2. CASE LoadOverdue(t)
    BY <1>1, <2>2, LoadOverdueOne
  <2>3. CASE ChaseOne(t)
    BY <1>1, <2>3, ChaseOneOne
  <2>4. CASE ChaseDone(t) \/ PutOff(t) \/ RequestReopen(t)
    BY <1>1, <2>4, QuitOne
  <2>5. CASE RouteOwed(t) \/ BeginTurn(t) \/ Relay(t)
    BY <1>1, <2>5, RouteOne
  <2>6. CASE Turn(t)
    BY <1>5, <2>6
  <2>7. CASE Ask(t)
    BY <1>1, <2>7, AskOne
  <2>8. CASE FindWithdrawn(t)
    BY <2>8, FindWithdrawnNever
  <2>9. CASE JustRecord(t) \/ Decline(t) \/ \E reachable \in BOOLEAN : Approve(t, reachable)
    BY <1>1, <2>9, DecideOne
  <2>10. CASE \E worded, sent \in BOOLEAN : Tell(t, worded, sent)
    BY <1>1, <2>10, TellOne
  <2> QED
    BY <1>6, <2>1, <2>2, <2>3, <2>4, <2>5, <2>6, <2>7, <2>8, <2>9, <2>10 DEF Work
<1> QED
  BY <1>2, <1>3, <1>4, <1>6 DEF Next

THEOREM OneWorker == Serial => (Spec => []IInv)
<1> SUFFICES ASSUME Serial PROVE Spec => []IInv
  OBVIOUS
<1>1. Init => IInv
  BY StartOne
<1>2. IInv /\ [Next]_vars => IInv'
  BY OneStepOfAll
<1> QED
  BY <1>1, <1>2, PTL DEF Spec

\* With the one durable worker a conversation waits on at most one question, and one the
\* agent has stopped serving waits on one, so that an answer gives it back: no turn runs
\* that could ask another before the last answer was told (_handle, _notify_staff).
THEOREM AskedOneAtATime == Serial => (Spec => []AskedOnce)
<1>1. IInv => AskedOnce
  <2> SUFFICES ASSUME IInv, NEW c \in Customers
               PROVE  /\ Cardinality(Unsettled(c)) <= 1
                      /\ Idle /\ conv[c].frozen => Unsettled(c) # {}
    BY DEF AskedOnce
  <2>1. Cardinality(Unsettled(c)) <= 1
    <3>1. CASE Unsettled(c) = {}
      BY <3>1, FS_EmptySet
    <3>2. ASSUME NEW k \in Unsettled(c) PROVE Cardinality(Unsettled(c)) <= 1
      <4>1. Unsettled(c) = {k}
        BY DEF IInv, OneQuestion
      <4>2. Cardinality({k}) = 1
        BY FS_Singleton, Zenon
      <4> QED
        BY <4>1, <4>2
    <3> QED
      BY <3>1, <3>2
  <2>2. Idle /\ conv[c].frozen => Unsettled(c) # {}
    BY DEF IInv, Held, Idle
  <2> QED
    BY <2>1, <2>2
<1> QED
  BY <1>1, OneWorker, PTL

\* With one worker, what is confirmed is what the customer last asked for, and her
\* conversation stays counted as booked, whatever escalates or falls silent afterwards
\* (confirm_hold, outcomes.record).
THEOREM ConfirmedIsAsAsked == Serial => (Spec => []ConfirmedAsAsked)
<1>1. IInv => ConfirmedAsAsked
  BY DEF IInv
<1> QED
  BY <1>1, OneWorker, PTL

\* With one worker, a request that its customer was told is cancelled stays cancelled: no
\* question about it is open any more when she is told, and none is asked again
\* (withdraw_hold, apply_hold_decision).
THEOREM CancelledIsFinal == Serial => (Spec => []CancelledStays)
<1>1. IInv => CancelledStays
  BY DEF IInv, GoneIsCancelled, CancelledStays
<1> QED
  BY <1>1, OneWorker, PTL
-----------------------------------------------------------------------------
(* Every request has the one life of Enquiry *)

\* What is booked was confirmed last, so what is cancelled after that says so.
BookedLast == \A r \in Requests : request[r].status = "confirmed" => request[r].last = "confirmed"

\* A step is one of Enquiry's, or none.
Lives == [Life!Next]_(Life!vars) /\ BookedLast'

\* The cars that are free are those nobody is booked on.
LEMMA FreeIs ==
  ASSUME request \in [Requests -> Request], NEW r \in Requests, Available(r)
  PROVE  Life!Free(r)
  BY DEF Available, Life!Free, Stage, StageOf, Request

LEMMA Unnoticed ==
  ASSUME BookedLast, UNCHANGED gone, request \in [Requests -> Request],
         request' \in [Requests -> Request],
         \A r \in Requests : request'[r].status = request[r].status /\ request'[r].last = request[r].last
  PROVE  Lives
<1>1. \A r \in Requests : StageOf(request'[r]) = StageOf(request[r])
  BY DEF StageOf
<1>2. Stage' = Stage
  BY <1>1 DEF Stage
<1>3. BookedLast'
  BY DEF BookedLast
<1> QED
  BY <1>2, <1>3 DEF Lives, Life!vars

\* The clock runs out on the requests the sweep finds, if it finds any.
LEMMA SweepLives ==
  ASSUME IInv, BookedLast, NEW t \in Tasks, Sweep(t) PROVE Lives
<1>1. view[t].request = request /\ request \in [Requests -> Request]
  BY DEF Sweep, IInv, Current, Snapshot, TInv, TypeOK
<1>2. /\ request' = [r \in Requests |-> IF Expired(request[r]) THEN Released ELSE request[r]]
      /\ UNCHANGED gone
  BY <1>1 DEF Sweep
<1> DEFINE rs == {r \in Requests : Expired(request[r])}
<1>3. \A r \in rs : Stage[r] = "waiting"
  BY DEF Stage, StageOf, Expired
<1>4. \A r \in Requests : StageOf(request'[r]) = IF r \in rs THEN "lapsed" ELSE Stage[r]
  <2>1. StageOf(Released) = "lapsed"
    BY DEF StageOf, Released, Settled
  <2> QED
    BY <1>2, <2>1 DEF Stage
<1>5. Stage' = [r \in Requests |-> IF r \in rs THEN "lapsed" ELSE Stage[r]]
  BY <1>4 DEF Stage
<1>6. BookedLast'
  BY <1>2 DEF BookedLast, Released, Settled
<1> HIDE DEF rs
<1>7. CASE rs = {}
  <2>1. Stage' = Stage
    BY <1>5, <1>7 DEF Stage
  <2> QED
    BY <1>2, <1>6, <2>1 DEF Lives, Life!vars
<1>8. CASE rs # {}
  <2>1. rs \in SUBSET Requests
    BY DEF rs
  <2>2. Life!Lapse(rs)
    BY <1>2, <1>3, <1>5, <1>8 DEF Life!Lapse
  <2> QED
    BY <1>6, <2>1, <2>2 DEF Lives, Life!Next
<1> QED
  BY <1>7, <1>8

LEMMA TakeLives ==
  ASSUME IInv, BookedLast, NEW t \in Tasks, NEW r \in Requests, TakeRequest(t, r) PROVE Lives
<1> DEFINE q == [NewRequest EXCEPT !.status = "held"]
<1>1. request \in [Requests -> Request] /\ request[r].status = "none" /\ Available(r)
  BY DEF IInv, TInv, TypeOK, TakeRequest
<1>2. request' = [request EXCEPT ![r] = q] /\ UNCHANGED gone
  BY RequestsAssumption DEF TakeRequest, EndTurn, Write
<1>3. q.status = "held"
  BY DEF NewRequest
<1>4. StageOf(request[r]) = "none" /\ StageOf(q) = "waiting"
  BY <1>1, <1>3 DEF StageOf
<1> HIDE DEF q
<1>5. Stage[r] = "none" /\ Stage' = [Stage EXCEPT ![r] = "waiting"] /\ BookedLast'
  BY <1>1, <1>2, <1>3, <1>4 DEF Stage, BookedLast
<1>6. Life!Free(r)
  BY <1>1, FreeIs
<1>7. Life!Take(r)
  BY <1>2, <1>5, <1>6 DEF Life!Take
<1> QED
  BY <1>5, <1>7 DEF Lives, Life!Next

LEMMA WithdrawLives ==
  ASSUME IInv, BookedLast, NEW t \in Tasks, NEW r \in Requests, Withdraw(t, r) PROVE Lives
<1> DEFINE q == Settled("cancelled", "withdrawn")
<1>1. request \in [Requests -> Request] /\ request[r].status = "held"
  BY TurnStarts DEF IInv, TInv, TypeOK, Withdraw, Business, Awaiting, Snapshot
<1>2. request' = [request EXCEPT ![r] = q] /\ gone' = gone \cup {r}
  BY RequestsAssumption DEF Withdraw, EndTurn, Write
<1>3. q.status = "cancelled" /\ q.last = "withdrawn"
  BY DEF Settled
<1>4. StageOf(request[r]) = "waiting" /\ StageOf(q) = "withdrawn"
  BY <1>1, <1>3 DEF StageOf
<1> HIDE DEF q
<1>5. Stage[r] = "waiting" /\ Stage' = [Stage EXCEPT ![r] = "withdrawn"] /\ BookedLast'
  <2>1. q.status # "confirmed"
    BY <1>3
  <2> QED
    BY <1>1, <1>2, <1>4, <2>1 DEF Stage, BookedLast
<1>6. Life!Withdraw(r)
  BY <1>2, <1>5 DEF Life!Withdraw
<1> QED
  BY <1>5, <1>6 DEF Lives, Life!Next

\* A booking is cancelled once; what is cancelled already has ended, or has lapsed.
LEMMA CancelLives ==
  ASSUME IInv, BookedLast, NEW t \in Tasks, NEW r \in Requests, Cancel(t, r) PROVE Lives
<1> DEFINE q == Settled("cancelled", request[r].last)
<1>1. /\ request \in [Requests -> Request] /\ view[t].request = request
      /\ Live(request[r]) \/ request[r].status = "cancelled"
  BY TurnStarts DEF IInv, TInv, TypeOK, Cancel, Business, Snapshot
<1>2. /\ request' = IF Live(request[r]) THEN [request EXCEPT ![r] = q] ELSE request
      /\ gone' = gone \cup {r}
  BY <1>1, RequestsAssumption DEF Cancel, EndTurn, Write
<1>3. q.status = "cancelled" /\ q.last = request[r].last
  BY DEF Settled
<1> HIDE DEF q
<1>4. CASE Live(request[r])
  <2>1. request[r].status = "confirmed" /\ request[r].last = "confirmed"
    BY <1>4 DEF Live, BookedLast
  <2>2. StageOf(request[r]) = "booked" /\ StageOf(q) = "cancelled"
    BY <1>3, <2>1 DEF StageOf
  <2>3. request' = [request EXCEPT ![r] = q] /\ q.status # "confirmed"
    BY <1>2, <1>3, <1>4
  <2>4. Stage[r] = "booked" /\ Stage' = [Stage EXCEPT ![r] = "cancelled"] /\ BookedLast'
    BY <1>1, <2>2, <2>3 DEF Stage, BookedLast
  <2>5. Life!Cancel(r)
    BY <1>2, <2>4 DEF Life!Cancel
  <2> QED
    BY <2>4, <2>5 DEF Lives, Life!Next
<1>5. CASE ~Live(request[r])
  <2>1. request' = request /\ request[r].status = "cancelled"
    BY <1>1, <1>2, <1>5
  <2>2. Stage[r] \in {"lapsed", "declined", "withdrawn", "cancelled"}
    BY <2>1 DEF Stage, StageOf
  <2>3. Stage' = Stage /\ BookedLast'
    BY <2>1 DEF Stage, BookedLast
  <2>4. Life!SayOver(r)
    BY <1>2, <2>2, <2>3 DEF Life!SayOver, Life!Ends
  <2> QED
    BY <2>3, <2>4 DEF Lives, Life!Next
<1> QED
  BY <1>4, <1>5

\* What the owner decides is undecided, and its customer was not told that it is over.
LEMMA DecidesUndecided ==
  ASSUME IInv, NEW t \in Tasks, NEW a, Decides(t, a)
  PROVE  /\ Asked(t) \in Requests /\ Asked(t) \notin gone
         /\ request \in [Requests -> Request] /\ Stage[Asked(t)] \in {"waiting", "lapsed"}
<1> DEFINE r == Asked(t)
<1>1. r \in Requests /\ r \notin gone /\ view[t].request = request
  BY DecidedView DEF Decides, Snapshot
<1>2. Decidable(request[r])
  BY <1>1 DEF Decides
<1> HIDE DEF r
<1>3. Stage[r] \in {"waiting", "lapsed"}
  BY <1>1, <1>2 DEF Stage, StageOf, Decidable
<1>4. request \in [Requests -> Request]
  BY DEF IInv, TInv, TypeOK
<1> QED
  BY <1>1, <1>3, <1>4 DEF r

LEMMA DeclineLives ==
  ASSUME IInv, BookedLast, NEW t \in Tasks, Decline(t) PROVE Lives
<1> DEFINE r == Asked(t)
           q == Settled("cancelled", "released")
<1>1. /\ r \in Requests /\ r \notin gone /\ request \in [Requests -> Request]
      /\ Stage[r] \in {"waiting", "lapsed"}
  BY DecidesUndecided DEF Decline
<1>2. request' = [request EXCEPT ![r] = q] /\ UNCHANGED gone
  BY DEF Decline, RecordDecision
<1>3. q.status # "confirmed" /\ StageOf(q) = "declined"
  BY DEF Settled, StageOf
<1> HIDE DEF r, q
<1>4. Stage' = [Stage EXCEPT ![r] = "declined"] /\ BookedLast'
  BY <1>1, <1>2, <1>3 DEF Stage, BookedLast
<1>5. Life!Decline(r)
  BY <1>1, <1>2, <1>4 DEF Life!Decline, Life!Undecided
<1> QED
  BY <1>1, <1>4, <1>5 DEF Lives, Life!Next

LEMMA ApproveLives ==
  ASSUME IInv, BookedLast, NEW t \in Tasks, NEW reachable, Approve(t, reachable) PROVE Lives
<1> DEFINE r == Asked(t)
           q == Settled("confirmed", "confirmed")
<1>1. /\ r \in Requests /\ r \notin gone /\ request \in [Requests -> Request]
      /\ Stage[r] \in {"waiting", "lapsed"}
  BY DecidesUndecided DEF Approve
<1>2. UNCHANGED gone
  BY DEF Approve, RecordDecision
<1>3. CASE UNCHANGED request
  BY <1>1, <1>2, <1>3, Unnoticed
<1>4. CASE request' = [request EXCEPT ![r] = q] /\ Available(r)
  <2>1. q.status = "confirmed" /\ q.last = "confirmed" /\ StageOf(q) = "booked"
    BY DEF Settled, StageOf
  <2> HIDE DEF r, q
  <2>2. Stage' = [Stage EXCEPT ![r] = "booked"] /\ BookedLast'
    BY <1>1, <1>4, <2>1 DEF Stage, BookedLast
  <2>3. Life!Free(r)
    BY <1>1, <1>4, FreeIs
  <2>4. Life!Book(r)
    BY <1>1, <1>2, <2>2, <2>3 DEF Life!Book, Life!Undecided
  <2> QED
    BY <1>1, <2>2, <2>4 DEF Lives, Life!Next
<1> QED
  BY <1>3, <1>4 DEF Approve, Confirms

LEMMA EveryLife == Serial /\ IInv /\ BookedLast /\ [Next]_vars => Lives
<1> SUFFICES ASSUME Serial, IInv, BookedLast, [Next]_vars PROVE Lives
  OBVIOUS
<1>1. request \in [Requests -> Request] /\ request' \in [Requests -> Request]
  BY OneStepOfAll DEF IInv, TInv, TypeOK
<1>2. CASE UNCHANGED <<request, gone>>
  BY <1>1, <1>2, Unnoticed
<1>3. ASSUME NEW r \in Requests, Ripen(r) PROVE Lives
  <2>1. /\ request' = [request EXCEPT ![r].age = IF @ = "young" THEN "edge" ELSE "old"]
        /\ UNCHANGED gone
    BY <1>3 DEF Ripen
  <2> QED
    BY <1>1, <2>1, Unnoticed DEF Request
<1>4. ASSUME NEW t \in Tasks, NEW r \in Requests, AskChange(t, r) PROVE Lives
  <2>1. /\ view[t].request = request /\ UNCHANGED gone
        /\ request' = [request EXCEPT ![r] =
                         [request[r] EXCEPT !.last = view[t].request[r].last, !.change = TRUE]]
    BY <1>4, TurnStarts, RequestsAssumption DEF AskChange, Business, Snapshot, EndTurn, Write
  <2> QED
    BY <1>1, <2>1, Unnoticed DEF Request
<1>5. CASE \/ UNCHANGED vars
           \/ \E k \in CaseIds : Elapse(k)
           \/ \E c \in Customers : WindowShuts(c)
  BY <1>2, <1>5 DEF vars, tables, Elapse, WindowShuts
<1>6. ASSUME NEW t \in Tasks,
             \/ Maintain(t)
             \/ \E c \in Customers, m \in {"business", "urgent"} : Arrive(t, c, m)
             \/ \E k \in CaseIds, a \in Answers : OwnerAnswers(t, k, a)
      PROVE  UNCHANGED <<request, gone>>
  BY <1>6 DEF Maintain, Arrive, OwnerAnswers, tables
<1>7. ASSUME NEW t \in Tasks,
             \/ LoadOverdue(t) \/ ChaseOne(t) \/ ChaseDone(t) \/ RouteOwed(t) \/ PutOff(t)
             \/ BeginTurn(t) \/ Ask(t) \/ FindWithdrawn(t) \/ JustRecord(t) \/ Relay(t)
             \/ RequestReopen(t) \/ \E worded, sent \in BOOLEAN : Tell(t, worded, sent)
      PROVE  UNCHANGED <<request, gone>>
  BY <1>7 DEF LoadOverdue, ChaseOne, ChaseDone, RouteOwed, PutOff, BeginTurn, Ask, FindWithdrawn,
         JustRecord, RecordDecision, Relay, RequestReopen, Tell, tables
<1>8. ASSUME NEW t \in Tasks,
             \/ UrgentTurn(t) \/ GuidanceTurn(t) \/ TalkTurn(t) \/ Question(t) \/ Advise(t)
      PROVE  UNCHANGED <<request, gone>>
  BY <1>8 DEF UrgentTurn, GuidanceTurn, TalkTurn, Question, Advise, EndTurn, Write
<1>9. ASSUME NEW t \in Tasks, Turn(t) PROVE Lives
  BY <1>2, <1>4, <1>8, <1>9, TakeLives, WithdrawLives, CancelLives DEF Turn
<1>10. ASSUME NEW t \in Tasks, Work(t) PROVE Lives
  BY <1>2, <1>7, <1>9, <1>10, SweepLives, DeclineLives, ApproveLives DEF Work
<1> QED
  BY <1>2, <1>3, <1>5, <1>6, <1>10 DEF Next, Time

\* With the one worker, whatever turns, sweeps, reminders and answers come in between, a
\* request ends once: a late answer books only what nobody was told is over, and no
\* answer or cancellation that comes twice gives it another end (apply_hold_decision,
\* expire_holds, withdraw_hold, cancel_demo_reservation).
THEOREM OneLifeEach == Serial => (Spec => ImplementsEnquiry)
<1> SUFFICES ASSUME Serial PROVE Spec => ImplementsEnquiry
  OBVIOUS
<1>1. Init => Life!Init /\ BookedLast
  BY DEF Init, Life!Init, BookedLast, Stage, StageOf, NewRequest
<1>2. IInv /\ BookedLast /\ [Next]_vars => [Life!Next]_(Life!vars) /\ BookedLast'
  BY EveryLife DEF Lives
<1>3. Spec => []IInv
  BY OneWorker
<1> QED
  BY <1>1, <1>2, <1>3, PTL DEF Spec, ImplementsEnquiry, Life!Spec
=============================================================================
