--------------------------- MODULE LearningProofs ----------------------------
(***************************************************************************)
(* Only what a whole replay cleared goes live, unless a person takes it    *)
(* back; what leaves the open list was taught; what a sweep finds and can  *)
(* be taught is proposed: proved for any conversations, habits and numbers *)
(* of versions and of rows, whatever commits while a candidate is          *)
(* replayed.  `IInv` follows the strategies alone, `Kept` the tables.      *)
(***************************************************************************)
EXTENDS Learning, FiniteSetTheorems, WellFoundedInduction, TLAPS

-----------------------------------------------------------------------------
(* The inductive invariant *)

Shaped(s) == s = [status |-> s.status, lessons |-> s.lessons, from |-> s.from,
                  parent |-> s.parent, replay |-> s.replay]

\* The parts of the tables' type that the argument needs.
Formed(d) ==
    /\ d = [judged |-> d.judged, cases |-> d.cases, mistake |-> d.mistake, strategy |-> d.strategy]
    /\ d.strategy = [v \in Versions |-> d.strategy[v]]
    /\ \A v \in Versions : Shaped(d.strategy[v])

\* What replayed clean is proven.
Vouched(d) == \A v \in Versions : d.strategy[v].replay = "clean" => v \in proven

\* The tables d as one session has written on from: it may have begun with the baseline,
\* and whatever else is new is a candidate nobody replayed.
Grown(from, d) ==
    \A v \in Versions :
        \/ d.strategy[v] = from.strategy[v]
        \/ /\ d.strategy[v].status \in {"active", "candidate"} /\ d.strategy[v].replay = "none"
           /\ d.strategy[v].status = "active" => v = Baseline

Replaying ==
    run # NoRun =>
        /\ Formed(run.mine) /\ Formed(run.base)
        /\ Grown(run.base, run.mine)
        /\ Used(run.base) \subseteq Used(db)
        /\ run.version \in Used(run.mine)

ServedInv == \A v \in Versions : db.strategy[v].status = "active" => v \in served

IInv == Formed(db) /\ Vouched(db) /\ ServedInv /\ Replaying

-----------------------------------------------------------------------------
(* What a session writes *)

LEMMA Numbers == Versions \subseteq Nat /\ IsFiniteSet(Versions) /\ MaxVersions \in Nat
                 /\ Baseline \in Versions
<1>1. MaxVersions \in Nat /\ MaxVersions > 0
  BY LearningAssumption
<1>2. IsFiniteSet(1 .. MaxVersions)
  BY <1>1, FS_Interval
<1> QED
  BY <1>1, <1>2 DEF Versions, Baseline

LEMMA Unused == Shaped(NoStrategy) /\ NoStrategy.status = "none" /\ NoStrategy.replay = "none"
  BY DEF Shaped, NoStrategy

LEMMA WithMistakes ==
  ASSUME NEW d, Formed(d), NEW rows
  PROVE  Formed([d EXCEPT !.mistake = rows]) /\ [d EXCEPT !.mistake = rows].strategy = d.strategy
  BY DEF Formed

\* The strategies are written.
WithAll(d, next) == [d EXCEPT !.strategy = next]

LEMMA WithStrategies ==
  ASSUME NEW d, Formed(d), NEW next, next = [v \in Versions |-> next[v]],
         \A v \in Versions : Shaped(next[v])
  PROVE  Formed(WithAll(d, next)) /\ WithAll(d, next).strategy = next
<1> DEFINE e == WithAll(d, next)
<1>1. e = [judged |-> d.judged, cases |-> d.cases, mistake |-> d.mistake, strategy |-> next]
  BY DEF Formed, WithAll
<1>2. e.strategy = next
  BY <1>1
<1>3. e = [judged |-> e.judged, cases |-> e.cases, mistake |-> e.mistake, strategy |-> e.strategy]
  BY <1>1
<1> HIDE DEF e
<1> QED
  BY <1>2, <1>3 DEF Formed, e

LEMMA PromotedGrows ==
  ASSUME NEW d, Formed(d), NEW found, NEW safe
  PROVE  Formed(Promoted(d, found, safe)) /\ Promoted(d, found, safe).strategy = d.strategy
<1>1. PICK rows : Promoted(d, found, safe) = [d EXCEPT !.mistake = rows]
  BY Zenon DEF Promoted
<1> QED
  BY <1>1, WithMistakes

LEMMA RecordedGrows ==
  ASSUME NEW d, Formed(d), NEW cs
  PROVE  Formed(Recorded(d, cs)) /\ Recorded(d, cs).strategy = d.strategy
<1> DEFINE e == [d EXCEPT !.judged = @ \cup cs]
<1>1. Formed(e) /\ e.strategy = d.strategy
  BY DEF Formed
<1> HIDE DEF e
<1>2. Formed(Promoted(e, Findings(cs), TRUE)) /\ Promoted(e, Findings(cs), TRUE).strategy = e.strategy
  BY <1>1, PromotedGrows
<1> QED
  BY <1>1, <1>2 DEF Recorded, e

LEMMA CapturedGrows ==
  ASSUME NEW d, Formed(d), NEW cs
  PROVE  Formed(Captured(d, cs)) /\ Captured(d, cs).strategy = d.strategy
  BY DEF Captured, Formed

\* One version is written.
With(d, k, s) == [d EXCEPT !.strategy[k] = s]

LEMMA SetsOne ==
  ASSUME NEW d, Formed(d), NEW k, NEW s, Shaped(s)
  PROVE  /\ Formed(With(d, k, s))
         /\ \A v \in Versions : With(d, k, s).strategy[v] = IF v = k THEN s ELSE d.strategy[v]
<1> DEFINE next == [d.strategy EXCEPT ![k] = s]
<1>1. \A v \in Versions : next[v] = IF v = k THEN s ELSE d.strategy[v]
  BY DEF Formed
<1>2. next = [v \in Versions |-> next[v]]
  BY DEF Formed
<1>3. \A v \in Versions : Shaped(next[v])
  BY <1>1 DEF Formed
<1>4. With(d, k, s) = WithAll(d, next)
  BY Zenon DEF With, WithAll
<1> HIDE DEF next
<1>5. Formed(With(d, k, s)) /\ With(d, k, s).strategy = next
  BY <1>2, <1>3, <1>4, WithStrategies
<1> QED
  BY <1>1, <1>5

LEMMA BaselineGrows ==
  ASSUME NEW d, Formed(d)
  PROVE  Formed(WithBaseline(d)) /\ Grown(d, WithBaseline(d)) /\ Used(d) \subseteq Used(WithBaseline(d))
<1> DEFINE first == [status |-> "active", lessons |-> {}, from |-> {}, parent |-> 0, replay |-> "none"]
           e == With(d, Baseline, first)
<1>1. Shaped(first)
  BY DEF Shaped
<1>3. first # NoStrategy /\ first.status = "active" /\ first.replay = "none"
  BY DEF NoStrategy
<1> HIDE DEF first
<1>2. Formed(e) /\ \A v \in Versions : e.strategy[v] = IF v = Baseline THEN first ELSE d.strategy[v]
  BY <1>1, SetsOne
<1>4. Grown(d, e) /\ Used(d) \subseteq Used(e)
  BY <1>2, <1>3 DEF Grown, Used
<1>5. Grown(d, d)
  BY DEF Grown
<1> QED
  BY <1>2, <1>4, <1>5 DEF WithBaseline, With, first

\* What is written grows on, whatever was written before it.
LEMMA GrowsOn ==
  ASSUME NEW a, NEW b, NEW c, Grown(a, b), Grown(b, c) PROVE Grown(a, c)
  BY DEF Grown

LEMMA GrowsBeside ==
  ASSUME NEW a, NEW b, NEW c, a.strategy = b.strategy
  PROVE  (Grown(b, c) => Grown(a, c)) /\ Used(a) = Used(b)
  BY DEF Grown, Used

LEMMA ProposalGrows ==
  ASSUME NEW d, Formed(d), NEW reordered, RoomToPropose(d, reordered)
  PROVE  LET p == Proposal(d, reordered)
         IN /\ Formed(p.d) /\ Grown(d, p.d) /\ Used(d) \subseteq Used(p.d)
            /\ p.v # 0 => p.v \in Used(p.d)
<1> DEFINE b == WithBaseline(d)
           next == Cardinality(Used(b)) + 1
           new == [status |-> "candidate", lessons |-> Merged(b), from |-> Corrects(b),
                   parent |-> Serving(b), replay |-> "none"]
           e == With(b, next, new)
           p == Proposal(d, reordered)
<1>1. Formed(b) /\ Grown(d, b) /\ Used(d) \subseteq Used(b)
  BY BaselineGrows
<1>2. CASE Merged(b) = ActiveLessons(b)
  BY <1>1, <1>2 DEF Proposal
<1>3. CASE Merged(b) # ActiveLessons(b) /\ Waiting(b, Merged(b)) # {} /\ ~reordered
  <2> DEFINE waiting == Waiting(b, Merged(b))
  <2>1. waiting \subseteq Used(b) /\ waiting \subseteq Nat
    BY Numbers DEF Waiting, InStatus, Used
  <2>2. \E v \in waiting : \A w \in waiting : v <= w
    <3> DEFINE less == OpToRel(<, Nat)
    <3>2. \A v, w \in Nat : <<w, v>> \notin less => v <= w
      BY DEF OpToRel
    <3>3. IsWellFoundedOn(less, Nat)
      BY NatLessThanWellFounded, Zenon
    <3> HIDE DEF less
    <3>1. \E v \in waiting : \A w \in waiting : <<w, v>> \notin less
      BY <1>3, <2>1, <3>3, WFMin
    <3> QED
      BY <2>1, <3>1, <3>2
  <2>3. p = [d |-> b, v |-> CHOOSE v \in waiting : \A w \in waiting : v <= w]
    BY <1>3 DEF Proposal
  <2> HIDE DEF b, p, waiting
  <2>4. p.d = b /\ p.v \in Used(b)
    BY <2>1, <2>2, <2>3
  <2> QED
    BY <1>1, <2>4 DEF p
<1>4. CASE Merged(b) # ActiveLessons(b) /\ ~(Waiting(b, Merged(b)) # {} /\ ~reordered)
  <2>1. Shaped(new) /\ new.status = "candidate" /\ new.replay = "none" /\ new # NoStrategy
    BY DEF Shaped, NoStrategy
  <2>2. next \in Versions
    <3>1. Cardinality(Used(b)) < MaxVersions
      BY DEF RoomToPropose
    <3>2. IsFiniteSet(Used(b))
      BY Numbers, FS_Subset DEF Used
    <3>3. Cardinality(Used(b)) \in Nat
      BY <3>2, FS_CardinalityType
    <3> QED
      BY <3>1, <3>3, Numbers DEF Versions
  <2>3. p = [d |-> e, v |-> next]
    BY <1>4 DEF Proposal, With
  <2> HIDE DEF b, new, next, p
  <2>5. Formed(e) /\ \A v \in Versions : e.strategy[v] = IF v = next THEN new ELSE b.strategy[v]
    BY <1>1, <2>1, SetsOne
  <2>6. Grown(b, e) /\ Used(b) \subseteq Used(e) /\ next \in Used(e)
    BY <2>1, <2>2, <2>5 DEF Grown, Used
  <2>7. Grown(d, e)
    BY <1>1, <2>6, GrowsOn
  <2>8. p.d = e /\ p.v = next
    BY <2>3
  <2> QED
    BY <1>1, <2>5, <2>6, <2>7, <2>8 DEF p
<1> QED
  BY <1>2, <1>3, <1>4

-----------------------------------------------------------------------------
(* Steps beside the replaying run *)

LEMMA Start == Init => IInv
<1> SUFFICES ASSUME Init PROVE IInv
  OBVIOUS
<1>1. \A v \in Versions : db.strategy[v] = NoStrategy
  BY DEF Init
<1>2. Formed(db)
  BY <1>1, Unused DEF Init, Formed
<1>3. Vouched(db) /\ ServedInv
  BY <1>1, Unused DEF Vouched, ServedInv
<1> QED
  BY <1>2, <1>3 DEF IInv, Replaying, Init

\* Tables that have only grown vouch as the ones before.
LEMMA GrownVouches == ASSUME NEW a, NEW b, Grown(a, b), Vouched(a) PROVE Vouched(b)
  BY DEF Grown, Vouched

\* A session other than the run writes tables that have grown, or those with one
\* version more in service.
LEMMA Commits ==
  ASSUME IInv, NEW d, Commit(d), Formed(d), Vouched(d), Used(db) \subseteq Used(d),
         UNCHANGED <<run, proven>>
  PROVE  IInv'
<1>1. db' = d /\ served' = served \cup InStatus(d, "active")
  BY DEF Commit
<1>2. Formed(db)' /\ Vouched(db)'
  BY <1>1 DEF Formed, Vouched, Shaped
<1>3. ServedInv'
  <2>1. \A v \in Versions : d.strategy[v].status = "active" => v \in InStatus(d, "active")
    BY DEF InStatus, Used, NoStrategy
  <2> QED
    BY <1>1, <2>1 DEF ServedInv
<1>4. Replaying'
  <2>1. Used(db) \subseteq Used(db)'
    BY <1>1 DEF Used
  <2>2. UNCHANGED run
    OBVIOUS
  <2> QED
    BY <2>1, <2>2 DEF IInv, Replaying, Formed, Grown, Used, Shaped
<1> QED
  BY <1>2, <1>3, <1>4 DEF IInv

LEMMA CommitsGrown ==
  ASSUME IInv, NEW d, Commit(d), Formed(d), Grown(db, d), Used(db) \subseteq Used(d),
         UNCHANGED <<run, proven>>
  PROVE  IInv' /\ served' \ served \subseteq {Baseline}
<1>1. IInv'
  BY GrownVouches, Commits DEF IInv
<1>2. \A v \in InStatus(d, "active") : v = Baseline \/ v \in served
  BY DEF IInv, InStatus, Used, Grown, ServedInv
<1> QED
  BY <1>1, <1>2 DEF Commit

LEMMA Sweeps ==
  ASSUME IInv, NEW read, NEW safe, NEW reordered, Sweep(read, safe, reordered)
  PROVE  IInv' /\ served' \ served \subseteq {Baseline}
<1> DEFINE fresh == ended \ db.judged
           judged == Captured(Recorded(db, fresh), fresh)
           noticed == [c \in Conversations |-> IF c \in fresh THEN read[c] ELSE {}]
           told == Promoted(judged, noticed, safe)
           p == Proposal(told, reordered)
<1>1. Commit(p.d) /\ RoomToPropose(told, reordered) /\ UNCHANGED <<run, proven>>
  BY DEF Sweep
<1>2. Formed(judged) /\ judged.strategy = db.strategy
  BY RecordedGrows, CapturedGrows DEF IInv
<1> HIDE DEF judged, noticed
<1>3. Formed(told) /\ told.strategy = db.strategy
  BY <1>2, PromotedGrows
<1> HIDE DEF told
<1>4. Formed(p.d) /\ Grown(told, p.d) /\ Used(told) \subseteq Used(p.d)
  BY <1>1, <1>3, ProposalGrows
<1>5. Grown(db, p.d) /\ Used(db) \subseteq Used(p.d)
  BY <1>3, <1>4, GrowsBeside
<1> QED
  BY <1>1, <1>4, <1>5, CommitsGrown

LEMMA EvaluatedGrows == ASSUME IInv PROVE Formed(Evaluated) /\ Evaluated.strategy = db.strategy
  BY RecordedGrows, CapturedGrows DEF IInv, Evaluated

LEMMA Finishes ==
  ASSUME IInv, NEW c, Finish(c) PROVE IInv' /\ served' \ served \subseteq {Baseline}
<1> DEFINE told == Recorded(db, {c})
           d == WithBaseline(told)
<1>1. Commit(d) /\ UNCHANGED <<run, proven>>
  BY DEF Finish
<1>2. Formed(told) /\ told.strategy = db.strategy
  BY RecordedGrows DEF IInv
<1> HIDE DEF told
<1>3. Formed(d) /\ Grown(told, d) /\ Used(told) \subseteq Used(d)
  BY <1>2, BaselineGrows
<1>4. Grown(db, d) /\ Used(db) \subseteq Used(d)
  BY <1>2, <1>3, GrowsBeside
<1> QED
  BY <1>1, <1>3, <1>4, CommitsGrown

LEMMA Reports == ASSUME IInv, Report PROVE IInv' /\ served' \ served \subseteq {Baseline}
<1> DEFINE d == Recorded(db, Conversations)
<1>1. Commit(d) /\ UNCHANGED <<run, proven>>
  BY DEF Report
<1>2. Formed(d) /\ d.strategy = db.strategy
  BY RecordedGrows DEF IInv
<1> HIDE DEF d
<1>3. Grown(db, d) /\ Used(db) \subseteq Used(d)
  BY <1>2 DEF Grown, Used
<1> QED
  BY <1>1, <1>2, <1>3, CommitsGrown

LEMMA Proposes ==
  ASSUME IInv, NEW reordered, Propose(reordered)
  PROVE  IInv' /\ served' \ served \subseteq {Baseline}
<1> DEFINE p == Proposal(Evaluated, reordered)
<1>1. Commit(p.d) /\ RoomToPropose(Evaluated, reordered) /\ UNCHANGED <<run, proven>>
  BY DEF Propose
<1>2. Formed(Evaluated) /\ Evaluated.strategy = db.strategy
  BY EvaluatedGrows
<1>3. Formed(p.d) /\ Grown(Evaluated, p.d) /\ Used(Evaluated) \subseteq Used(p.d)
  BY <1>1, <1>2, ProposalGrows
<1>4. Grown(db, p.d) /\ Used(db) \subseteq Used(p.d)
  BY <1>2, <1>3, GrowsBeside
<1> QED
  BY <1>1, <1>3, <1>4, CommitsGrown

\* The strategies when v is in service instead of what was.
InService(d, v, past) ==
    [w \in Versions |->
        IF w = v THEN [d.strategy[w] EXCEPT !.status = "active"]
        ELSE IF w \in InStatus(d, "active") THEN [d.strategy[w] EXCEPT !.status = past]
        ELSE d.strategy[w]]

LEMMA TakesOver ==
  ASSUME NEW d, Formed(d), NEW v \in Versions, NEW past, past \in {"superseded", "rolled_back"},
         NEW next, next = InService(d, v, past)
  PROVE  /\ next = [w \in Versions |-> next[w]]
         /\ \A w \in Versions : /\ Shaped(next[w]) /\ next[w].replay = d.strategy[w].replay
                                /\ next[w].status = "active" => w = v
                                /\ next[w] = NoStrategy => d.strategy[w] = NoStrategy
<1>1. next = [w \in Versions |-> next[w]]
  BY DEF InService
<1>2. ASSUME NEW w \in Versions
      PROVE  /\ Shaped(next[w]) /\ next[w].replay = d.strategy[w].replay
             /\ next[w].status = "active" => w = v
             /\ next[w] = NoStrategy => d.strategy[w] = NoStrategy
  <2> DEFINE s == d.strategy[w]
  <2>1. /\ s = [status |-> s.status, lessons |-> s.lessons, from |-> s.from,
                parent |-> s.parent, replay |-> s.replay]
        /\ Shaped(s)
    BY DEF Formed, Shaped
  <2>2. CASE w = v
    <3>1. next[w] = [s EXCEPT !.status = "active"]
      BY <2>2 DEF InService
    <3> HIDE DEF s
    <3>2. next[w] = [status |-> "active", lessons |-> s.lessons, from |-> s.from,
                     parent |-> s.parent, replay |-> s.replay]
      BY <2>1, <3>1
    <3> QED
      BY <2>2, <3>2 DEF Shaped, NoStrategy, s
  <2>3. CASE w # v /\ w \in InStatus(d, "active")
    <3>1. next[w] = [s EXCEPT !.status = past]
      BY <2>3 DEF InService
    <3> HIDE DEF s
    <3>2. next[w] = [status |-> past, lessons |-> s.lessons, from |-> s.from,
                     parent |-> s.parent, replay |-> s.replay]
      BY <2>1, <3>1
    <3> QED
      BY <3>2 DEF Shaped, NoStrategy, s
  <2>4. CASE w # v /\ w \notin InStatus(d, "active")
    <3>1. next[w] = s
      BY <2>4 DEF InService
    <3>2. s.status # "active"
      BY <2>4 DEF InStatus, Used, NoStrategy
    <3> QED
      BY <2>1, <3>1, <3>2
  <2> QED
    BY <2>2, <2>3, <2>4
<1> QED
  BY <1>1, <1>2

LEMMA ActivatedForm ==
  ASSUME NEW d, Formed(d), NEW v \in Versions
  PROVE  /\ Formed(Activated(d, v))
         /\ Activated(d, v).strategy = InService(d, v, "superseded")
<1> DEFINE next == InService(d, v, "superseded")
           e == WithAll(d, next)
<1>1. Formed(e) /\ e.strategy = next
  <2>1. next = [w \in Versions |-> next[w]] /\ \A w \in Versions : Shaped(next[w])
    BY TakesOver
  <2> HIDE DEF next
  <2> QED
    BY <2>1, WithStrategies
<1>2. PICK rows : Activated(d, v) = [e EXCEPT !.mistake = rows]
  BY Zenon DEF Activated, InService, WithAll
<1> HIDE DEF e
<1> QED
  BY <1>1, <1>2, WithMistakes

\* Tables in which v has taken over vouch as those before.
LEMMA TakenOver ==
  ASSUME IInv, NEW v \in Versions, NEW past, past \in {"superseded", "rolled_back"},
         NEW d, d.strategy = InService(db, v, past)
  PROVE  Vouched(d) /\ Used(db) \subseteq Used(d) /\ InStatus(d, "active") \subseteq {v}
<1>1. \A w \in Versions : /\ d.strategy[w].replay = db.strategy[w].replay
                          /\ d.strategy[w].status = "active" => w = v
                          /\ d.strategy[w] = NoStrategy => db.strategy[w] = NoStrategy
  BY TakesOver DEF IInv
<1>2. Vouched(d)
  BY <1>1 DEF IInv, Vouched
<1>3. Used(db) \subseteq Used(d)
  BY <1>1 DEF Used
<1>4. InStatus(d, "active") \subseteq {v}
  BY <1>1 DEF Used, InStatus
<1> QED
  BY <1>2, <1>3, <1>4

\* A person puts only a candidate in front of customers that replayed clean.
LEMMA Promotes ==
  ASSUME IInv, NEW v \in Versions, Promote(v) PROVE IInv' /\ served' \ served \subseteq proven
<1> DEFINE d == Activated(db, v)
<1>1. Commit(d) /\ UNCHANGED <<run, proven>> /\ v \in proven
  BY DEF Promote, IInv, Vouched
<1>2. Formed(d) /\ d.strategy = InService(db, v, "superseded")
  BY ActivatedForm DEF IInv
<1> HIDE DEF d
<1>3. Vouched(d) /\ Used(db) \subseteq Used(d) /\ InStatus(d, "active") \subseteq {v}
  BY <1>2, TakenOver
<1> QED
  BY <1>1, <1>2, <1>3, Commits DEF Commit

LEMMA RollsBack == ASSUME IInv, NEW v \in Versions, Rollback(v) PROVE IInv'
<1> DEFINE next == InService(db, v, "rolled_back")
           d == WithAll(db, next)
<1>1. Commit(d) /\ UNCHANGED <<run, proven>>
  <2>1. Commit(d)
    BY Zenon DEF Rollback, InService, WithAll
  <2> QED
    BY <2>1 DEF Rollback
<1>2. next = [w \in Versions |-> next[w]] /\ \A w \in Versions : Shaped(next[w])
  BY TakesOver DEF IInv
<1> HIDE DEF next
<1>3. Formed(d) /\ d.strategy = next
  BY <1>2, WithStrategies DEF IInv
<1> HIDE DEF d
<1>4. Vouched(d) /\ Used(db) \subseteq Used(d)
  BY <1>3, TakenOver DEF next
<1> QED
  BY <1>1, <1>3, <1>4, Commits

-----------------------------------------------------------------------------
(* The run *)

LEMMA StartsReplay == ASSUME IInv, NEW reordered, StartReplay(reordered) PROVE IInv'
<1> DEFINE p == Proposal(Evaluated, reordered)
<1>1. /\ p.v # 0 /\ run' = [mine |-> p.d, base |-> db, version |-> p.v, cases |-> p.d.cases]
      /\ RoomToPropose(Evaluated, reordered) /\ UNCHANGED <<db, served, proven>>
  BY DEF StartReplay
<1>2. Formed(Evaluated) /\ Evaluated.strategy = db.strategy
  BY EvaluatedGrows
<1>3. Formed(p.d) /\ Grown(Evaluated, p.d) /\ p.v \in Used(p.d)
  BY <1>1, <1>2, ProposalGrows
<1> HIDE DEF p
<1>4. Grown(db, p.d)
  BY <1>2, <1>3, GrowsBeside
<1>5. run'.mine = p.d /\ run'.base = db /\ run'.version = p.v
  BY <1>1
<1>6. /\ Formed(run'.mine) /\ Formed(run'.base) /\ Grown(run'.base, run'.mine)
      /\ Used(run'.base) \subseteq Used(db) /\ run'.version \in Used(run'.mine)
  BY <1>3, <1>4, <1>5 DEF IInv
<1>7. Replaying'
  BY <1>1, <1>6 DEF Replaying, Formed, Grown, Used, Shaped
<1>8. Formed(db)' /\ Vouched(db)' /\ ServedInv'
  BY <1>1 DEF IInv, Formed, Vouched, ServedInv, Shaped
<1> QED
  BY <1>7, <1>8 DEF IInv

\* What the run has written, on top of what the others have, has grown.
LEMMA Written ==
  ASSUME IInv, run # NoRun, NEW d,
         \A v \in Versions :
            d.strategy[v] = IF v \in NewVersions(run.base, run.mine)
                            THEN run.mine.strategy[v] ELSE db.strategy[v]
  PROVE  /\ \A v \in Versions : Shaped(d.strategy[v])
         /\ Grown(db, d) /\ Used(db) \subseteq Used(d) /\ run.version \in Used(d)
<1>1. /\ Formed(run.mine) /\ Formed(db) /\ Grown(run.base, run.mine)
      /\ Used(run.base) \subseteq Used(db) /\ run.version \in Used(run.mine)
  BY DEF IInv, Replaying
<1>2. \A v \in NewVersions(run.base, run.mine) :
         /\ v \in Versions /\ run.mine.strategy[v] # NoStrategy
         /\ run.mine.strategy[v].status \in {"active", "candidate"}
         /\ run.mine.strategy[v].replay = "none"
         /\ run.mine.strategy[v].status = "active" => v = Baseline
  BY <1>1 DEF NewVersions, Used, Grown
<1>3. \A v \in Versions : Shaped(d.strategy[v])
  BY <1>1 DEF Formed
<1>4. Grown(db, d)
  BY <1>2 DEF Grown
<1>5. Used(db) \subseteq Used(d)
  BY <1>2 DEF Used
<1>6. run.version \in Used(d)
  BY <1>1, <1>2 DEF Used, NewVersions
<1> QED
  BY <1>3, <1>4, <1>5, <1>6

LEMMA TogetherGrows ==
  ASSUME IInv, run # NoRun
  PROVE  /\ Formed(Together) /\ Grown(db, Together) /\ Used(db) \subseteq Used(Together)
         /\ run.version \in Used(Together)
<1>1. /\ Together = [judged |-> Together.judged, cases |-> Together.cases,
                     mistake |-> Together.mistake, strategy |-> Together.strategy]
      /\ Together.strategy = [v \in Versions |-> Together.strategy[v]]
      /\ \A v \in Versions :
            Together.strategy[v] = IF v \in NewVersions(run.base, run.mine)
                                   THEN run.mine.strategy[v] ELSE db.strategy[v]
  BY DEF Together
<1> QED
  BY <1>1, Written DEF Formed

LEMMA Reshaped ==
  ASSUME NEW s, Shaped(s), NEW replay, NEW status
  PROVE  [s EXCEPT !.replay = replay, !.status = status] =
         [status |-> status, lessons |-> s.lessons, from |-> s.from, parent |-> s.parent,
          replay |-> replay]
<1> DEFINE t == [s EXCEPT !.replay = replay]
<1>1. t = [status |-> s.status, lessons |-> s.lessons, from |-> s.from, parent |-> s.parent,
           replay |-> replay]
  BY DEF Shaped
<1> HIDE DEF t
<1>2. [t EXCEPT !.status = status] =
         [status |-> status, lessons |-> s.lessons, from |-> s.from, parent |-> s.parent,
          replay |-> replay]
  BY <1>1
<1> QED
  BY <1>2, Zenon DEF t

\* A verdict is written on the version that was replayed.
LEMMA RecordsReplay ==
  ASSUME NEW d, Formed(d), NEW v \in Used(d), NEW passed, NEW failed
  PROVE  LET e == ReplayRecorded(d, v, passed, failed)
         IN /\ Formed(e)
            /\ \A w \in Versions \ {v} : e.strategy[w] = d.strategy[w]
            /\ failed # {} => e.strategy[v].replay = "failed" /\ e.strategy[v].status = "rejected"
            /\ failed = {} => e.strategy[v].replay = (IF passed # {} THEN "clean" ELSE "none")
                               /\ e.strategy[v].status = d.strategy[v].status
<1> DEFINE verdict == IF failed # {} THEN "failed" ELSE IF passed # {} THEN "clean" ELSE "none"
           s == d.strategy[v]
           status == IF failed # {} THEN "rejected" ELSE s.status
           t == [s EXCEPT !.replay = verdict, !.status = status]
           e == ReplayRecorded(d, v, passed, failed)
<1>1. v \in Versions /\ Shaped(s)
  BY DEF Used, Formed
<1>2. e = With(d, v, t)
  BY Zenon DEF ReplayRecorded, With
<1>3. t = [status |-> status, lessons |-> s.lessons, from |-> s.from, parent |-> s.parent,
           replay |-> verdict]
  <2> HIDE DEF s, verdict, status
  <2> QED
    BY <1>1, Reshaped, Zenon
<1> HIDE DEF t, e
<1>4. Shaped(t)
  BY <1>3 DEF Shaped
<1>5. Formed(e) /\ \A w \in Versions : e.strategy[w] = IF w = v THEN t ELSE d.strategy[w]
  BY <1>2, <1>4, SetsOne
<1>6. /\ failed # {} => t.replay = "failed" /\ t.status = "rejected"
      /\ failed = {} => t.replay = (IF passed # {} THEN "clean" ELSE "none") /\ t.status = s.status
  BY <1>3
<1> QED
  BY <1>1, <1>5, <1>6 DEF e

\* What a run puts in service has passed all its cases, or is the baseline.
LEMMA EndsReplay ==
  ASSUME IInv, run # NoRun, NEW passed, NEW failed, NEW activates \in BOOLEAN,
         passed \cup failed \subseteq run.cases, passed \cap failed = {},
         EndReplay(passed, failed, activates)
  PROVE  IInv' /\ served' \ served \subseteq proven' \cup {Baseline}
<1> DEFINE v == run.version
           old == Together
           d == ReplayRecorded(old, v, passed, failed)
           clean == Conclusive(passed, failed) /\ failed = {}
<1>1. /\ Formed(old) /\ Grown(db, old) /\ Used(db) \subseteq Used(old) /\ v \in Used(old)
      /\ v \in Versions
  BY TogetherGrows DEF Used
<1>2. /\ Formed(d)
      /\ \A w \in Versions \ {v} : d.strategy[w] = old.strategy[w]
      /\ failed # {} => d.strategy[v].replay = "failed" /\ d.strategy[v].status = "rejected"
      /\ failed = {} => d.strategy[v].replay = (IF passed # {} THEN "clean" ELSE "none")
                         /\ d.strategy[v].status = old.strategy[v].status
  BY <1>1, RecordsReplay
<1>3. /\ db' = (IF ~Conclusive(passed, failed) THEN old
                ELSE IF failed = {} /\ activates THEN Activated(d, v) ELSE d)
      /\ proven' = (IF passed = run.cases THEN proven \cup {v}
                    ELSE IF passed \cup failed = run.cases THEN proven \ {v} ELSE proven)
      /\ served' = served \cup InStatus(db', "active") /\ run' = NoRun
  BY DEF EndReplay
<1>4. Vouched(old) /\ \A w \in Versions : old.strategy[w].status = "active" => w \in served \cup {Baseline}
  BY <1>1, GrownVouches DEF IInv, ServedInv, Grown
<1>5. /\ Formed(Activated(d, v))
      /\ \A w \in Versions : /\ Activated(d, v).strategy[w].replay = d.strategy[w].replay
                             /\ Activated(d, v).strategy[w].status = "active" => w = v
  BY <1>1, <1>2, ActivatedForm, TakesOver
<1>6. Conclusive(passed, failed) <=> passed \cup failed = run.cases
  BY DEF Conclusive
<1> HIDE DEF v, old, d
<1>7. Formed(db')
  BY <1>1, <1>2, <1>3, <1>5
<1>8. \A w \in Versions : db'.strategy[w].replay = "clean" => w \in proven'
  <2>1. CASE ~Conclusive(passed, failed)
    BY <1>3, <1>4, <1>6, <2>1 DEF Vouched
  <2>2. CASE Conclusive(passed, failed)
    <3>1. ASSUME NEW w \in Versions PROVE d.strategy[w].replay = "clean" => w \in proven'
      BY <1>2, <1>3, <1>4, <1>6, <2>2 DEF Vouched
    <3> QED
      BY <1>3, <1>5, <2>2, <3>1
  <2> QED
    BY <2>1, <2>2
<1>9. \A w \in Versions : db'.strategy[w].status = "active" => w \in served \cup proven' \cup {Baseline}
  <2>1. CASE ~Conclusive(passed, failed)
    BY <1>3, <1>4, <2>1
  <2>2. CASE Conclusive(passed, failed) /\ failed = {} /\ activates
    BY <1>3, <1>5, <1>6, <2>2
  <2>3. CASE Conclusive(passed, failed) /\ ~(failed = {} /\ activates)
    BY <1>2, <1>3, <1>4, <2>3
  <2> QED
    BY <2>1, <2>2, <2>3
<1>10. served' \ served \subseteq proven' \cup {Baseline}
  BY <1>3, <1>9 DEF InStatus, Used
<1>11. ServedInv'
  BY <1>3 DEF ServedInv, InStatus, Used, NoStrategy
<1>12. Formed(db)' /\ Vouched(db)'
  BY <1>7, <1>8 DEF Formed, Vouched, Shaped
<1>13. Replaying'
  BY <1>3 DEF Replaying
<1> QED
  BY <1>10, <1>11, <1>12, <1>13 DEF IInv

-----------------------------------------------------------------------------
(* The theorem *)

LEMMA Steps ==
  ASSUME IInv, [Next]_vars
  PROVE  /\ IInv'
         /\ \A v \in served' \ served :
               v \in proven' \cup {Baseline} \/ \E w \in Versions : Rollback(w)
<1>1. CASE UNCHANGED <<db, run, served, proven>>
  BY <1>1 DEF IInv, Formed, Shaped, Vouched, ServedInv, Replaying, Grown, Used
<1>2. CASE \E c \in Conversations : Finish(c)
  BY <1>2, Finishes
<1>3. CASE Report
  BY <1>3, Reports
<1>4. CASE \E read \in [Conversations -> SUBSET Reviewed], safe, reordered \in BOOLEAN :
             Sweep(read, safe, reordered)
  BY <1>4, Sweeps
<1>5. CASE \E reordered \in BOOLEAN : Propose(reordered)
  BY <1>5, Proposes
<1>6. CASE \E reordered \in BOOLEAN : StartReplay(reordered)
  BY <1>6, StartsReplay DEF StartReplay
<1>7. CASE \E passed, failed \in SUBSET (Conversations \X Checked), activates \in BOOLEAN :
             /\ run # NoRun /\ passed \cup failed \subseteq run.cases /\ passed \cap failed = {}
             /\ EndReplay(passed, failed, activates)
  BY <1>7, EndsReplay
<1>8. CASE \E v \in Versions : Promote(v)
  <2>1. PICK v \in Versions : Promote(v)
    BY <1>8
  <2>2. proven' = proven
    BY <2>1 DEF Promote
  <2> QED
    BY <2>1, <2>2, Promotes
<1>9. CASE \E v \in Versions : Rollback(v)
  BY <1>9, RollsBack
<1> QED
  BY <1>1, <1>2, <1>3, <1>4, <1>5, <1>6, <1>7, <1>8, <1>9 DEF Next, vars, Shows, Ends

\* Nothing comes into service that a whole replay has not cleared, unless a person takes
\* it back, for any number of versions and whatever commits beside a run that replays
\* (cycle.run, record_replay, promote, activate).
THEOREM OnlyProvenGoesLive == Spec => PromotedIsProven
<1>1. IInv /\ [Next]_vars =>
        [\A v \in served' \ served :
            v \in proven' \cup {Baseline} \/ \E w \in Versions : Rollback(w)]_vars
  BY Steps
<1>2. IInv /\ [Next]_vars => IInv'
  BY Steps
<1> QED
  BY Start, <1>1, <1>2, PTL DEF Spec, PromotedIsProven

-----------------------------------------------------------------------------
(* The tables: the invariant behind the other properties *)

\* Versions are numbered as they come, one serves at most, and what a version is said to
\* correct is of habits it has a lesson for.
Numbered(d) == \E k \in 0 .. MaxVersions : Used(d) = 1 .. k

OneServes(d) == \A v, w \in InStatus(d, "active") : v = w

Teaches(s, h) == \E l \in s.lessons : l[1] = h

Taught(d) == \A v \in Versions : \A p \in d.strategy[v].from : Teaches(d.strategy[v], p[1])

Sound(d) == d \in Tables /\ Numbered(d) /\ OneServes(d) /\ Taught(d)

\* The mistakes that are off the open list were taught.
Told(d) ==
    \A h \in Habits : \A n \in DOMAIN d.mistake[h] :
        d.mistake[h][n].status = "active" => \E v \in served : Teaches(db.strategy[v], h)

\* While the run has versions of its own, nobody else has got any.
Aside ==
    run # NoRun =>
        /\ Sound(run.mine) /\ Sound(run.base)
        /\ run.version \in Used(run.mine) /\ run.cases \subseteq run.mine.cases
        /\ Told(run.mine)
        /\ Used(run.base) \subseteq Used(run.mine) /\ Used(run.base) \subseteq Used(db)
        /\ \A h \in Habits : DOMAIN run.base.mistake[h] \subseteq DOMAIN run.mine.mistake[h]
        /\ NewVersions(run.base, run.mine) # {} => Used(db) = Used(run.base)

Kept ==
    /\ shows \in [Conversations -> SUBSET Habits] /\ ended \subseteq Conversations
    /\ Sound(db) /\ Told(db)
    /\ served \cup proven \subseteq Used(db)
    /\ Aside

\* What a session leaves of what it found: versions keep their lessons, mistakes stay on
\* record, and none is closed on the way.
Follows(d, e) ==
    /\ Used(d) \subseteq Used(e)
    /\ \A v \in Used(d) : e.strategy[v].lessons = d.strategy[v].lessons
    /\ \A h \in Habits : DOMAIN d.mistake[h] \subseteq DOMAIN e.mistake[h]

NoneClosed(d, e) ==
    \A h \in Habits : \A n \in DOMAIN e.mistake[h] :
        e.mistake[h][n].status = "active" =>
            n \in DOMAIN d.mistake[h] /\ d.mistake[h][n].status = "active"

Adds(d, e) == Follows(d, e) /\ NoneClosed(d, e)

Rows == UNION {[rows -> Mistake] : rows \in SUBSET (1 .. MaxRows)}

LEMMA RowsShape ==
  ASSUME NEW r \in Rows
  PROVE  DOMAIN r \subseteq 1 .. MaxRows /\ (\A n \in DOMAIN r : r[n] \in Mistake)
         /\ IsFiniteSet(DOMAIN r)
<1>1. PICK rows \in SUBSET (1 .. MaxRows) : r \in [rows -> Mistake]
  BY DEF Rows
<1>2. MaxRows \in Nat
  BY LearningAssumption
<1>3. IsFiniteSet(1 .. MaxRows)
  BY <1>2, FS_Interval
<1>4. IsFiniteSet(rows)
  BY <1>1, <1>3, FS_Subset
<1> QED  BY <1>1, <1>4

LEMMA RowsMade ==
  ASSUME NEW D, D \subseteq 1 .. MaxRows, NEW r, r = [n \in D |-> r[n]], \A n \in D : r[n] \in Mistake
  PROVE  r \in Rows
<1>1. r \in [D -> Mistake]
  OBVIOUS
<1> QED  BY <1>1 DEF Rows

LEMMA TablesShape ==
  ASSUME NEW d \in Tables
  PROVE  /\ d.judged \subseteq Conversations /\ d.cases \subseteq Conversations \X Checked
         /\ d.mistake \in [Habits -> Rows] /\ d.strategy \in [Versions -> Strategy \cup {NoStrategy}]
         /\ \A h \in Habits : d.mistake[h] \in Rows
BY DEF Tables, Rows

LEMMA WithRows ==
  ASSUME NEW d \in Tables, NEW rows \in [Habits -> Rows], NEW e, e = [d EXCEPT !.mistake = rows]
  PROVE  /\ e \in Tables /\ e.mistake = rows
         /\ e.judged = d.judged /\ e.cases = d.cases /\ e.strategy = d.strategy
BY DEF Tables, Rows

LEMMA SoundIsFormed == ASSUME NEW d, Sound(d) PROVE Formed(d)
<1>1. d \in Tables
  BY DEF Sound
<1>2. d.strategy \in [Versions -> Strategy \cup {NoStrategy}]
  BY <1>1, TablesShape
<1>3. d = [judged |-> d.judged, cases |-> d.cases, mistake |-> d.mistake, strategy |-> d.strategy]
  BY <1>1 DEF Tables
<1>4. \A s \in Strategy : Shaped(s)
  BY DEF Strategy, Shaped
<1> QED  BY <1>2, <1>3, <1>4, Unused DEF Formed

LEMMA AddsOn == ASSUME NEW a, NEW b, NEW c, Adds(a, b), Adds(b, c) PROVE Adds(a, c)
<1>1. Follows(a, c)
  BY DEF Adds, Follows
<1>2. NoneClosed(a, c)
  BY DEF Adds, Follows, NoneClosed
<1> QED  BY <1>1, <1>2 DEF Adds

\* A session that writes no strategy is sound if its tables are.
LEMMA SameStrategies ==
  ASSUME NEW d, Sound(d), NEW e \in Tables, e.strategy = d.strategy
  PROVE  Sound(e) /\ Used(e) = Used(d)
BY DEF Sound, Numbered, OneServes, Taught, Used, InStatus

-----------------------------------------------------------------------------
(* Evaluating *)

\* The rows of a habit after it was found in the conversations `in`.
Seen(d, h, in, safe) ==
    LET open == OpenRows(d, h)
    IN CASE in = {} -> d.mistake[h]
         [] in # {} /\ open # {} ->
              [d.mistake[h] EXCEPT ![CHOOSE n \in open : \A m \in open : n <= m].seen = @ \cup in]
         [] OTHER -> [n \in DOMAIN d.mistake[h] \cup {NextRow(d, h)} |->
                               IF n \in DOMAIN d.mistake[h] THEN d.mistake[h][n]
                               ELSE [status |-> "detected", seen |-> in,
                                     safe |-> h \in Checked \/ safe]]

LEMMA PromotedRows ==
  ASSUME NEW d, NEW found, NEW safe
  PROVE  Promoted(d, found, safe) =
           [d EXCEPT !.mistake = [h \in Habits |-> Seen(d, h, {c \in Conversations : h \in found[c]}, safe)]]
BY DEF Promoted, Seen

\* Sessions know how many rows there are of a habit.
LEMMA Numbering ==
  ASSUME db \in Tables, run # NoRun => run.mine \in Tables, NEW d \in Tables, NEW h \in Habits
  PROVE  NextRow(d, h) \in Nat /\ NextRow(d, h) > 0
<1>1. IsFiniteSet(DOMAIN d.mistake[h]) /\ IsFiniteSet(DOMAIN db.mistake[h])
  BY TablesShape, RowsShape
<1>2. run # NoRun => IsFiniteSet(DOMAIN run.mine.mistake[h])
  BY TablesShape, RowsShape
<1>3. IsFiniteSet(IF run = NoRun THEN {} ELSE DOMAIN run.mine.mistake[h])
  BY <1>2, FS_EmptySet
<1>4. IsFiniteSet(Taken(d, h))
  BY <1>1, <1>3, FS_Union DEF Taken
<1>5. Cardinality(Taken(d, h)) \in Nat
  BY <1>4, FS_CardinalityType
<1> QED  BY <1>5 DEF NextRow

\* There is a first among rows and among versions.
LEMMA First ==
  ASSUME NEW S, S \subseteq Nat, S # {}
  PROVE  LET k == CHOOSE n \in S : \A m \in S : n <= m
         IN k \in S /\ \A m \in S : k <= m
<1> DEFINE less == OpToRel(<, Nat)
<1>1. \A v, w \in Nat : <<w, v>> \notin less => v <= w
  BY DEF OpToRel
<1>2. IsWellFoundedOn(less, Nat)
  BY NatLessThanWellFounded, Zenon
<1> HIDE DEF less
<1>3. \E v \in S : \A w \in S : <<w, v>> \notin less
  BY <1>2, WFMin
<1>4. \E v \in S : \A w \in S : v <= w
  BY <1>1, <1>3
<1> QED  BY <1>4

LEMMA SeenRows ==
  ASSUME db \in Tables, run # NoRun => run.mine \in Tables, NEW d \in Tables, NEW h \in Habits,
         NEW in \in SUBSET Conversations, NEW safe \in BOOLEAN,
         in # {} /\ OpenRows(d, h) = {} => NextRow(d, h) <= MaxRows
  PROVE  LET r == Seen(d, h, in, safe)
         IN /\ r \in Rows /\ DOMAIN d.mistake[h] \subseteq DOMAIN r
            /\ \A n \in DOMAIN r : r[n].status = "active" =>
                  n \in DOMAIN d.mistake[h] /\ d.mistake[h][n].status = "active"
<1> DEFINE rows == d.mistake[h]
           r == Seen(d, h, in, safe)
           open == OpenRows(d, h)
<1>1. rows \in Rows /\ DOMAIN rows \subseteq 1 .. MaxRows /\ \A n \in DOMAIN rows : rows[n] \in Mistake
  BY TablesShape, RowsShape
<1>2. CASE in = {}
  <2>1. r = rows
    BY <1>2 DEF Seen
  <2> QED  BY <1>1, <2>1
<1>3. CASE in # {} /\ open # {}
  <2> DEFINE k == CHOOSE n \in open : \A m \in open : n <= m
  <2>1. open \subseteq DOMAIN rows /\ open \subseteq Nat
    BY <1>1, LearningAssumption DEF OpenRows
  <2>2. k \in DOMAIN rows
    BY <1>3, <2>1, First
  <2>3. r = [rows EXCEPT ![k].seen = @ \cup in]
    BY <1>3 DEF Seen
  <2> HIDE DEF k, r, rows
  <2>4. rows[k] \in Mistake
    BY <1>1, <2>2
  <2>5. [rows[k] EXCEPT !.seen = @ \cup in] \in Mistake
        /\ [rows[k] EXCEPT !.seen = @ \cup in].status = rows[k].status
    BY <2>4 DEF Mistake
  <2>6. rows \in [DOMAIN rows -> Mistake]
    <3>1. PICK D \in SUBSET (1 .. MaxRows) : rows \in [D -> Mistake]
      BY <1>1 DEF Rows
    <3> QED  BY <3>1
  <2>7. r \in [DOMAIN rows -> Mistake] /\ \A n \in DOMAIN rows : r[n].status = rows[n].status
    BY <2>2, <2>3, <2>5, <2>6
  <2>8. r \in Rows /\ DOMAIN r = DOMAIN rows
    BY <1>1, <2>7 DEF Rows
  <2> QED  BY <2>7, <2>8 DEF r, rows
<1>4. CASE in # {} /\ open = {}
  <2> DEFINE D == DOMAIN rows \cup {NextRow(d, h)}
             new == [status |-> "detected", seen |-> in, safe |-> h \in Checked \/ safe]
  <2>1. r = [n \in D |-> IF n \in DOMAIN rows THEN rows[n] ELSE new]
    BY <1>4 DEF Seen
  <2>2. new \in Mistake /\ new.status = "detected"
    BY DEF Mistake
  <2>3. D \subseteq 1 .. MaxRows
    BY <1>1, <1>4, Numbering, LearningAssumption
  <2> HIDE DEF D, new, r
  <2>4. r \in [D -> Mistake]
    BY <1>1, <2>1, <2>2
  <2>5. r \in Rows /\ DOMAIN r = D
    BY <2>3, <2>4 DEF Rows
  <2>6. DOMAIN rows \subseteq D
    BY DEF D
  <2> QED  BY <2>1, <2>2, <2>5, <2>6 DEF r
<1> QED  BY <1>2, <1>3, <1>4

LEMMA PromotedAdds ==
  ASSUME db \in Tables, run # NoRun => run.mine \in Tables, NEW d, Sound(d),
         NEW found \in [Conversations -> SUBSET Habits], NEW safe \in BOOLEAN,
         RoomToPromote(d, found)
  PROVE  LET e == Promoted(d, found, safe)
         IN /\ Sound(e) /\ Adds(d, e) /\ e.strategy = d.strategy
            /\ e.cases = d.cases /\ e.judged = d.judged
<1> DEFINE in(h) == {c \in Conversations : h \in found[c]}
           rows == [h \in Habits |-> Seen(d, h, in(h), safe)]
           e == Promoted(d, found, safe)
<1>0. d \in Tables
  BY DEF Sound
<1>1. ASSUME NEW h \in Habits
      PROVE  /\ rows[h] \in Rows /\ DOMAIN d.mistake[h] \subseteq DOMAIN rows[h]
             /\ \A n \in DOMAIN rows[h] : rows[h][n].status = "active" =>
                   n \in DOMAIN d.mistake[h] /\ d.mistake[h][n].status = "active"
  <2> DEFINE hit == {c \in Conversations : h \in found[c]}
             r == Seen(d, h, hit, safe)
  <2>1. hit # {} /\ OpenRows(d, h) = {} => NextRow(d, h) <= MaxRows
    BY DEF RoomToPromote
  <2>2. hit \in SUBSET Conversations /\ rows[h] = r
    OBVIOUS
  <2> HIDE DEF rows, hit
  <2>3. /\ r \in Rows /\ DOMAIN d.mistake[h] \subseteq DOMAIN r
        /\ \A n \in DOMAIN r : r[n].status = "active" =>
              n \in DOMAIN d.mistake[h] /\ d.mistake[h][n].status = "active"
    BY <1>0, <2>1, <2>2, SeenRows
  <2> QED  BY <2>2, <2>3
<1>2. e = [d EXCEPT !.mistake = rows]
  BY PromotedRows
<1>4. rows = [h \in Habits |-> rows[h]]
  OBVIOUS
<1> HIDE DEF rows, e
<1>3. rows \in [Habits -> Rows]
  BY <1>1, <1>4
<1>5. /\ e \in Tables /\ e.mistake = rows
      /\ e.judged = d.judged /\ e.cases = d.cases /\ e.strategy = d.strategy
  BY <1>0, <1>2, <1>3, WithRows
<1>6. Sound(e) /\ Used(e) = Used(d)
  BY <1>5, SameStrategies
<1>7. Adds(d, e)
  BY <1>1, <1>5, <1>6 DEF Adds, Follows, NoneClosed
<1> QED  BY <1>5, <1>6, <1>7 DEF e

LEMMA RecordedAdds ==
  ASSUME db \in Tables, run # NoRun => run.mine \in Tables,
         shows \in [Conversations -> SUBSET Habits], NEW d, Sound(d),
         NEW cs \in SUBSET Conversations, RoomToPromote(d, Findings(cs))
  PROVE  LET e == Recorded(d, cs)
         IN /\ Sound(e) /\ Adds(d, e) /\ e.strategy = d.strategy
            /\ e.cases = d.cases /\ e.judged = d.judged \cup cs
<1> DEFINE j == [d EXCEPT !.judged = @ \cup cs]
           e == Promoted(j, Findings(cs), TRUE)
<1>1. d \in Tables
  BY DEF Sound
<1>2. /\ j \in Tables /\ j.mistake = d.mistake /\ j.strategy = d.strategy
      /\ j.cases = d.cases /\ j.judged = d.judged \cup cs
  BY <1>1 DEF Tables
<1> HIDE DEF j
<1>3. Sound(j) /\ Used(j) = Used(d)
  BY <1>2, SameStrategies
<1>4. Adds(d, j)
  BY <1>2, <1>3 DEF Adds, Follows, NoneClosed
<1>5. RoomToPromote(j, Findings(cs))
  BY <1>2 DEF RoomToPromote, OpenRows, NextRow, Taken
<1>6. Findings(cs) \in [Conversations -> SUBSET Habits]
  BY DEF Findings, Habits
<1>7. /\ Sound(e) /\ Adds(j, e) /\ e.strategy = j.strategy
      /\ e.cases = j.cases /\ e.judged = j.judged
  BY <1>3, <1>5, <1>6, PromotedAdds
<1> HIDE DEF e
<1>8. Adds(d, e)
  BY <1>4, <1>7, AddsOn
<1> QED  BY <1>2, <1>7, <1>8 DEF Recorded, e, j

LEMMA CapturedAdds ==
  ASSUME NEW d, Sound(d), NEW cs \in SUBSET Conversations
  PROVE  LET e == Captured(d, cs)
         IN /\ Sound(e) /\ Adds(d, e) /\ e.strategy = d.strategy
            /\ e.judged = d.judged /\ e.mistake = d.mistake
<1> DEFINE e == Captured(d, cs)
<1>1. d \in Tables
  BY DEF Sound
<1>2. {p \in cs \X Checked : p[2] \in shows[p[1]]} \subseteq Conversations \X Checked
  OBVIOUS
<1>3. /\ e \in Tables /\ e.mistake = d.mistake /\ e.strategy = d.strategy /\ e.judged = d.judged
  BY <1>1, <1>2 DEF Captured, Tables
<1> HIDE DEF e
<1>4. Sound(e) /\ Used(e) = Used(d)
  BY <1>3, SameStrategies
<1>5. Adds(d, e)
  BY <1>3, <1>4 DEF Adds, Follows, NoneClosed
<1> QED  BY <1>3, <1>4, <1>5 DEF e

-----------------------------------------------------------------------------
(* Proposing *)

\* Tables with one more version, which is written where there was none.
LEMMA OneMore ==
  ASSUME NEW d, Sound(d), NEW k \in 0 .. MaxVersions, Used(d) = 1 .. k, k < MaxVersions,
         NEW s \in Strategy, NEW e, e = With(d, k + 1, s),
         s.status = "active" => InStatus(d, "active") = {},
         \A p \in s.from : Teaches(s, p[1])
  PROVE  /\ Sound(e) /\ Adds(d, e) /\ e.strategy[k + 1] = s /\ k + 1 \in Used(e)
         /\ e.mistake = d.mistake /\ e.judged = d.judged /\ e.cases = d.cases
         /\ \A v \in Versions : v # k + 1 => e.strategy[v] = d.strategy[v]
<1>1. d \in Tables /\ d.strategy \in [Versions -> Strategy \cup {NoStrategy}]
  BY TablesShape DEF Sound
<1>2. k \in Nat /\ k + 1 \in Versions /\ k + 1 \notin Used(d) /\ k + 1 \in 0 .. MaxVersions
  BY LearningAssumption DEF Versions
<1>3. s # NoStrategy
  BY DEF Strategy, NoStrategy
<1>4. /\ e \in Tables /\ e.mistake = d.mistake /\ e.judged = d.judged /\ e.cases = d.cases
      /\ e.strategy = [d.strategy EXCEPT ![k + 1] = s]
  BY <1>1, <1>2 DEF With, Tables
<1>5. e.strategy[k + 1] = s /\ \A v \in Versions : v # k + 1 => e.strategy[v] = d.strategy[v]
  BY <1>1, <1>2, <1>4
<1>6. Used(e) = Used(d) \cup {k + 1}
  BY <1>2, <1>3, <1>5 DEF Used
<1>7. Numbered(e)
  <2>1. (1 .. k) \cup {k + 1} = 1 .. (k + 1)
    BY <1>2
  <2> QED  BY <1>2, <1>6, <2>1 DEF Numbered
<1>8. OneServes(e)
  <2>1. \A v \in InStatus(e, "active") : v # k + 1 => v \in InStatus(d, "active")
    BY <1>5, <1>6 DEF InStatus, Used
  <2>2. k + 1 \in InStatus(e, "active") => InStatus(d, "active") = {}
    BY <1>5 DEF InStatus
  <2> QED  BY <2>1, <2>2 DEF Sound, OneServes
<1>9. Taught(e)
  BY <1>5 DEF Sound, Taught, Teaches
<1>10. Follows(d, e)
  <2>1. \A v \in Used(d) : e.strategy[v] = d.strategy[v]
    BY <1>2, <1>5 DEF Used
  <2> QED  BY <1>4, <1>6, <2>1 DEF Follows
<1>11. NoneClosed(d, e)
  BY <1>4 DEF NoneClosed
<1> QED  BY <1>4, <1>5, <1>6, <1>7, <1>8, <1>9, <1>10, <1>11 DEF Sound, Adds

LEMMA BaselineAdds ==
  ASSUME NEW d, Sound(d)
  PROVE  LET b == WithBaseline(d)
         IN /\ Sound(b) /\ Adds(d, b) /\ Baseline \in Used(b)
            /\ b.mistake = d.mistake /\ b.judged = d.judged /\ b.cases = d.cases
<1> DEFINE first == [status |-> "active", lessons |-> {}, from |-> {}, parent |-> 0, replay |-> "none"]
           b == WithBaseline(d)
<1>1. CASE d.strategy[Baseline] # NoStrategy
  <2>1. b = d
    BY <1>1 DEF WithBaseline
  <2>2. Adds(d, d)
    BY DEF Adds, Follows, NoneClosed
  <2> QED  BY <1>1, <2>1, <2>2, Numbers DEF Used
<1>2. CASE d.strategy[Baseline] = NoStrategy
  <2>1. b = With(d, 0 + 1, first)
    BY <1>2 DEF WithBaseline, With, Baseline
  <2>2. first \in Strategy /\ first.from = {}
    BY DEF Strategy
  <2>3. PICK k \in 0 .. MaxVersions : Used(d) = 1 .. k
    BY DEF Sound, Numbered
  <2>4. k = 0
    BY <1>2, <2>3, LearningAssumption DEF Used, Baseline
  <2>5. Used(d) = 1 .. 0 /\ 0 \in 0 .. MaxVersions /\ 0 < MaxVersions /\ InStatus(d, "active") = {}
    BY <2>3, <2>4, LearningAssumption DEF InStatus
  <2> HIDE DEF first, b
  <2>6. /\ Sound(b) /\ Adds(d, b) /\ 0 + 1 \in Used(b)
        /\ b.mistake = d.mistake /\ b.judged = d.judged /\ b.cases = d.cases
    BY <2>1, <2>2, <2>5, OneMore
  <2> QED  BY <2>6 DEF b, Baseline
<1> QED  BY <1>1, <1>2

\* Among the mistakes that can be taught there is one seen most often.
LEMMA MostSeen ==
  ASSUME NEW d \in Tables, NEW h \in Habits, Teachable(d, h) # {}
  PROVE  (CHOOSE n \in Teachable(d, h) : \A m \in Teachable(d, h) :
             \/ Cardinality(d.mistake[h][n].seen) > Cardinality(d.mistake[h][m].seen)
             \/ /\ Cardinality(d.mistake[h][n].seen) = Cardinality(d.mistake[h][m].seen)
                /\ n <= m) \in 1 .. MaxRows
<1> DEFINE T == Teachable(d, h)
           size(n) == Cardinality(d.mistake[h][n].seen)
           all == Cardinality(Conversations)
<1>1. all \in Nat /\ IsFiniteSet(Conversations)
  BY LearningAssumption, FS_CardinalityType
<1>2. T \subseteq 1 .. MaxRows /\ T \subseteq Nat /\ \A n \in T : d.mistake[h][n] \in Mistake
  BY TablesShape, RowsShape, LearningAssumption DEF Teachable, OpenRows
<1>3. \A n \in T : size(n) \in Nat /\ size(n) <= all
  <2>1. \A n \in T : d.mistake[h][n].seen \subseteq Conversations
    BY <1>2 DEF Mistake
  <2> QED  BY <1>1, <2>1, FS_Subset, FS_CardinalityType
<1> DEFINE gaps == {all - size(n) : n \in T}
           least == CHOOSE g \in gaps : \A x \in gaps : g <= x
<1> HIDE DEF T, size, all
<1>4. gaps \subseteq Nat /\ gaps # {}
  BY <1>1, <1>3 DEF T
<1>5. least \in gaps /\ \A x \in gaps : least <= x
  <2> HIDE DEF gaps
  <2> QED  BY <1>4, First
<1> HIDE DEF least
<1> DEFINE best == {n \in T : all - size(n) = least}
           k == CHOOSE n \in best : \A m \in best : n <= m
<1>6. best \subseteq Nat /\ best # {} /\ best \subseteq T
  BY <1>2, <1>5
<1>7. k \in best /\ \A m \in best : k <= m
  <2> HIDE DEF best
  <2> QED  BY <1>6, First
<1> HIDE DEF k
<1>8. ASSUME NEW m \in T
      PROVE  size(k) > size(m) \/ (size(k) = size(m) /\ k <= m)
  <2>1. size(k) \in Nat /\ size(m) \in Nat /\ all - size(k) <= all - size(m)
    BY <1>3, <1>5, <1>6, <1>7
  <2>2. size(k) >= size(m)
    BY <1>1, <2>1
  <2>3. size(k) = size(m) => m \in best
    BY <1>7
  <2> QED  BY <1>7, <2>1, <2>2, <2>3
<1>9. k \in T
  BY <1>6, <1>7
<1>10. \E n \in T : \A m \in T : size(n) > size(m) \/ (size(n) = size(m) /\ n <= m)
  BY <1>8, <1>9
<1>11. (CHOOSE n \in T : \A m \in T : size(n) > size(m) \/ (size(n) = size(m) /\ n <= m)) \in T
  BY <1>10
<1> QED  BY <1>2, <1>11, Zenon DEF T, size

\* Every habit that can be taught has its lesson among those that are proposed.
LEMMA LessonsOf ==
  ASSUME NEW d, Sound(d)
  PROVE  /\ Merged(d) \in SUBSET Lessons
         /\ \A h \in Habits : Teachable(d, h) # {} => \E l \in Merged(d) : l[1] = h
<1>1. d \in Tables /\ d.strategy \in [Versions -> Strategy \cup {NoStrategy}]
  BY TablesShape DEF Sound
<1> DEFINE n(h) == CHOOSE n \in Teachable(d, h) : \A m \in Teachable(d, h) :
                      \/ Cardinality(d.mistake[h][n].seen) > Cardinality(d.mistake[h][m].seen)
                      \/ /\ Cardinality(d.mistake[h][n].seen) = Cardinality(d.mistake[h][m].seen)
                         /\ n <= m
           teaching == {h \in Habits : Teachable(d, h) # {}}
<1>2. LessonsFrom(d) = {LessonOf(h, n(h)) : h \in teaching}
  BY Zenon DEF LessonsFrom
<1>3. \A h \in teaching : n(h) \in 1 .. MaxRows
  <2>1. SUFFICES ASSUME NEW h \in Habits, Teachable(d, h) # {} PROVE n(h) \in 1 .. MaxRows
    OBVIOUS
  <2> QED  BY <1>1, <2>1, MostSeen
<1> HIDE DEF n
<1>4. \A h \in teaching : LessonOf(h, n(h)) \in Lessons /\ LessonOf(h, n(h))[1] = h
  BY <1>3 DEF LessonOf, Lessons, Habits
<1>5. LessonsFrom(d) \subseteq Lessons
  BY <1>2, <1>4
<1>6. ActiveLessons(d) \subseteq Lessons
  <2>1. CASE Serving(d) = 0
    BY <2>1 DEF ActiveLessons
  <2>2. CASE Serving(d) # 0
    <3>1. Serving(d) \in Used(d)
      BY <2>2 DEF Serving, InStatus
    <3>2. d.strategy[Serving(d)] \in Strategy
      BY <1>1, <3>1 DEF Used
    <3> QED  BY <2>2, <3>2 DEF ActiveLessons, Strategy
  <2> QED  BY <2>1, <2>2
<1>7. \A h \in teaching : \E l \in LessonsFrom(d) : l[1] = h
  BY <1>2, <1>4
<1> QED  BY <1>5, <1>6, <1>7 DEF Merged

LEMMA ProposalAdds ==
  ASSUME NEW d, Sound(d), NEW reordered, RoomToPropose(d, reordered)
  PROVE  LET p == Proposal(d, reordered)
         IN /\ Sound(p.d) /\ Adds(d, p.d) /\ p.d.cases = d.cases /\ p.d.judged = d.judged
            /\ p.v # 0 => p.v \in Used(p.d)
            /\ \A h \in Habits : Teachable(p.d, h) # {} =>
                  \E v \in InStatus(p.d, "candidate") \cup InStatus(p.d, "active") :
                      Teaches(p.d.strategy[v], h)
<1> DEFINE b == WithBaseline(d)
           p == Proposal(d, reordered)
<1>1. /\ Sound(b) /\ Adds(d, b) /\ Baseline \in Used(b)
      /\ b.mistake = d.mistake /\ b.judged = d.judged /\ b.cases = d.cases
  BY BaselineAdds
<1>2. /\ Merged(b) \in SUBSET Lessons
      /\ \A h \in Habits : Teachable(b, h) # {} => \E l \in Merged(b) : l[1] = h
  BY <1>1, LessonsOf
<1>3. p.v # 0 => p.v \in Used(p.d)
  BY SoundIsFormed, ProposalGrows
<1>4. CASE Merged(b) = ActiveLessons(b)
  <2>1. p = [d |-> b, v |-> 0]
    BY <1>4 DEF Proposal
  <2>2. ASSUME NEW h \in Habits, Teachable(b, h) # {}
        PROVE  \E v \in InStatus(b, "active") : Teaches(b.strategy[v], h)
    <3>1. PICK l \in ActiveLessons(b) : l[1] = h
      BY <1>2, <1>4, <2>2
    <3>2. Serving(b) # 0 /\ l \in b.strategy[Serving(b)].lessons
      BY <3>1 DEF ActiveLessons
    <3>3. Serving(b) \in InStatus(b, "active")
      BY <3>2 DEF Serving
    <3> QED  BY <3>1, <3>2, <3>3 DEF Teaches
  <2> HIDE DEF b, p
  <2> QED  BY <1>1, <1>3, <2>1, <2>2 DEF p
<1>5. CASE Merged(b) # ActiveLessons(b) /\ Waiting(b, Merged(b)) # {} /\ ~reordered
  <2>1. p.d = b
    BY <1>5 DEF Proposal
  <2>2. PICK w \in InStatus(b, "candidate") : b.strategy[w].lessons = Merged(b)
    BY <1>5 DEF Waiting
  <2>3. \A h \in Habits : Teachable(b, h) # {} => Teaches(b.strategy[w], h)
    BY <1>2, <2>2 DEF Teaches
  <2> HIDE DEF b, p
  <2> QED  BY <1>1, <1>3, <2>1, <2>2, <2>3 DEF p
<1>6. CASE Merged(b) # ActiveLessons(b) /\ ~(Waiting(b, Merged(b)) # {} /\ ~reordered)
  <2> DEFINE next == Cardinality(Used(b)) + 1
             new == [status |-> "candidate", lessons |-> Merged(b), from |-> Corrects(b),
                     parent |-> Serving(b), replay |-> "none"]
             e == With(b, next, new)
  <2>1. p = [d |-> e, v |-> next]
    BY <1>6 DEF Proposal, With
  <2>2. PICK k \in 0 .. MaxVersions : Used(b) = 1 .. k
    BY <1>1 DEF Sound, Numbered
  <2>3. next = k + 1 /\ k < MaxVersions
    <3>1. k \in Int /\ 1 \in Int /\ k >= 0
      BY LearningAssumption
    <3>2. Cardinality(1 .. k) = IF 1 > k THEN 0 ELSE k - 1 + 1
      BY <3>1, FS_Interval
    <3>3. Cardinality(Used(b)) = k
      BY <2>2, <3>1, <3>2
    <3> QED  BY <3>3 DEF RoomToPropose
  <2>4. new \in Strategy /\ new.status = "candidate" /\ new.lessons = Merged(b) /\ new.from = Corrects(b)
    <3>1. Corrects(b) \in SUBSET (Habits \X (1 .. MaxRows))
      BY DEF Corrects
    <3>2. Serving(b) \in Versions \cup {0}
      BY DEF Serving, InStatus, Used
    <3> HIDE DEF b
    <3> QED  BY <1>2, <3>1, <3>2 DEF Strategy
  <2>5. \A h \in Habits : Teachable(b, h) # {} => Teaches(new, h)
    BY <1>2, <2>4 DEF Teaches
  <2>6. \A q \in new.from : Teaches(new, q[1])
    BY <2>4, <2>5 DEF Corrects
  <2> HIDE DEF b, p, new, next, e
  <2>7. e = With(b, k + 1, new)
    BY <2>3 DEF e
  <2>8. /\ Sound(e) /\ Adds(b, e) /\ e.strategy[k + 1] = new /\ k + 1 \in Used(e)
        /\ e.mistake = b.mistake /\ e.judged = b.judged /\ e.cases = b.cases
    BY <1>1, <2>2, <2>3, <2>4, <2>6, <2>7, OneMore
  <2>9. p.d = e
    BY <2>1
  <2>10. Adds(d, e)
    BY <1>1, <2>8, AddsOn
  <2>11. k + 1 \in InStatus(e, "candidate")
    BY <2>4, <2>8 DEF InStatus
  <2>12. \A h \in Habits : Teachable(e, h) = Teachable(b, h)
    BY <2>8 DEF Teachable, OpenRows
  <2> QED  BY <1>1, <1>3, <2>5, <2>8, <2>9, <2>10, <2>11, <2>12 DEF p
<1> QED  BY <1>4, <1>5, <1>6

-----------------------------------------------------------------------------
(* Sessions beside the run *)

\* What another session commits is set beside what the run has written: whoever would
\* add a version waits while the run has one.
LEMMA Commits2 ==
  ASSUME Kept, NEW e, Commit(e), Sound(e), Follows(db, e), UNCHANGED <<run, proven>>,
         \A h \in Habits : \A n \in DOMAIN e.mistake[h] :
            e.mistake[h][n].status = "active" =>
                \E v \in served \cup InStatus(e, "active") : Teaches(e.strategy[v], h),
         shows' \in [Conversations -> SUBSET Habits], ended' \subseteq Conversations
  PROVE  Kept'
<1>1. db' = e /\ served' = served \cup InStatus(e, "active") /\ ~Waits(e)
  BY DEF Commit
<1>2. Sound(db)'
  BY <1>1 DEF Sound, Numbered, OneServes, Taught, Used, InStatus, Teaches
<1>3. Used(db)' = Used(e) /\ Used(db) \subseteq Used(e)
  BY <1>1 DEF Used, Follows
<1>4. (served \cup proven)' \subseteq Used(db)'
  BY <1>1, <1>3 DEF Kept, InStatus
<1>5. Told(db)'
  BY <1>1 DEF Told, Teaches
<1>6. Aside'
  <2>1. SUFFICES ASSUME run # NoRun PROVE Aside'
    BY DEF Aside
  <2>2. Sound(run.mine)' /\ Sound(run.base)'
    BY <2>1 DEF Kept, Aside, Sound, Numbered, OneServes, Taught, Used, InStatus, Teaches
  <2>3. Told(run.mine)'
    <3>1. \A v \in served : db'.strategy[v].lessons = db.strategy[v].lessons
      BY <1>1 DEF Kept, Follows
    <3>2. \A h : \A v \in served : Teaches(db.strategy[v], h) => Teaches(db'.strategy[v], h)
      BY <3>1 DEF Teaches
    <3> QED  BY <1>1, <2>1, <3>2 DEF Kept, Aside, Told, Teaches
  <2>4. (NewVersions(run.base, run.mine) # {} => Used(db) = Used(run.base))'
    <3>1. SUFFICES ASSUME NewVersions(run.base, run.mine) # {} PROVE Used(e) = Used(run.base)
      BY <1>3 DEF NewVersions, Used
    <3>2. Used(db) = Used(run.base) /\ NewVersions(db, e) \cap NewVersions(run.base, run.mine) = {}
      BY <1>1, <2>1, <3>1 DEF Kept, Aside, Waits
    <3>3. PICK j \in 0 .. MaxVersions : Used(run.base) = 1 .. j
      BY <2>1 DEF Kept, Aside, Sound, Numbered
    <3>4. PICK m \in 0 .. MaxVersions : Used(run.mine) = 1 .. m
      BY <2>1 DEF Kept, Aside, Sound, Numbered
    <3>5. PICK k \in 0 .. MaxVersions : Used(e) = 1 .. k
      BY DEF Sound, Numbered
    <3>6. j + 1 \in NewVersions(run.base, run.mine)
      BY <3>1, <3>3, <3>4, LearningAssumption DEF NewVersions
    <3>7. j + 1 \notin Used(e)
      BY <3>2, <3>3, <3>6, LearningAssumption DEF NewVersions
    <3>8. k <= j
      BY <3>5, <3>7, LearningAssumption
    <3>9. 1 .. k \subseteq 1 .. j
      BY <3>8, LearningAssumption
    <3> QED  BY <1>3, <3>2, <3>3, <3>5, <3>9
  <2> QED  BY <1>3, <2>1, <2>2, <2>3, <2>4 DEF Kept, Aside, Used
<1> QED  BY <1>2, <1>4, <1>5, <1>6 DEF Kept

LEMMA CommitsAdded ==
  ASSUME Kept, NEW e, Commit(e), Sound(e), Adds(db, e), UNCHANGED <<run, proven, shows, ended>>
  PROVE  Kept'
<1>1. ASSUME NEW h \in Habits, NEW n \in DOMAIN e.mistake[h], e.mistake[h][n].status = "active"
      PROVE  \E v \in served \cup InStatus(e, "active") : Teaches(e.strategy[v], h)
  <2>1. n \in DOMAIN db.mistake[h] /\ db.mistake[h][n].status = "active"
    BY <1>1 DEF Adds, NoneClosed
  <2>2. PICK v \in served : Teaches(db.strategy[v], h)
    BY <2>1 DEF Kept, Told
  <2>3. e.strategy[v].lessons = db.strategy[v].lessons
    BY DEF Kept, Adds, Follows
  <2> QED  BY <2>2, <2>3 DEF Teaches
<1> QED  BY <1>1, Commits2 DEF Kept, Adds

LEMMA EvaluatedAdds ==
  ASSUME Kept, RoomToPromote(db, Findings(Conversations))
  PROVE  Sound(Evaluated) /\ Adds(db, Evaluated)
<1> DEFINE r == Recorded(db, Conversations)
<1>1. db \in Tables /\ (run # NoRun => run.mine \in Tables)
      /\ shows \in [Conversations -> SUBSET Habits] /\ Sound(db)
  BY DEF Kept, Aside, Sound
<1>2. Sound(r) /\ Adds(db, r)
  BY <1>1, RecordedAdds
<1> HIDE DEF r
<1>3. Sound(Captured(r, Conversations)) /\ Adds(r, Captured(r, Conversations))
  BY <1>2, CapturedAdds
<1>4. Adds(db, Captured(r, Conversations))
  BY <1>2, <1>3, AddsOn
<1> QED  BY <1>3, <1>4 DEF Evaluated, r

LEMMA SweepAdds ==
  ASSUME Kept, NEW read \in [Conversations -> SUBSET Reviewed], NEW safe \in BOOLEAN,
         NEW reordered, Sweep(read, safe, reordered)
  PROVE  /\ Kept'
         /\ \A h \in Habits : Teachable(db', h) # {} =>
               \E v \in InStatus(db', "candidate") \cup InStatus(db', "active") :
                   Teaches(db'.strategy[v], h)
<1> DEFINE fresh == ended \ db.judged
           first == Recorded(db, fresh)
           judged == Captured(first, fresh)
           noticed == [c \in Conversations |-> IF c \in fresh THEN read[c] ELSE {}]
           told == Promoted(judged, noticed, safe)
           p == Proposal(told, reordered)
<1>1. /\ RoomToPromote(db, Findings(fresh)) /\ RoomToPromote(judged, noticed)
      /\ RoomToPropose(told, reordered) /\ Commit(p.d) /\ UNCHANGED <<shows, ended, run, proven>>
  BY DEF Sweep
<1>2. /\ db \in Tables /\ (run # NoRun => run.mine \in Tables) /\ Sound(db)
      /\ shows \in [Conversations -> SUBSET Habits] /\ fresh \in SUBSET Conversations
  BY DEF Kept, Aside, Sound
<1>3. noticed \in [Conversations -> SUBSET Habits]
  BY DEF Habits
<1> HIDE DEF fresh, noticed
<1>4. Sound(first) /\ Adds(db, first)
  BY <1>1, <1>2, RecordedAdds
<1> HIDE DEF first
<1>5. Sound(judged) /\ Adds(first, judged)
  BY <1>2, <1>4, CapturedAdds
<1> HIDE DEF judged
<1>6. Sound(told) /\ Adds(judged, told)
  BY <1>1, <1>2, <1>3, <1>5, PromotedAdds
<1> HIDE DEF told
<1>7. /\ Sound(p.d) /\ Adds(told, p.d)
      /\ \A h \in Habits : Teachable(p.d, h) # {} =>
            \E v \in InStatus(p.d, "candidate") \cup InStatus(p.d, "active") :
                Teaches(p.d.strategy[v], h)
  BY <1>1, <1>6, ProposalAdds
<1> HIDE DEF p
<1>8. Adds(db, p.d)
  BY <1>4, <1>5, <1>6, <1>7, AddsOn
<1>9. Kept'
  BY <1>1, <1>7, <1>8, CommitsAdded
<1>10. db' = p.d
  BY <1>1 DEF Commit
<1> QED  BY <1>7, <1>9, <1>10

LEMMA FinishAdds == ASSUME Kept, NEW c \in Conversations, Finish(c) PROVE Kept'
<1> DEFINE told == Recorded(db, {c})
           b == WithBaseline(told)
<1>1. /\ RoomToPromote(db, Findings({c})) /\ Commit(b) /\ UNCHANGED <<shows, ended, run, proven>>
  BY DEF Finish
<1>2. /\ db \in Tables /\ (run # NoRun => run.mine \in Tables) /\ Sound(db)
      /\ shows \in [Conversations -> SUBSET Habits]
  BY DEF Kept, Aside, Sound
<1>3. Sound(told) /\ Adds(db, told)
  BY <1>1, <1>2, RecordedAdds
<1> HIDE DEF told
<1>4. Sound(b) /\ Adds(told, b)
  BY <1>3, BaselineAdds
<1> HIDE DEF b
<1>5. Adds(db, b)
  BY <1>3, <1>4, AddsOn
<1> QED  BY <1>1, <1>4, <1>5, CommitsAdded

LEMMA ReportAdds == ASSUME Kept, Report PROVE Kept'
<1> DEFINE told == Recorded(db, Conversations)
<1>1. /\ RoomToPromote(db, Findings(Conversations)) /\ Commit(told)
      /\ UNCHANGED <<shows, ended, run, proven>>
  BY DEF Report
<1>2. /\ db \in Tables /\ (run # NoRun => run.mine \in Tables) /\ Sound(db)
      /\ shows \in [Conversations -> SUBSET Habits]
  BY DEF Kept, Aside, Sound
<1>3. Sound(told) /\ Adds(db, told)
  BY <1>1, <1>2, RecordedAdds
<1> HIDE DEF told
<1> QED  BY <1>1, <1>3, CommitsAdded

LEMMA ProposeAdds == ASSUME Kept, NEW reordered, Propose(reordered) PROVE Kept'
<1> DEFINE p == Proposal(Evaluated, reordered)
<1>1. /\ RoomToPromote(db, Findings(Conversations)) /\ RoomToPropose(Evaluated, reordered)
      /\ Commit(p.d) /\ UNCHANGED <<shows, ended, run, proven>>
  BY DEF Propose
<1>2. Sound(Evaluated) /\ Adds(db, Evaluated)
  BY <1>1, EvaluatedAdds
<1>3. Sound(p.d) /\ Adds(Evaluated, p.d)
  BY <1>1, <1>2, ProposalAdds
<1> HIDE DEF p
<1>4. Adds(db, p.d)
  BY <1>2, <1>3, AddsOn
<1> QED  BY <1>1, <1>3, <1>4, CommitsAdded

\* The run begins with what the others have committed.
LEMMA StartAdds == ASSUME Kept, NEW reordered, StartReplay(reordered) PROVE Kept'
<1> DEFINE p == Proposal(Evaluated, reordered)
<1>1. /\ RoomToPromote(db, Findings(Conversations)) /\ RoomToPropose(Evaluated, reordered)
      /\ p.v # 0 /\ run' = [mine |-> p.d, base |-> db, version |-> p.v, cases |-> p.d.cases]
      /\ UNCHANGED <<shows, ended, db, served, proven>>
  BY DEF StartReplay
<1>2. Sound(Evaluated) /\ Adds(db, Evaluated)
  BY <1>1, EvaluatedAdds
<1>3. Sound(p.d) /\ Adds(Evaluated, p.d) /\ p.v \in Used(p.d)
  BY <1>1, <1>2, ProposalAdds
<1> HIDE DEF p
<1>4. Adds(db, p.d)
  BY <1>2, <1>3, AddsOn
<1>5. run'.mine = p.d /\ run'.base = db /\ run'.version = p.v /\ run'.cases = p.d.cases
  BY <1>1
<1>6. Told(p.d)
  BY <1>4 DEF Kept, Told, Adds, NoneClosed
<1>7. Aside'
  <2>1. Sound(run.mine)' /\ Sound(run.base)'
    BY <1>1, <1>3, <1>5 DEF Kept, Sound, Numbered, OneServes, Taught, Used, InStatus, Teaches
  <2>2. Told(run.mine)'
    BY <1>1, <1>5, <1>6 DEF Told, Teaches
  <2>3. Used(run.mine)' = Used(p.d) /\ Used(run.base)' = Used(db) /\ Used(db)' = Used(db)
    BY <1>1, <1>5 DEF Used
  <2>4. Used(db) \subseteq Used(p.d)
        /\ \A h \in Habits : DOMAIN db.mistake[h] \subseteq DOMAIN p.d.mistake[h]
    BY <1>4 DEF Adds, Follows
  <2> QED  BY <1>3, <1>5, <2>1, <2>2, <2>3, <2>4 DEF Aside
<1>8. Sound(db)' /\ Told(db)' /\ Used(db)' = Used(db)
  BY <1>1 DEF Kept, Sound, Numbered, OneServes, Taught, Used, InStatus, Told, Teaches
<1> QED  BY <1>1, <1>7, <1>8 DEF Kept

-----------------------------------------------------------------------------
(* Putting in service *)

\* A version is said to be in service or not, and to have replayed; what it teaches is not touched.
LEMMA Restamped ==
  ASSUME NEW d, Sound(d), NEW e \in Tables, OneServes(e),
         \A v \in Versions : /\ e.strategy[v] = NoStrategy <=> d.strategy[v] = NoStrategy
                             /\ e.strategy[v].lessons = d.strategy[v].lessons
                             /\ e.strategy[v].from = d.strategy[v].from
  PROVE  Sound(e) /\ Used(e) = Used(d)
<1>1. Used(e) = Used(d)
  BY DEF Used
<1>2. Taught(e)
  BY DEF Sound, Taught, Teaches
<1> QED  BY <1>1, <1>2 DEF Sound, Numbered

LEMMA ServiceShape ==
  ASSUME NEW d, Sound(d), NEW v \in Used(d), NEW past, past \in {"superseded", "rolled_back"},
         NEW next, next = InService(d, v, past)
  PROVE  /\ next \in [Versions -> Strategy \cup {NoStrategy}]
         /\ \A w \in Versions : /\ next[w] = NoStrategy <=> d.strategy[w] = NoStrategy
                                /\ next[w].lessons = d.strategy[w].lessons
                                /\ next[w].from = d.strategy[w].from
                                /\ next[w].status = "active" <=> w = v
<1>0. d.strategy \in [Versions -> Strategy \cup {NoStrategy}]
  BY TablesShape DEF Sound
<1>1. ASSUME NEW w \in Versions
      PROVE  /\ next[w] \in Strategy \cup {NoStrategy}
             /\ next[w] = NoStrategy <=> d.strategy[w] = NoStrategy
             /\ next[w].lessons = d.strategy[w].lessons
             /\ next[w].from = d.strategy[w].from
             /\ next[w].status = "active" <=> w = v
  <2> DEFINE s == d.strategy[w]
  <2>1. NoStrategy \notin Strategy
    BY DEF NoStrategy, Strategy
  <2>2. CASE w = v
    <3>1. next[w] = [s EXCEPT !.status = "active"] /\ s \in Strategy
      BY <1>0, <2>2 DEF InService, Used
    <3> HIDE DEF s
    <3>2. /\ next[w] \in Strategy /\ next[w].lessons = s.lessons /\ next[w].from = s.from
          /\ next[w].status = "active"
      BY <3>1 DEF Strategy
    <3> QED  BY <2>1, <2>2, <3>1, <3>2 DEF s
  <2>3. CASE w # v /\ w \in InStatus(d, "active")
    <3>1. next[w] = [s EXCEPT !.status = past] /\ s \in Strategy
      BY <1>0, <2>3 DEF InService, InStatus, Used
    <3> HIDE DEF s
    <3>2. /\ next[w] \in Strategy /\ next[w].lessons = s.lessons /\ next[w].from = s.from
          /\ next[w].status = past
      BY <3>1 DEF Strategy
    <3> QED  BY <2>1, <2>3, <3>1, <3>2 DEF s
  <2>4. CASE w # v /\ w \notin InStatus(d, "active")
    <3>1. next[w] = s
      BY <2>4 DEF InService
    <3>2. s.status # "active"
      BY <2>4 DEF InStatus, Used, NoStrategy
    <3> QED  BY <1>0, <2>4, <3>1, <3>2
  <2> QED  BY <2>2, <2>3, <2>4
<1>2. next = [w \in Versions |-> next[w]]
  BY DEF InService
<1> QED  BY <1>1, <1>2

LEMMA ActivatedSound ==
  ASSUME NEW d, Sound(d), NEW v \in Used(d)
  PROVE  LET e == Activated(d, v)
         IN /\ Sound(e) /\ Follows(d, e) /\ InStatus(e, "active") = {v}
            /\ \A h \in Habits : \A n \in DOMAIN e.mistake[h] :
                  e.mistake[h][n].status = "active" =>
                     \/ n \in DOMAIN d.mistake[h] /\ d.mistake[h][n].status = "active"
                     \/ Teaches(e.strategy[v], h)
<1> DEFINE next == InService(d, v, "superseded")
           closed(h) == [n \in DOMAIN d.mistake[h] |->
                           IF <<h, n>> \in d.strategy[v].from
                           THEN [d.mistake[h][n] EXCEPT !.status = "active"] ELSE d.mistake[h][n]]
           rows == [h \in Habits |-> closed(h)]
           e == Activated(d, v)
<1>1. d \in Tables /\ v \in Versions
  BY DEF Sound, Used
<1>2. /\ next \in [Versions -> Strategy \cup {NoStrategy}]
      /\ \A w \in Versions : /\ next[w] = NoStrategy <=> d.strategy[w] = NoStrategy
                             /\ next[w].lessons = d.strategy[w].lessons
                             /\ next[w].from = d.strategy[w].from
                             /\ next[w].status = "active" <=> w = v
  BY ServiceShape
<1>3. ASSUME NEW h \in Habits
      PROVE  /\ closed(h) \in Rows /\ DOMAIN closed(h) = DOMAIN d.mistake[h]
             /\ \A n \in DOMAIN closed(h) : closed(h)[n].status = "active" =>
                   d.mistake[h][n].status = "active" \/ <<h, n>> \in d.strategy[v].from
  <2> DEFINE r == d.mistake[h]
             c == closed(h)
  <2>1. r \in Rows /\ DOMAIN r \subseteq 1 .. MaxRows /\ \A n \in DOMAIN r : r[n] \in Mistake
    BY <1>1, TablesShape, RowsShape
  <2>2. \A n \in DOMAIN r : c[n] \in Mistake
    <3>1. \A n \in DOMAIN r : [r[n] EXCEPT !.status = "active"] \in Mistake
      BY <2>1 DEF Mistake
    <3> QED  BY <2>1, <3>1
  <2>3. c = [n \in DOMAIN r |-> c[n]]
    OBVIOUS
  <2>4. \A n \in DOMAIN r : c[n].status = "active" => r[n].status = "active" \/ <<h, n>> \in d.strategy[v].from
    OBVIOUS
  <2> HIDE DEF c, r
  <2>5. c \in Rows
    BY <2>1, <2>2, <2>3, RowsMade
  <2> QED  BY <2>3, <2>4, <2>5 DEF c, r
<1>4. e = [[d EXCEPT !.strategy = next] EXCEPT !.mistake = rows]
  BY Zenon DEF Activated, InService
<1>5. rows = [h \in Habits |-> rows[h]] /\ \A h \in Habits : rows[h] = closed(h)
  OBVIOUS
<1> HIDE DEF next, closed, rows, e
<1>6. rows \in [Habits -> Rows]
  BY <1>3, <1>5
<1>7. e \in Tables /\ e.strategy = next /\ e.mistake = rows
  BY <1>1, <1>2, <1>4, <1>6 DEF Tables, Rows
<1>8. Used(e) = Used(d) /\ InStatus(e, "active") = {v}
  BY <1>1, <1>2, <1>7 DEF Used, InStatus
<1>9. OneServes(e)
  BY <1>8 DEF OneServes
<1>10. Sound(e)
  BY <1>2, <1>7, <1>9, Restamped
<1>11. Follows(d, e)
  <2>1. \A w \in Used(d) : e.strategy[w].lessons = d.strategy[w].lessons
    BY <1>2, <1>7 DEF Used
  <2> QED  BY <1>3, <1>5, <1>7, <1>8, <2>1 DEF Follows
<1>12. ASSUME NEW h \in Habits, NEW n \in DOMAIN e.mistake[h], e.mistake[h][n].status = "active"
       PROVE  \/ n \in DOMAIN d.mistake[h] /\ d.mistake[h][n].status = "active"
              \/ Teaches(e.strategy[v], h)
  <2>1. n \in DOMAIN d.mistake[h] /\ (d.mistake[h][n].status = "active" \/ <<h, n>> \in d.strategy[v].from)
    BY <1>3, <1>5, <1>7, <1>12
  <2>2. CASE <<h, n>> \in d.strategy[v].from
    <3>1. Teaches(d.strategy[v], <<h, n>>[1])
      BY <1>1, <2>2 DEF Sound, Taught
    <3> QED  BY <1>1, <1>2, <1>7, <3>1 DEF Teaches
  <2> QED  BY <2>1, <2>2
<1> QED  BY <1>8, <1>10, <1>11, <1>12 DEF e

LEMMA PromoteKeeps == ASSUME Kept, NEW v \in Versions, Promote(v) PROVE Kept'
<1> DEFINE e == Activated(db, v)
<1>1. /\ v \in Used(db) /\ Commit(e) /\ UNCHANGED <<shows, ended, run, proven>>
  BY DEF Promote, InStatus
<1>2. /\ Sound(e) /\ Follows(db, e) /\ InStatus(e, "active") = {v}
      /\ \A h \in Habits : \A n \in DOMAIN e.mistake[h] :
            e.mistake[h][n].status = "active" =>
               \/ n \in DOMAIN db.mistake[h] /\ db.mistake[h][n].status = "active"
               \/ Teaches(e.strategy[v], h)
  BY <1>1, ActivatedSound DEF Kept
<1> HIDE DEF e
<1>3. ASSUME NEW h \in Habits, NEW n \in DOMAIN e.mistake[h], e.mistake[h][n].status = "active"
      PROVE  \E w \in served \cup InStatus(e, "active") : Teaches(e.strategy[w], h)
  <2>1. CASE Teaches(e.strategy[v], h)
    BY <1>2, <2>1
  <2>2. CASE n \in DOMAIN db.mistake[h] /\ db.mistake[h][n].status = "active"
    <3>1. PICK w \in served : Teaches(db.strategy[w], h)
      BY <2>2 DEF Kept, Told
    <3>2. e.strategy[w].lessons = db.strategy[w].lessons
      BY <1>2 DEF Kept, Follows
    <3> QED  BY <3>1, <3>2 DEF Teaches
  <2> QED  BY <1>2, <1>3, <2>1, <2>2
<1> QED  BY <1>1, <1>2, <1>3, Commits2 DEF Kept

LEMMA RollbackKeeps == ASSUME Kept, NEW v \in Versions, Rollback(v) PROVE Kept'
<1> DEFINE next == InService(db, v, "rolled_back")
           e == WithAll(db, next)
<1>1. v \in Used(db) /\ Commit(e) /\ UNCHANGED <<shows, ended, run, proven>>
  <2>1. Commit(e)
    BY Zenon DEF Rollback, InService, WithAll
  <2> QED  BY <2>1 DEF Rollback
<1>2. /\ next \in [Versions -> Strategy \cup {NoStrategy}]
      /\ \A w \in Versions : /\ next[w] = NoStrategy <=> db.strategy[w] = NoStrategy
                             /\ next[w].lessons = db.strategy[w].lessons
                             /\ next[w].from = db.strategy[w].from
                             /\ next[w].status = "active" <=> w = v
  BY <1>1, ServiceShape DEF Kept
<1> HIDE DEF next
<1>3. e \in Tables /\ e.strategy = next /\ e.mistake = db.mistake
  BY <1>2 DEF Kept, Sound, WithAll, Tables
<1> HIDE DEF e
<1>4. OneServes(e)
  BY <1>2, <1>3 DEF OneServes, InStatus, Used
<1>5. Sound(e) /\ Used(e) = Used(db)
  BY <1>2, <1>3, <1>4, Restamped DEF Kept
<1>6. Adds(db, e)
  <2>1. \A w \in Used(db) : e.strategy[w].lessons = db.strategy[w].lessons
    BY <1>2, <1>3 DEF Used
  <2> QED  BY <1>3, <1>5, <2>1 DEF Adds, Follows, NoneClosed
<1> QED  BY <1>1, <1>5, <1>6, CommitsAdded

-----------------------------------------------------------------------------
(* The end of the run *)

\* What the run has written on top of what the others have: versions of its own only if
\* nobody else got one, so that they are still numbered and one still serves.
LEMMA TogetherStrategies ==
  ASSUME IInv, Kept, run # NoRun
  PROVE  /\ Together.strategy \in [Versions -> Strategy \cup {NoStrategy}]
         /\ Numbered(Together) /\ OneServes(Together) /\ Taught(Together)
         /\ \A v \in Used(db) : Together.strategy[v] = db.strategy[v]
         /\ Used(db) \subseteq Used(Together)
<1> DEFINE new == NewVersions(run.base, run.mine)
           t == Together
<1>1. \A v \in Versions : t.strategy[v] = IF v \in new THEN run.mine.strategy[v] ELSE db.strategy[v]
  BY DEF Together
<1>2. t.strategy = [v \in Versions |-> t.strategy[v]]
  BY DEF Together
<1>3. /\ Sound(db) /\ Sound(run.mine) /\ Sound(run.base) /\ Grown(run.base, run.mine)
      /\ Used(run.base) \subseteq Used(run.mine)
      /\ new # {} => Used(db) = Used(run.base)
  BY DEF Kept, Aside, IInv, Replaying
<1>4. \A v \in new : /\ v \in Versions /\ v \notin Used(run.base) /\ v \in Used(run.mine)
                     /\ run.mine.strategy[v].status = "active" => v = Baseline
  <2>1. \A v \in new : v \in Versions /\ v \notin Used(run.base) /\ v \in Used(run.mine)
    BY DEF NewVersions, Used
  <2>2. \A v \in new : run.mine.strategy[v] # run.base.strategy[v]
    BY <2>1 DEF Used
  <2> QED  BY <1>3, <2>1, <2>2 DEF Grown
<1>5. \A v \in new : Used(db) = Used(run.base) /\ v \notin Used(db)
  BY <1>3, <1>4
<1> HIDE DEF new, t
<1>6. t.strategy \in [Versions -> Strategy \cup {NoStrategy}]
  <2>1. /\ db.strategy \in [Versions -> Strategy \cup {NoStrategy}]
        /\ run.mine.strategy \in [Versions -> Strategy \cup {NoStrategy}]
    BY <1>3, TablesShape DEF Sound
  <2>2. \A v \in Versions : t.strategy[v] \in Strategy \cup {NoStrategy}
    BY <1>1, <2>1
  <2> QED  BY <1>2, <2>2
<1>7. \A v \in Used(db) : t.strategy[v] = db.strategy[v]
  BY <1>1, <1>5 DEF Used
<1>8. Used(t) = Used(db) \cup new
  BY <1>1, <1>4 DEF Used
<1>9. Numbered(t)
  <2>1. CASE new = {}
    BY <1>3, <1>8, <2>1 DEF Sound, Numbered
  <2>2. CASE new # {}
    <3>1. Used(run.mine) = Used(run.base) \cup new
      BY <1>3 DEF NewVersions, new
    <3>2. Used(t) = Used(run.mine)
      BY <1>3, <1>8, <2>2, <3>1
    <3> QED  BY <1>3, <3>2 DEF Sound, Numbered
  <2> QED  BY <2>1, <2>2
<1>10. OneServes(t)
  <2>1. ASSUME Baseline \in new PROVE Used(db) = {}
    <3>1. PICK j \in 0 .. MaxVersions : Used(run.base) = 1 .. j
      BY <1>3 DEF Sound, Numbered
    <3>2. Baseline \notin Used(run.base)
      BY <1>4, <2>1
    <3>3. j = 0
      BY <3>1, <3>2, LearningAssumption DEF Baseline
    <3> QED  BY <1>5, <2>1, <3>1, <3>3
  <2>2. \A v \in InStatus(t, "active") : v \in Used(db) \cup new
    BY <1>8 DEF InStatus
  <2>3. \A v \in InStatus(t, "active") \cap new : v = Baseline
    BY <1>1, <1>4 DEF InStatus
  <2>4. \A v \in InStatus(t, "active") \cap Used(db) : v \in InStatus(db, "active")
    BY <1>7 DEF InStatus
  <2>5. \A v, w \in InStatus(db, "active") : v = w
    BY <1>3 DEF Sound, OneServes
  <2> QED  BY <2>1, <2>2, <2>3, <2>4, <2>5 DEF OneServes
<1>11. Taught(t)
  BY <1>1, <1>3 DEF Sound, Taught, Teaches
<1> QED  BY <1>6, <1>7, <1>8, <1>9, <1>10, <1>11 DEF t

LEMMA TogetherKeeps ==
  ASSUME IInv, Kept, run # NoRun
  PROVE  /\ Sound(Together) /\ Follows(db, Together)
         /\ \A v \in Used(db) : Together.strategy[v] = db.strategy[v]
         /\ \A h \in Habits : \A n \in DOMAIN Together.mistake[h] :
               Together.mistake[h][n].status = "active" =>
                   \E v \in served : Teaches(Together.strategy[v], h)
<1> DEFINE t == Together
<1>1. /\ t.strategy \in [Versions -> Strategy \cup {NoStrategy}]
      /\ Numbered(t) /\ OneServes(t) /\ Taught(t)
      /\ \A v \in Used(db) : t.strategy[v] = db.strategy[v]
      /\ Used(db) \subseteq Used(t)
  BY TogetherStrategies
<1>2. db \in Tables /\ run.mine \in Tables /\ run.base \in Tables
      /\ Told(db) /\ Told(run.mine) /\ served \subseteq Used(db)
      /\ \A h \in Habits : DOMAIN run.base.mistake[h] \subseteq DOMAIN run.mine.mistake[h]
  BY DEF Kept, Aside, Sound
<1> DEFINE r(h) == t.mistake[h]
           b(h) == db.mistake[h]
           m(h) == run.mine.mistake[h]
<1>3. \A h \in Habits :
         /\ b(h) \in Rows /\ m(h) \in Rows
         /\ DOMAIN b(h) \subseteq 1 .. MaxRows /\ DOMAIN m(h) \subseteq 1 .. MaxRows
         /\ \A n \in DOMAIN b(h) : b(h)[n] \in Mistake
         /\ \A n \in DOMAIN m(h) : m(h)[n] \in Mistake
  BY <1>2, TablesShape, RowsShape
<1>4. /\ t = [judged |-> t.judged, cases |-> t.cases, mistake |-> t.mistake, strategy |-> t.strategy]
      /\ t.judged = db.judged \cup run.mine.judged /\ t.cases = db.cases \cup run.mine.cases
      /\ t.mistake = [h \in Habits |-> t.mistake[h]]
      /\ \A h \in Habits : t.mistake[h] =
           [n \in DOMAIN db.mistake[h] \cup DOMAIN run.mine.mistake[h] |->
              IF n \in DOMAIN db.mistake[h] /\ n \notin Changed(run.base, run.mine, h)
              THEN db.mistake[h][n] ELSE run.mine.mistake[h][n]]
  BY DEF Together
<1>5. \A h \in Habits :
         /\ r(h) = [n \in DOMAIN b(h) \cup DOMAIN m(h) |-> r(h)[n]]
         /\ DOMAIN r(h) = DOMAIN b(h) \cup DOMAIN m(h)
         /\ \A n \in DOMAIN r(h) : \/ n \in DOMAIN b(h) /\ r(h)[n] = b(h)[n]
                                   \/ n \in DOMAIN m(h) /\ r(h)[n] = m(h)[n]
  <2> SUFFICES ASSUME NEW h \in Habits
               PROVE  /\ r(h) = [n \in DOMAIN b(h) \cup DOMAIN m(h) |-> r(h)[n]]
                      /\ DOMAIN r(h) = DOMAIN b(h) \cup DOMAIN m(h)
                      /\ \A n \in DOMAIN r(h) : \/ n \in DOMAIN b(h) /\ r(h)[n] = b(h)[n]
                                                \/ n \in DOMAIN m(h) /\ r(h)[n] = m(h)[n]
    OBVIOUS
  <2>1. \A n \in Changed(run.base, run.mine, h) : n \in DOMAIN m(h)
    BY <1>2 DEF Changed
  <2>2. r(h) = [n \in DOMAIN b(h) \cup DOMAIN m(h) |->
                  IF n \in DOMAIN b(h) /\ n \notin Changed(run.base, run.mine, h)
                  THEN b(h)[n] ELSE m(h)[n]]
    BY <1>4
  <2> HIDE DEF r, b, m
  <2> QED  BY <2>1, <2>2
<1> HIDE DEF t, r, b, m
<1>6. \A h \in Habits : r(h) \in Rows
  <2> SUFFICES ASSUME NEW h \in Habits PROVE r(h) \in Rows
    OBVIOUS
  <2>1. \A n \in DOMAIN r(h) : r(h)[n] \in Mistake
    BY <1>3, <1>5
  <2>2. DOMAIN r(h) \subseteq 1 .. MaxRows /\ r(h) = [n \in DOMAIN r(h) |-> r(h)[n]]
    BY <1>3, <1>5
  <2> QED  BY <2>1, <2>2, RowsMade
<1>7. t \in Tables
  <2>1. t.mistake \in [Habits -> Rows]
    BY <1>4, <1>6 DEF r
  <2>2. t.judged \subseteq Conversations /\ t.cases \subseteq Conversations \X Checked
    BY <1>2, <1>4, TablesShape
  <2> QED  BY <1>1, <1>4, <2>1, <2>2 DEF Tables, Rows
<1>8. Follows(db, t)
  BY <1>1, <1>5 DEF Follows, r, b
<1>9. ASSUME NEW h \in Habits, NEW n \in DOMAIN t.mistake[h], t.mistake[h][n].status = "active"
      PROVE  \E v \in served : Teaches(t.strategy[v], h)
  <2>1. \E v \in served : Teaches(db.strategy[v], h)
    BY <1>2, <1>5, <1>9 DEF Told, r, b, m
  <2> QED  BY <1>1, <1>2, <2>1
<1> QED  BY <1>1, <1>7, <1>8, <1>9 DEF Sound, t

\* The verdict is said of the version that was replayed, and of no other thing.
LEMMA VerdictSound ==
  ASSUME NEW d, Sound(d), NEW v \in Used(d), NEW passed, NEW failed
  PROVE  LET e == ReplayRecorded(d, v, passed, failed)
         IN /\ Sound(e) /\ Used(e) = Used(d) /\ e.mistake = d.mistake
            /\ \A w \in Versions : e.strategy[w].lessons = d.strategy[w].lessons
<1> DEFINE verdict == IF failed # {} THEN "failed" ELSE IF passed # {} THEN "clean" ELSE "none"
           s == d.strategy[v]
           status == IF failed # {} THEN "rejected" ELSE s.status
           t == [s EXCEPT !.replay = verdict, !.status = status]
           next == [d.strategy EXCEPT ![v] = t]
           e == ReplayRecorded(d, v, passed, failed)
<1>1. d \in Tables /\ v \in Versions /\ d.strategy \in [Versions -> Strategy \cup {NoStrategy}]
  BY TablesShape DEF Sound, Used
<1>2. s \in Strategy
  BY <1>1 DEF Used
<1>3. /\ verdict \in {"none", "clean", "failed"}
      /\ status \in {"candidate", "active", "superseded", "rejected", "rolled_back"}
      /\ status = "active" => s.status = "active"
  BY <1>2 DEF Strategy
<1>4. e = [d EXCEPT !.strategy = next]
  BY Zenon DEF ReplayRecorded
<1>5. t \in Strategy /\ t.lessons = s.lessons /\ t.from = s.from /\ t.status = status
  <2> HIDE DEF verdict, status, s
  <2> QED  BY <1>2, <1>3 DEF Strategy
<1> HIDE DEF t, verdict, status
<1>6. /\ next \in [Versions -> Strategy \cup {NoStrategy}]
      /\ \A w \in Versions : next[w] = IF w = v THEN t ELSE d.strategy[w]
  BY <1>1, <1>5
<1> HIDE DEF next, e
<1>7. e \in Tables /\ e.strategy = next /\ e.mistake = d.mistake
  BY <1>1, <1>4, <1>6 DEF Tables
<1>8. NoStrategy \notin Strategy
  BY DEF NoStrategy, Strategy
<1>9. \A w \in Versions : /\ e.strategy[w] = NoStrategy <=> d.strategy[w] = NoStrategy
                          /\ e.strategy[w].lessons = d.strategy[w].lessons
                          /\ e.strategy[w].from = d.strategy[w].from
                          /\ e.strategy[w].status = "active" => d.strategy[w].status = "active"
  BY <1>2, <1>3, <1>5, <1>6, <1>7, <1>8
<1>10. OneServes(e)
  BY <1>9 DEF OneServes, InStatus, Used, Sound
<1> QED  BY <1>7, <1>9, <1>10, Restamped DEF e

LEMMA EndKeeps ==
  ASSUME IInv, Kept, run # NoRun, NEW passed, NEW failed, NEW activates,
         EndReplay(passed, failed, activates)
  PROVE  Kept'
<1> DEFINE v == run.version
           old == Together
           d == ReplayRecorded(old, v, passed, failed)
           live == Activated(d, v)
<1>1. /\ db' = (IF ~Conclusive(passed, failed) THEN old
                ELSE IF failed = {} /\ activates THEN live ELSE d)
      /\ proven' \subseteq proven \cup {v}
      /\ served' = served \cup InStatus(db', "active") /\ run' = NoRun
      /\ UNCHANGED <<shows, ended>>
  BY DEF EndReplay
<1>2. /\ Sound(old) /\ Follows(db, old) /\ v \in Used(old)
      /\ \A h \in Habits : \A n \in DOMAIN old.mistake[h] :
            old.mistake[h][n].status = "active" => \E w \in served : Teaches(old.strategy[w], h)
  BY TogetherKeeps, TogetherGrows
<1>3. /\ Sound(d) /\ Used(d) = Used(old) /\ d.mistake = old.mistake
      /\ \A w \in Versions : d.strategy[w].lessons = old.strategy[w].lessons
  BY <1>2, VerdictSound
<1>4. /\ Sound(live) /\ Follows(d, live) /\ InStatus(live, "active") = {v}
      /\ \A h \in Habits : \A n \in DOMAIN live.mistake[h] :
            live.mistake[h][n].status = "active" =>
               \/ n \in DOMAIN d.mistake[h] /\ d.mistake[h][n].status = "active"
               \/ Teaches(live.strategy[v], h)
  BY <1>2, <1>3, ActivatedSound
<1>5. served \cup proven \subseteq Used(db) /\ Used(db) \subseteq Used(old)
      /\ Used(old) \subseteq Versions
  BY <1>2 DEF Kept, Follows, Used
<1> HIDE DEF old, d, live, v
<1>6. /\ Sound(db') /\ Used(old) \subseteq Used(db')
      /\ \A w \in Used(old) : db'.strategy[w].lessons = old.strategy[w].lessons
  BY <1>1, <1>2, <1>3, <1>4, <1>5 DEF Follows
<1>7. ASSUME NEW h \in Habits, NEW n \in DOMAIN db'.mistake[h], db'.mistake[h][n].status = "active"
      PROVE  \E w \in served' : Teaches(db'.strategy[w], h)
  <2>1. CASE n \in DOMAIN old.mistake[h] /\ old.mistake[h][n].status = "active"
    <3>1. PICK w \in served : Teaches(old.strategy[w], h)
      BY <1>2, <2>1
    <3>2. w \in served' /\ db'.strategy[w].lessons = old.strategy[w].lessons
      BY <1>1, <1>5, <1>6, <3>1
    <3> QED  BY <3>1, <3>2 DEF Teaches
  <2>2. CASE db' = live /\ Teaches(live.strategy[v], h)
    BY <1>1, <1>4, <2>2
  <2> QED  BY <1>1, <1>3, <1>4, <1>7, <2>1, <2>2
<1>8. Sound(db)'
  BY <1>6 DEF Sound, Numbered, OneServes, Taught, Used, InStatus, Teaches
<1>9. Told(db)'
  BY <1>7 DEF Told, Teaches
<1>10. (served \cup proven)' \subseteq Used(db)'
  <2>1. Used(db)' = Used(db')
    BY DEF Used
  <2> QED  BY <1>1, <1>2, <1>5, <1>6, <2>1 DEF InStatus
<1> QED  BY <1>1, <1>8, <1>9, <1>10 DEF Kept, Aside

-----------------------------------------------------------------------------
(* The other theorems *)

LEMMA StartsKept == Init => Kept
<1> SUFFICES ASSUME Init PROVE Kept
  OBVIOUS
<1>1. \A v \in Versions : db.strategy[v] = NoStrategy
  BY DEF Init
<1>2. Used(db) = {} /\ InStatus(db, "active") = {}
  BY <1>1 DEF Used, InStatus
<1> DEFINE none == [n \in {} |-> {}]
<1>3. none \in Rows /\ DOMAIN none = {}
  <2>1. none = [n \in {} |-> none[n]] /\ DOMAIN none = {}
    OBVIOUS
  <2> HIDE DEF none
  <2>2. \A n \in {} : none[n] \in Mistake
    OBVIOUS
  <2> QED  BY <2>1, <2>2, RowsMade
<1>4. db = [judged |-> {}, cases |-> {}, mistake |-> [h \in Habits |-> none],
            strategy |-> [v \in Versions |-> NoStrategy]]
  BY DEF Init
<1> HIDE DEF none
<1>5. db \in Tables
  BY <1>3, <1>4 DEF Tables, Rows
<1>6. Numbered(db)
  <2>1. 0 \in 0 .. MaxVersions /\ 1 .. 0 = {}
    BY LearningAssumption
  <2> QED  BY <1>2, <2>1 DEF Numbered
<1>7. OneServes(db)
  BY <1>2 DEF OneServes
<1>8. Taught(db)
  BY <1>1 DEF Taught, NoStrategy
<1>9. \A h \in Habits : DOMAIN db.mistake[h] = {}
  BY <1>3, <1>4
<1>10. Told(db)
  BY <1>9 DEF Told
<1> QED  BY <1>2, <1>5, <1>6, <1>7, <1>8, <1>10 DEF Kept, Sound, Aside, Init

LEMMA Keeps == ASSUME IInv, Kept, [Next]_vars PROVE Kept'
<1>1. ASSUME shows' \in [Conversations -> SUBSET Habits], ended' \subseteq Conversations,
             UNCHANGED <<db, run, served, proven>>
      PROVE  Kept'
  <2>1. Sound(db)' /\ Told(db)' /\ Used(db)' = Used(db)
    BY <1>1 DEF Kept, Sound, Numbered, OneServes, Taught, Used, InStatus, Told, Teaches
  <2>2. Aside'
    BY <1>1 DEF Kept, Aside, Sound, Numbered, OneServes, Taught, Used, InStatus, Told, Teaches,
                NewVersions
  <2> QED  BY <1>1, <2>1, <2>2 DEF Kept
<1>2. CASE \E c \in Conversations, h \in Habits : Shows(c, h)
  BY <1>1, <1>2 DEF Shows, Kept
<1>3. CASE \E c \in Conversations : Ends(c)
  BY <1>1, <1>3 DEF Ends, Kept
<1>4. CASE UNCHANGED vars
  BY <1>1, <1>4 DEF vars, Kept
<1>5. CASE \E c \in Conversations : Finish(c)
  BY <1>5, FinishAdds
<1>6. CASE Report
  BY <1>6, ReportAdds
<1>7. CASE \E read \in [Conversations -> SUBSET Reviewed], safe, reordered \in BOOLEAN :
             Sweep(read, safe, reordered)
  BY <1>7, SweepAdds
<1>8. CASE \E reordered \in BOOLEAN : Propose(reordered)
  BY <1>8, ProposeAdds
<1>9. CASE \E reordered \in BOOLEAN : StartReplay(reordered)
  BY <1>9, StartAdds
<1>10. CASE \E passed, failed \in SUBSET (Conversations \X Checked), activates \in BOOLEAN :
              run # NoRun /\ EndReplay(passed, failed, activates)
  BY <1>10, EndKeeps
<1>11. CASE \E v \in Versions : Promote(v)
  BY <1>11, PromoteKeeps
<1>12. CASE \E v \in Versions : Rollback(v)
  BY <1>12, RollbackKeeps
<1> QED
  BY <1>2, <1>3, <1>4, <1>5, <1>6, <1>7, <1>8, <1>9, <1>10, <1>11, <1>12 DEF Next

LEMMA Invariance == Spec => [](IInv /\ Kept)
<1>1. Init => IInv /\ Kept
  BY Start, StartsKept
<1>2. (IInv /\ Kept) /\ [Next]_vars => (IInv /\ Kept)'
  BY Steps, Keeps
<1> QED  BY <1>1, <1>2, PTL DEF Spec

\* The tables keep their shape, versions are only spoken of that exist, and one at most
\* serves customers, however many sessions begin with the baseline or put a version in
\* service at a time (ensure_baseline, activate, active_strategy).
THEOREM LearningTypeCorrect == Spec => []TypeOK
<1>1. ASSUME Kept PROVE TypeOK
  <2>1. Cardinality(InStatus(db, "active")) <= 1
    <3>1. CASE InStatus(db, "active") = {}
      BY <3>1, FS_EmptySet
    <3>2. CASE InStatus(db, "active") # {}
      <4>1. PICK v : v \in InStatus(db, "active")
        BY <3>2
      <4>2. InStatus(db, "active") = {v}
        BY <1>1, <4>1 DEF Kept, Sound, OneServes
      <4> QED  BY <4>2, FS_Singleton
    <3> QED  BY <3>1, <3>2
  <2> QED  BY <1>1, <2>1 DEF TypeOK, Kept, Sound, Aside
<1> QED  BY <1>1, Invariance, PTL

\* No mistake leaves the open list but by a version that has a lesson for its habit and was
\* put in front of customers, whatever was judged, proposed and taken back while a candidate
\* was replayed (derived_from in propose, activate).
THEOREM AddressedMeansTaught == Spec => []AddressedWasTaught
<1>1. ASSUME Kept PROVE AddressedWasTaught
  BY <1>1 DEF Kept, Told, Teaches, AddressedWasTaught
<1> QED  BY <1>1, Invariance, PTL

\* After a sweep no habit that can be taught is without a lesson in the version that serves
\* or in one that waits for a person, whichever candidates wait already and in whatever
\* order the lessons come (evaluate_finished, propose).
THEOREM SweptIsProposed == Spec => OpenIsProposed
<1>1. Kept /\ [Next]_vars =>
        [db'.judged # db.judged /\ (\E read \in [Conversations -> SUBSET Reviewed],
                                       safe, reordered \in BOOLEAN : Sweep(read, safe, reordered)) =>
          \A h \in Habits : Teachable(db', h) # {} =>
              \E v \in InStatus(db', "candidate") \cup InStatus(db', "active") :
                  \E l \in db'.strategy[v].lessons : l[1] = h]_vars
  BY SweepAdds DEF Teaches
<1> QED  BY <1>1, Invariance, PTL DEF Spec, OpenIsProposed
=============================================================================
