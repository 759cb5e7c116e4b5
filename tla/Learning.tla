------------------------------- MODULE Learning ------------------------------
(***************************************************************************)
(* How the agent is taught (evaluation/): conversations are judged, what   *)
(* went wrong in them becomes mistakes and regression cases, the mistakes  *)
(* become a candidate strategy of lessons, and a candidate that replays    *)
(* every case clean may be put in front of customers, and taken back.      *)
(*                                                                         *)
(* The worker's sweep, the web console and the command line do this in     *)
(* sessions of their own.  Each is one step here, except a run that        *)
(* replays: it keeps one transaction open for as long as the model takes,  *)
(* seeing its own rows while the others see the committed ones.            *)
(***************************************************************************)
EXTENDS Naturals, FiniteSets

CONSTANTS
    Conversations,
    Checked,        \* habits the deterministic checks find, with a standing correction
    Reviewed,       \* habits only the reading model finds, in its own words
    MaxRows,        \* bound on the mistakes of one habit
    MaxVersions,    \* bound on the strategies
    NoRun

Habits == Checked \cup Reviewed

ASSUME LearningAssumption ==
    /\ IsFiniteSet(Conversations) /\ Checked \cap Reviewed = {}
    /\ MaxRows \in Nat \ {0} /\ MaxVersions \in Nat \ {0}

VARIABLES
    shows,      \* what has gone wrong in each conversation so far
    ended,      \* conversations that are tagged and have been quiet for a day
    db,         \* the committed tables
    run,        \* the replaying run: its tables, those it started from, its candidate
    served,     \* versions customers have ever been served by
    proven      \* versions whose last whole replay had no case fail

vars == <<shows, ended, db, run, served, proven>>

Versions == 1 .. MaxVersions

Baseline == 1

\* The mistakes of a habit, by number, in the order they were recorded.  `safe` says whether
\* the reviewer's words carry no figure and no policy.
Mistake == [status: {"detected", "active"}, seen: SUBSET Conversations, safe: BOOLEAN]

\* A lesson: the standing correction of a habit, or the words of one mistake.
Lessons == (Checked \X {0}) \cup (Reviewed \X (1 .. MaxRows))

\* `replay` is what replay_passed and replay_failed say; `from` is derived_from.
Strategy == [status: {"candidate", "active", "superseded", "rejected", "rolled_back"},
             lessons: SUBSET Lessons, from: SUBSET (Habits \X (1 .. MaxRows)),
             parent: Versions \cup {0}, replay: {"none", "clean", "failed"}]

\* A version that does not exist yet.
NoStrategy == [status |-> "none", lessons |-> {}, from |-> {}, parent |-> 0, replay |-> "none"]

Tables == [judged: SUBSET Conversations, cases: SUBSET (Conversations \X Checked),
           mistake: [Habits -> UNION {[rows -> Mistake] : rows \in SUBSET (1 .. MaxRows)}],
           strategy: [Versions -> Strategy \cup {NoStrategy}]]

Used(d) == {v \in Versions : d.strategy[v] # NoStrategy}

InStatus(d, status) == {v \in Used(d) : d.strategy[v].status = status}

\* One version at most serves customers: active_strategy takes any there is.
TypeOK ==
    /\ shows \in [Conversations -> SUBSET Habits]
    /\ ended \subseteq Conversations
    /\ db \in Tables
    /\ Cardinality(InStatus(db, "active")) <= 1
    /\ run # NoRun => /\ run.mine \in Tables /\ run.base \in Tables
                      /\ run.version \in Used(run.mine)
                      /\ run.cases \subseteq run.mine.cases
    /\ served \subseteq Used(db) /\ proven \subseteq Used(db)

Init ==
    /\ shows = [c \in Conversations |-> {}]
    /\ ended = {}
    /\ db = [judged |-> {}, cases |-> {}, mistake |-> [h \in Habits |-> [n \in {} |-> {}]],
             strategy |-> [v \in Versions |-> NoStrategy]]
    /\ run = NoRun
    /\ served = {}
    /\ proven = {}

-----------------------------------------------------------------------------
(* Conversations *)

\* A message in which the agent falls into habit h; the conversation goes on.
Shows(c, h) ==
    /\ h \notin shows[c]
    /\ shows' = [shows EXCEPT ![c] = @ \cup {h}]
    /\ ended' = ended \ {c}
    /\ UNCHANGED <<db, run, served, proven>>

\* The conversation is tagged and falls quiet.
Ends(c) ==
    /\ c \notin ended
    /\ ended' = ended \cup {c}
    /\ UNCHANGED <<shows, db, run, served, proven>>

-----------------------------------------------------------------------------
(* Evaluation *)

OpenRows(d, h) == {n \in DOMAIN d.mistake[h] : d.mistake[h][n].status = "detected"}

\* The number a new row gets, which no session has taken yet.
Taken(d, h) == DOMAIN d.mistake[h] \cup DOMAIN db.mistake[h]
                  \cup (IF run = NoRun THEN {} ELSE DOMAIN run.mine.mistake[h])

NextRow(d, h) == Cardinality(Taken(d, h)) + 1

\* _promote: a habit seen again is counted on the row that is open, by the
\* conversations it was seen in, and opens a row if there is none.
Promoted(d, found, safe) ==
    [d EXCEPT !.mistake = [h \in Habits |->
        LET in == {c \in Conversations : h \in found[c]}
            open == OpenRows(d, h)
        IN CASE in = {} -> @[h]
             [] in # {} /\ open # {} ->
                  [@[h] EXCEPT ![CHOOSE n \in open : \A m \in open : n <= m].seen = @ \cup in]
             [] OTHER -> [n \in DOMAIN @[h] \cup {NextRow(d, h)} |->
                                   IF n \in DOMAIN @[h] THEN @[h][n]
                                   ELSE [status |-> "detected", seen |-> in,
                                         safe |-> h \in Checked \/ safe]]]]

RoomToPromote(d, found) ==
    \A h \in Habits : (\E c \in Conversations : h \in found[c]) /\ OpenRows(d, h) = {}
                          => NextRow(d, h) <= MaxRows

\* What the checks find in the conversations cs.
Findings(cs) == [c \in Conversations |-> IF c \in cs THEN shows[c] \cap Checked ELSE {}]

\* record: the conversations cs are judged.
Recorded(d, cs) == Promoted([d EXCEPT !.judged = @ \cup cs], Findings(cs), TRUE)

\* capture_from_evaluation: every finding is kept as a case.
Captured(d, cs) ==
    [d EXCEPT !.cases = @ \cup {p \in cs \X Checked : p[2] \in shows[p[1]]}]

-----------------------------------------------------------------------------
(* Strategies *)

WithBaseline(d) ==
    IF d.strategy[Baseline] # NoStrategy THEN d
    ELSE [d EXCEPT !.strategy[Baseline] =
            [status |-> "active", lessons |-> {}, from |-> {}, parent |-> 0, replay |-> "none"]]

\* The lesson of a mistake: its habit's standing correction, or its own words.
LessonOf(h, n) == IF h \in Checked THEN <<h, 0>> ELSE <<h, n>>

Teachable(d, h) == {n \in OpenRows(d, h) : d.mistake[h][n].safe}

\* lessons_from: one lesson for a habit, of its mistake seen most often.
LessonsFrom(d) ==
    {LessonOf(h, CHOOSE n \in Teachable(d, h) : \A m \in Teachable(d, h) :
                    \/ Cardinality(d.mistake[h][n].seen) > Cardinality(d.mistake[h][m].seen)
                    \/ /\ Cardinality(d.mistake[h][n].seen) = Cardinality(d.mistake[h][m].seen)
                       /\ n <= m) : h \in {h \in Habits : Teachable(d, h) # {}}}

\* Mutant: a candidate that waits is always the answer.
AnyWaiting(d, lessons) == InStatus(d, "candidate")

Waiting(d, lessons) == {v \in InStatus(d, "candidate") : d.strategy[v].lessons = lessons}

\* Mutant: every open mistake counts as addressed by the candidate.
CorrectsAll(d) == {p \in Habits \X (1 .. MaxRows) : p[2] \in OpenRows(d, p[1])}

\* The mistakes a candidate is built to correct: the open ones of its habits.
Corrects(d) == {p \in Habits \X (1 .. MaxRows) :
                   p[2] \in OpenRows(d, p[1]) /\ Teachable(d, p[1]) # {}}

Serving(d) == IF InStatus(d, "active") = {} THEN 0 ELSE CHOOSE v \in InStatus(d, "active") : TRUE

\* active_lessons: what the agent is told on every turn.
ActiveLessons(d) == IF Serving(d) = 0 THEN {} ELSE d.strategy[Serving(d)].lessons

Merged(d) == LessonsFrom(d) \cup ActiveLessons(d)

\* propose: the tables after it and the candidate, 0 if there is nothing to learn.
\* The lessons are an ordered list in the code; here `reordered` says that those
\* of the candidate that waits come in another order, which makes them other ones.
Proposal(d, reordered) ==
    LET b == WithBaseline(d)
        next == Cardinality(Used(b)) + 1
    IN IF Merged(b) = ActiveLessons(b) THEN [d |-> b, v |-> 0]
       ELSE IF Waiting(b, Merged(b)) # {} /\ ~reordered
       THEN [d |-> b, v |-> CHOOSE v \in Waiting(b, Merged(b)) :
                               \A w \in Waiting(b, Merged(b)) : v <= w]
       ELSE [d |-> [b EXCEPT !.strategy[next] =
                      [status |-> "candidate", lessons |-> Merged(b), from |-> Corrects(b),
                       parent |-> Serving(b), replay |-> "none"]],
             v |-> next]

RoomToPropose(d, reordered) ==
    /\ reordered => Cardinality(Merged(WithBaseline(d))) > 1
    /\ Cardinality(Used(WithBaseline(d))) < MaxVersions

\* Mutant: the version that was serving is left as it is.
ActivatedBeside(d, v) ==
    [d EXCEPT !.strategy[v].status = "active",
              !.mistake = [h \in Habits |-> [n \in DOMAIN @[h] |->
                  IF <<h, n>> \in d.strategy[v].from
                  THEN [@[h][n] EXCEPT !.status = "active"] ELSE @[h][n]]]]

\* activate, of a candidate no case failed: the version that serves is superseded
\* and the mistakes the candidate corrects are closed.
Activated(d, v) ==
    [d EXCEPT !.strategy = [w \in Versions |->
                  IF w = v THEN [@[w] EXCEPT !.status = "active"]
                  ELSE IF w \in InStatus(d, "active") THEN [@[w] EXCEPT !.status = "superseded"]
                  ELSE @[w]],
              !.mistake = [h \in Habits |-> [n \in DOMAIN @[h] |->
                  IF <<h, n>> \in d.strategy[v].from
                  THEN [@[h][n] EXCEPT !.status = "active"] ELSE @[h][n]]]]

-----------------------------------------------------------------------------
(* Transactions beside the replaying run *)

\* Rows the run has inserted or changed: another session that inserts the same
\* version, or changes the same mistake, waits for the run to end.
NewVersions(from, d) == Used(d) \ Used(from)

Changed(from, d, h) ==
    {n \in DOMAIN from.mistake[h] : d.mistake[h][n] # from.mistake[h][n]}

Waits(d) ==
    /\ run # NoRun
    /\ \/ NewVersions(db, d) \cap NewVersions(run.base, run.mine) # {}
       \/ \E h \in Habits : Changed(db, d, h) \cap Changed(run.base, run.mine, h) # {}

Commit(d) == ~Waits(d) /\ db' = d /\ served' = served \cup InStatus(d, "active")

\* What the run has written, on top of what the others have committed.
Together ==
    [judged   |-> db.judged \cup run.mine.judged,
     cases    |-> db.cases \cup run.mine.cases,
     mistake  |-> [h \in Habits |->
        [n \in DOMAIN db.mistake[h] \cup DOMAIN run.mine.mistake[h] |->
            IF n \in DOMAIN db.mistake[h] /\ n \notin Changed(run.base, run.mine, h)
            THEN db.mistake[h][n] ELSE run.mine.mistake[h][n]]],
     strategy |-> [v \in Versions |-> IF v \in NewVersions(run.base, run.mine)
                                      THEN run.mine.strategy[v] ELSE db.strategy[v]]]

-----------------------------------------------------------------------------
(* The worker and the web console *)

\* evaluate_finished: what has ended is judged once, captured, and read by the
\* reviewer, who may miss a habit or not answer; the proposal is kept current.
Sweep(read, safe, reordered) ==
    LET fresh == ended \ db.judged
        judged == Captured(Recorded(db, fresh), fresh)
        noticed == [c \in Conversations |-> IF c \in fresh THEN read[c] ELSE {}]
        told == Promoted(judged, noticed, safe)
    IN /\ fresh # {}
       /\ RoomToPromote(db, Findings(fresh)) /\ RoomToPromote(judged, noticed)
       /\ RoomToPropose(told, reordered)
       /\ Commit(Proposal(told, reordered).d)
       /\ UNCHANGED <<shows, ended, run, proven>>

\* /api/learning/finish judges one conversation by hand, cmd_demo_report all of
\* them; neither keeps a case.
Finish(c) ==
    /\ c \notin db.judged
    /\ RoomToPromote(db, Findings({c}))
    /\ Commit(WithBaseline(Recorded(db, {c})))
    /\ UNCHANGED <<shows, ended, run, proven>>

Report ==
    /\ RoomToPromote(db, Findings(Conversations))
    /\ Commit(Recorded(db, Conversations))
    /\ UNCHANGED <<shows, ended, run, proven>>

-----------------------------------------------------------------------------
(* The learning cycle *)

\* evaluate_all judges every conversation, those that go on and those judged before.
Evaluated == Captured(Recorded(db, Conversations), Conversations)

\* cycle.run without an agent ends with the proposal.
Propose(reordered) ==
    /\ RoomToPromote(db, Findings(Conversations))
    /\ RoomToPropose(Evaluated, reordered)
    /\ Commit(Proposal(Evaluated, reordered).d)
    /\ UNCHANGED <<shows, ended, run, proven>>

\* With one, it replays the candidate on the cases there are.
StartReplay(reordered) ==
    /\ run = NoRun
    /\ RoomToPromote(db, Findings(Conversations))
    /\ RoomToPropose(Evaluated, reordered)
    /\ LET p == Proposal(Evaluated, reordered)
       IN /\ p.v # 0
          /\ run' = [mine |-> p.d, base |-> db, version |-> p.v, cases |-> p.d.cases]
    /\ UNCHANGED <<shows, ended, db, served, proven>>

\* Mutant: a run is conclusive if nothing failed in it.
ConclusiveIfClean(passed, failed) == failed = {} \/ passed \cup failed = run.cases

\* Every case was run: the model was reached each time and no sample was asked for.
Conclusive(passed, failed) == passed \cup failed = run.cases

\* record_replay: a regression disqualifies the candidate.
ReplayRecorded(d, v, passed, failed) ==
    LET s == d.strategy[v]
    IN [d EXCEPT !.strategy[v] =
          [s EXCEPT !.replay = IF failed # {} THEN "failed" ELSE IF passed # {} THEN "clean" ELSE "none",
                    !.status = IF failed # {} THEN "rejected" ELSE s.status]]

\* The run ends and commits: with its verdict if it has one, and with the
\* candidate in service if it was asked to activate it.
EndReplay(passed, failed, activates) ==
    /\ run # NoRun
    /\ LET v == run.version
           d == ReplayRecorded(Together, v, passed, failed)
       IN /\ db' = IF ~Conclusive(passed, failed) THEN Together
                   ELSE IF failed = {} /\ activates THEN Activated(d, v) ELSE d
          /\ proven' = IF passed = run.cases THEN proven \cup {v}
                       ELSE IF passed \cup failed = run.cases THEN proven \ {v} ELSE proven
    /\ served' = served \cup InStatus(db', "active")
    /\ run' = NoRun
    /\ UNCHANGED <<shows, ended>>

-----------------------------------------------------------------------------
(* The person *)

Promote(v) ==
    /\ v \in InStatus(db, "candidate")
    /\ db.strategy[v].replay = "clean"
    /\ Commit(Activated(db, v))
    /\ UNCHANGED <<shows, ended, run, proven>>

\* Any version but the one that serves, by its name or as that one's parent.
Rollback(v) ==
    /\ v \in Used(db) \ InStatus(db, "active")
    /\ Commit([db EXCEPT !.strategy = [w \in Versions |->
                  IF w = v THEN [@[w] EXCEPT !.status = "active"]
                  ELSE IF w \in InStatus(db, "active") THEN [@[w] EXCEPT !.status = "rolled_back"]
                  ELSE @[w]]])
    /\ UNCHANGED <<shows, ended, run, proven>>

-----------------------------------------------------------------------------
Next ==
    \/ \E c \in Conversations, h \in Habits : Shows(c, h)
    \/ \E c \in Conversations : Ends(c) \/ Finish(c)
    \/ Report
    \/ \E read \in [Conversations -> SUBSET Reviewed], safe, reordered \in BOOLEAN :
          /\ \A c \in Conversations : read[c] \subseteq shows[c] /\ (c \notin ended => read[c] = {})
          /\ Sweep(read, safe, reordered)
    \/ \E reordered \in BOOLEAN : Propose(reordered) \/ StartReplay(reordered)
    \/ \E passed, failed \in SUBSET (Conversations \X Checked), activates \in BOOLEAN :
          /\ run # NoRun /\ passed \cup failed \subseteq run.cases /\ passed \cap failed = {}
          /\ EndReplay(passed, failed, activates)
    \/ \E v \in Versions : Promote(v) \/ Rollback(v)

Spec == Init /\ [][Next]_vars

-----------------------------------------------------------------------------
(* Properties *)

\* Nothing comes into service that a whole replay has not cleared, unless a person
\* takes it back: not after an outage, a sample or a regression, nor by a promotion
\* beside a run (cycle.run, record_replay, promote, activate).
PromotedIsProven ==
    [][\A v \in served' \ served :
          v \in proven' \cup {Baseline} \/ \E w \in Versions : Rollback(w)]_vars

\* A mistake is taken off the open list only if a version that corrects its habit
\* was put in front of customers; one with no safe lesson stays open for a person
\* (derived_from in propose, activate).
AddressedWasTaught ==
    \A h \in Habits : \A n \in DOMAIN db.mistake[h] :
        db.mistake[h][n].status = "active" =>
            \E v \in served : \E l \in db.strategy[v].lessons : l[1] = h

\* Once a conversation that ended has been judged, whatever can be taught is in the
\* version that serves or in one that waits for a person (evaluate_finished, propose).
OpenIsProposed ==
    [][db'.judged # db.judged /\ (\E read \in [Conversations -> SUBSET Reviewed],
                                     safe, reordered \in BOOLEAN : Sweep(read, safe, reordered)) =>
          \A h \in Habits : Teachable(db', h) # {} =>
              \E v \in InStatus(db', "candidate") \cup InStatus(db', "active") :
                  \E l \in db'.strategy[v].lessons : l[1] = h]_vars

\* The promises the code breaks.

\* What serves was live before or has been proven (rollback).
ServedIsProven == \A v \in InStatus(db, "active") : v \in proven \cup {Baseline}

\* A candidate that fails leaves the version that serves where it is (strategies).
SomethingServes == served # {} => InStatus(db, "active") # {}

\* What was learned stays learned until a person takes it back (propose, promote).
NothingUnlearned ==
    [][\A v \in Versions : Promote(v) /\ InStatus(db, "active") # {} =>
          ActiveLessons(db) \subseteq db.strategy[v].lessons]_vars

\* Every failure that was judged becomes a permanent test (evaluate_finished).
JudgedIsGuarded ==
    \A c \in ended \cap db.judged : \A h \in shows[c] \cap Checked : <<c, h>> \in db.cases
=============================================================================
