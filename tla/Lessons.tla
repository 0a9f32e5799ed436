------------------------------ MODULE Lessons ------------------------------
(***************************************************************************)
(* The tips a conglomerate's companies learn: each heartbeat reinforces    *)
(* its company's lessons by the day's rewards, distils new ones, promotes  *)
(* the proven ones to the sheet all companies share, and ages that sheet.  *)
(* Workers record lessons of their own meanwhile. None of it is in a       *)
(* transaction, and the companies' heartbeats fire at the same hour.       *)
(*                                                                         *)
(* A step is one statement. Every lesson is in a category that sales and   *)
(* replies reward; scores are small integers; embeddings are off, so two   *)
(* lessons are the same when their texts are.                              *)
(***************************************************************************)
EXTENDS Integers, Sequences, FiniteSets

CONSTANTS
  Learners, Texts,              \* the companies of one conglomerate; what may be learned
  InitialScore, DecayNum, DecayDen, Floor,   \* column default, LESSON_DECAY, LESSON_FLOOR
  Bumps,                        \* what a day's sales and replies may add: <<score, wins>>
  PromoteScore, PromoteWins, MergeReward,
  MaxRows, MaxBeats, MaxDay, MaxMishaps     \* bounds of the model

ASSUME LessonsAssumption ==
  /\ "shared" \notin Learners /\ "none" \notin Texts
  /\ InitialScore \in Int /\ Floor \in Int /\ DecayNum \in Int /\ DecayDen \in Nat \ {0}
  /\ Bumps \subseteq Int \X Nat /\ MergeReward \in Nat /\ PromoteScore \in Int /\ PromoteWins \in Nat
  /\ MaxRows \in Nat /\ MaxBeats \in Nat /\ MaxDay \in Nat /\ MaxMishaps \in Nat

VARIABLES
  lessons,    \* rows: [owner (a company or "shared"), text, score, wins, active, decayed (day)]
  learner,    \* per company: where its heartbeat is and what it read
  recorder,   \* per company: the text a worker found new and is about to insert
  beats,      \* per company: heartbeats begun
  today,
  crossed,    \* history: someone wrote between another's lookup and the write it led to
  mishaps

learnVars == <<lessons, learner, recorder, beats, today, crossed, mishaps>>

NoText == "none"
NoRow == 0
LessonRows == 1..Len(lessons)
Of(owner) == {i \in LessonRows : lessons[i].owner = owner}
Active(owner) == {i \in Of(owner) : lessons[i].active}
Own(c) == Active(c)
Shared == Active("shared")

NotLearning == [at |-> "idle", new |-> {}, text |-> NoText, proven |-> {}, row |-> NoRow, dup |-> NoRow]

LearnInit ==
  /\ lessons = <<>>
  /\ learner = [c \in Learners |-> NotLearning]
  /\ recorder = [c \in Learners |-> NoText]
  /\ beats = [c \in Learners |-> 0]
  /\ today = 0 /\ crossed = FALSE /\ mishaps = 0

LearnerBecomes(c, r) == learner' = [learner EXCEPT ![c] = r]
LearnerGoes(c, at) == LearnerBecomes(c, [learner[c] EXCEPT !.at = at])
Update(rows, f(_)) == lessons' = [i \in LessonRows |-> IF i \in rows THEN f(lessons[i]) ELSE lessons[i]]
OnlyLearner == UNCHANGED <<lessons, recorder, beats, today, crossed, mishaps>>
OnlyRows == UNCHANGED <<recorder, beats, today, mishaps>>

\* A sibling looked this text up on the shared sheet and has not written yet.
SiblingLookedUp(c, text) ==
  \E d \in Learners \ {c} : learner[d].at \in {"promote", "merge"} /\ lessons[learner[d].row].text = text

Fresh(owner, text) == [owner |-> owner, text |-> text, score |-> InitialScore, wins |-> 0,
                       active |-> TRUE, decayed |-> today]

----------------------------------------------------------------------------
(* reinforceLessons.                                                       *)

decay(score) == (score * DecayNum) \div DecayDen
DecayOwn(c) ==
  /\ learner[c].at = "idle" /\ beats[c] < MaxBeats
  /\ beats' = [beats EXCEPT ![c] = @ + 1]
  /\ Update(Own(c), LAMBDA r : [r EXCEPT !.score = decay(@)])
  /\ LearnerGoes(c, "bump")
  /\ UNCHANGED <<recorder, today, crossed, mishaps>>

\* Sales and replies since yesterday, each a reward and a win.
BumpOwn(c) ==
  /\ learner[c].at = "bump"
  /\ \E bump \in Bumps :
       Update(Own(c), LAMBDA r : [r EXCEPT !.score = @ + bump[1], !.wins = @ + bump[2]])
  /\ LearnerGoes(c, "fade")
  /\ OnlyRows /\ UNCHANGED crossed

Faded(rows) == {i \in rows : lessons[i].score < Floor}
RetireOwn(c) ==
  /\ learner[c].at = "fade"
  /\ Update(Faded(Own(c)), LAMBDA r : [r EXCEPT !.active = FALSE])
  /\ LearnerGoes(c, "distill")
  /\ OnlyRows /\ UNCHANGED crossed

----------------------------------------------------------------------------
(* distillAndStoreLessons, record_lesson.                                  *)

\* What the distiller answers: not what the digest already shows.
Digest(c) == {lessons[i].text : i \in Own(c) \cup Shared}
Distill(c) ==
  /\ learner[c].at = "distill"
  /\ \E new \in SUBSET (Texts \ Digest(c)) : LearnerBecomes(c, [learner[c] EXCEPT !.at = "store", !.new = new])
  /\ OnlyLearner

UnknownAmongShared(c, t) == \A i \in Shared : lessons[i].text # t
Unknown(c, t) == \A i \in Of(c) : lessons[i].text # t

LookUpNew(c) ==
  /\ learner[c].at = "store"
  /\ \E t \in learner[c].new :
       LearnerBecomes(c, [learner[c] EXCEPT !.new = @ \ {t}, !.at = IF Unknown(c, t) THEN "insert" ELSE @,
                                     !.text = IF Unknown(c, t) THEN t ELSE @])
  /\ OnlyLearner

\* The embedding is fetched between the lookup and the insert.
InsertNew(c) ==
  /\ learner[c].at = "insert" /\ Len(lessons) < MaxRows
  /\ lessons' = Append(lessons, Fresh(c, learner[c].text))
  /\ crossed' = (crossed \/ recorder[c] = learner[c].text)
  /\ LearnerBecomes(c, [learner[c] EXCEPT !.at = "store", !.text = NoText])
  /\ OnlyRows

\* A worker's record_lesson: lookup, then insert.
RecordLookUp(c, t) ==
  /\ recorder[c] = NoText /\ Unknown(c, t)
  /\ recorder' = [recorder EXCEPT ![c] = t]
  /\ UNCHANGED <<lessons, learner, beats, today, crossed, mishaps>>
RecordInsert(c) ==
  /\ recorder[c] # NoText /\ Len(lessons) < MaxRows
  /\ lessons' = Append(lessons, Fresh(c, recorder[c]))
  /\ crossed' = (crossed \/ learner[c].text = recorder[c])
  /\ recorder' = [recorder EXCEPT ![c] = NoText]
  /\ UNCHANGED <<learner, beats, today, mishaps>>

----------------------------------------------------------------------------
(* promoteCompanyLessons.                                                  *)

qualifiesForPromotion(l) == l.score >= PromoteScore /\ l.wins >= PromoteWins
ReadProven(c) ==
  /\ learner[c].at = "store" /\ learner[c].new = {}
  /\ LearnerBecomes(c, [NotLearning EXCEPT !.at = "next", !.proven = {i \in Own(c) : qualifiesForPromotion(lessons[i])}])
  /\ OnlyLearner

SameOf(i) == {j \in Shared : lessons[j].text = lessons[i].text}
LookUpShared(c) ==
  /\ learner[c].at = "next"
  /\ \E i \in learner[c].proven :
       \/ SameOf(i) = {} /\ LearnerBecomes(c, [learner[c] EXCEPT !.proven = @ \ {i}, !.at = "promote", !.row = i])
       \/ \E j \in SameOf(i) : LearnerBecomes(c, [learner[c] EXCEPT !.proven = @ \ {i}, !.at = "merge", !.row = i, !.dup = j])
  /\ OnlyLearner

Promoted(c) == LearnerBecomes(c, [learner[c] EXCEPT !.at = "next", !.row = NoRow, !.dup = NoRow])
PromoteInPlace(c) ==
  /\ learner[c].at = "promote"
  /\ Update({learner[c].row}, LAMBDA r : [r EXCEPT !.owner = "shared", !.decayed = today])
  /\ crossed' = (crossed \/ SiblingLookedUp(c, lessons[learner[c].row].text))
  /\ Promoted(c) /\ OnlyRows

\* A sibling proved it already: the copy is retired, then the shared one reinforced.
RetireCopy(c) ==
  /\ learner[c].at = "merge"
  /\ Update({learner[c].row}, LAMBDA r : [r EXCEPT !.active = FALSE])
  /\ LearnerGoes(c, "reward") /\ OnlyRows /\ UNCHANGED crossed
RewardShared(c) ==
  /\ learner[c].at = "reward"
  /\ Update({learner[c].dup}, LAMBDA r : [r EXCEPT !.score = @ + MergeReward, !.wins = @ + 1])
  /\ Promoted(c) /\ OnlyRows /\ UNCHANGED crossed

----------------------------------------------------------------------------
(* decayConglomerateLessons: by the days since the row's last decay.       *)

decayFor(score, days) ==
  LET after[n \in 0..days] == IF n = 0 THEN score ELSE decay(after[n - 1]) IN after[days]
DecayEachTime(r) == [r EXCEPT !.score = decay(@), !.decayed = today]
DecayByTime(r) == [r EXCEPT !.score = decayFor(@, today - r.decayed), !.decayed = today]
DecayShared(c) ==
  /\ learner[c].at = "next" /\ learner[c].proven = {}
  /\ Update(Shared, DecayByTime)
  /\ LearnerGoes(c, "prune") /\ OnlyRows /\ UNCHANGED crossed

RetireShared(c) ==
  /\ learner[c].at = "prune"
  /\ Update(Faded(Shared), LAMBDA r : [r EXCEPT !.active = FALSE])
  /\ crossed' = (crossed \/ \E d \in Learners \ {c} : learner[d].dup \in Faded(Shared))
  /\ LearnerBecomes(c, NotLearning) /\ OnlyRows

\* An exception is swallowed by the heartbeat; a dead worker's attempt is retried from its start.
LearningFails(c) ==
  /\ learner[c].at # "idle" /\ mishaps < MaxMishaps /\ mishaps' = mishaps + 1
  /\ LearnerBecomes(c, NotLearning)
  /\ \E again \in {0, 1} : again <= beats[c] /\ beats' = [beats EXCEPT ![c] = @ - again]
  /\ crossed' = (crossed \/ learner[c].at = "reward")
  /\ UNCHANGED <<lessons, recorder, today>>

AnotherDay ==
  /\ today < MaxDay /\ today' = today + 1
  /\ UNCHANGED <<lessons, learner, recorder, beats, crossed, mishaps>>

----------------------------------------------------------------------------
Reinforce(c) == DecayOwn(c) \/ BumpOwn(c) \/ RetireOwn(c)
Store(c) == Distill(c) \/ LookUpNew(c) \/ InsertNew(c)
Record(c) == (\E t \in Texts : RecordLookUp(c, t)) \/ RecordInsert(c)
Promote(c) == ReadProven(c) \/ LookUpShared(c) \/ PromoteInPlace(c) \/ RetireCopy(c) \/ RewardShared(c)
Maintain(c) == DecayShared(c) \/ RetireShared(c)
Learn(c) == Reinforce(c) \/ Store(c) \/ Promote(c) \/ Maintain(c) \/ LearningFails(c)

LearnNext == (\E c \in Learners : Learn(c) \/ Record(c)) \/ AnotherDay
LearnSpec == LearnInit /\ [][LearnNext]_learnVars

----------------------------------------------------------------------------
(* Properties.                                                             *)

\* A company's lessons, and the shared ones, are each there once, unless two writers
\* looked up together and both found nothing (ceo.ts:349-381, 415-475).
LearnedOnce ==
  \A owner \in Learners \cup {"shared"} : \A i, j \in Active(owner) :
    i # j => lessons[i].text # lessons[j].text \/ crossed

\* A lesson leaves the sheets only by fading: one that a merge retired lives on in a
\* shared row, and a shared row is retired under the floor and stays there, unless it
\* faded while a sibling was merging into it (ceo.ts:454-459, 490-520).
OnlyTheFadedGo ==
  \A i \in LessonRows : ~lessons[i].active =>
    \/ lessons[i].score < Floor
    \/ crossed
    \/ lessons[i].owner # "shared" /\ \E j \in Of("shared") : lessons[j].text = lessons[i].text

\* The shared sheet ages with the days, not with the number of heartbeats that run
\* (ceo.ts:479-487): on the day it was promoted or decayed a lesson decays no further.
SharedAgesByDays ==
  [][\A i \in Shared : lessons'[i].score < lessons[i].score => lessons[i].decayed < today]_learnVars
=============================================================================
