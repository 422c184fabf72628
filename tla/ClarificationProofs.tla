------------------------- MODULE ClarificationProofs -------------------------
(***************************************************************************)
(* Proofs about Clarification, for any set of tasks and all bounds.         *)
(***************************************************************************)
EXTENDS Clarification, TLAPS

\* A stored question: what was previewed is never changed, and a batch offers
\* only tasks that were active then.
Sound(q) ==
  /\ q.snapshots = q.preview /\ q.selected \subseteq q.targets
  /\ q.kind = "bulk" => \A t \in q.targets : q.snapshots[t].status = "active"

Sounds(qs) == qs \in Seq(Question) /\ \A i \in DOMAIN qs : Sound(qs[i])

\* qs may follow questions: a closed question stays closed, a pending one keeps
\* its preview.
Follows(qs) ==
  /\ Len(questions) <= Len(qs)
  /\ \A i \in DOMAIN questions : qs[i].status = "pending" =>
       Pending(i) /\ qs[i].snapshots = questions[i].snapshots

\* What was applied while the question stays pending was followed by a crash.
Counted(i) ==
  /\ applied[i] <= crashes + 1
  /\ Pending(i) => applied[i] <= crashes
  /\ i \notin DOMAIN questions => applied[i] = 0

\* A task that a pending batch completed has moved past its preview.
Moved(i, t) ==
  /\ batched[i][t] <= 1
  /\ i \notin DOMAIN questions => batched[i][t] = 0
  /\ Pending(i) /\ batched[i][t] > 0 => tasks[t].updated_at > questions[i].snapshots[t].updated_at

ClarificationInv ==
  /\ TypeOK /\ Sounds(questions)
  /\ \A i \in Index : Counted(i)
  /\ \A i \in Index, t \in Task : Moved(i, t)

\* Every write moves updated_at on.
Forward(rows) ==
  rows \in [Task -> Row] /\ \A t \in Task : rows[t].updated_at >= tasks[t].updated_at

-----------------------------------------------------------------------------
(* The queue of questions.                                                 *)

LEMMA InRange == ASSUME TypeOK, NEW i \in DOMAIN questions PROVE i \in Index
BY BoundAssumption DEF TypeOK, Index

LEMMA SameSound == ASSUME ClarificationInv PROVE Sounds(questions) /\ Follows(questions)
BY DEF ClarificationInv, TypeOK, Follows, Pending, Question

\* A question that was asked is sound.
LEMMA AskedSound ==
  ASSUME TypeOK, NEW kind \in Kind, NEW S \in SUBSET Task, NEW rows \in [Task -> Row],
         kind = "bulk" => \A t \in S : rows[t].status = "active"
  PROVE  Asked(kind, S, rows) \in Question /\ Sound(Asked(kind, S, rows))
<1> DEFINE stored == [t \in Task |-> IF kind \in {"bulk", "backlog"} /\ t \in S THEN rows[t] ELSE NoRow]
<1>1. NoRow \in Row
  BY DEF NoRow, Row
<1>2. stored \in [Task -> Row]
  BY <1>1
<1>3. Asked(kind, S, rows) =
        [kind |-> kind, targets |-> S, snapshots |-> stored, edited |-> FALSE, selected |-> {},
         created_at |-> now, status |-> "pending", preview |-> stored]
  BY DEF Asked
<1>4. kind = "bulk" => \A t \in S : stored[t].status = "active"
  OBVIOUS
<1>5. now \in Nat
  BY DEF TypeOK
<1> HIDE DEF stored
<1>6. Asked(kind, S, rows) \in Question
  BY <1>2, <1>3, <1>5 DEF Question
<1>7. Sound(Asked(kind, S, rows))
  BY <1>3, <1>4 DEF Sound
<1> QED BY <1>6, <1>7

LEMMA ClosedSound ==
  ASSUME ClarificationInv, NEW i \in DOMAIN questions, NEW status \in {"resolved", "cancelled"}
  PROVE  /\ Sounds(Closed(questions, i, status)) /\ Follows(Closed(questions, i, status))
         /\ Len(Closed(questions, i, status)) = Len(questions)
         /\ Closed(questions, i, status)[i].status = status
<1> DEFINE asked == Asked("reminder", {}, tasks)
           row == [asked EXCEPT !.created_at = 0, !.status = status]
           qs == Closed(questions, i, status)
<1>1. TypeOK /\ Sounds(questions)
  BY DEF ClarificationInv
<1>2. tasks \in [Task -> Row] /\ "reminder" \in Kind /\ {} \in SUBSET Task
  BY <1>1 DEF TypeOK, Kind
<1>3. asked \in Question /\ Sound(asked) /\ asked.kind = "reminder"
  BY <1>1, <1>2, AskedSound DEF Asked
<1>4. row \in Question /\ Sound(row) /\ row.status = status
  BY <1>3 DEF Question, Sound
<1>5. qs = [questions EXCEPT ![i] = row]
  BY DEF Closed
<1>6. questions \in Seq(Question) /\ DOMAIN questions = 1 .. Len(questions)
  BY <1>1 DEF TypeOK
<1> HIDE DEF row, qs, asked
<1>7. qs \in Seq(Question) /\ Len(qs) = Len(questions) /\ DOMAIN qs = DOMAIN questions
  BY <1>4, <1>5, <1>6
<1>8. qs[i] = row /\ \A j \in DOMAIN questions : j # i => qs[j] = questions[j]
  BY <1>5, <1>6
<1>9. Sounds(qs)
  BY <1>1, <1>4, <1>7, <1>8 DEF Sounds
<1>10. Follows(qs)
  BY <1>4, <1>6, <1>7, <1>8 DEF Follows, Pending
<1> QED BY <1>4, <1>7, <1>8, <1>9, <1>10 DEF qs

LEMMA AppendSound ==
  ASSUME ClarificationInv, NEW qs, Sounds(qs), Follows(qs), NEW q \in Question, Sound(q)
  PROVE  /\ Sounds(Append(qs, q)) /\ Follows(Append(qs, q))
         /\ Len(Append(qs, q)) = Len(qs) + 1
         /\ \A i \in DOMAIN questions : Append(qs, q)[i] = qs[i]
<1>1. qs \in Seq(Question) /\ questions \in Seq(Question) /\ Len(questions) <= Len(qs)
  BY DEF ClarificationInv, TypeOK, Sounds, Follows
<1>2. /\ Append(qs, q) \in Seq(Question) /\ Len(Append(qs, q)) = Len(qs) + 1
      /\ DOMAIN Append(qs, q) = 1 .. Len(qs) + 1 /\ DOMAIN qs = 1 .. Len(qs)
      /\ DOMAIN questions = 1 .. Len(questions)
      /\ \A i \in DOMAIN qs : Append(qs, q)[i] = qs[i]
      /\ Append(qs, q)[Len(qs) + 1] = q
  BY <1>1
<1>3. \A i \in DOMAIN questions : i \in DOMAIN qs
  BY <1>1, <1>2
<1>4. Sounds(Append(qs, q))
  <2> SUFFICES ASSUME NEW i \in DOMAIN Append(qs, q) PROVE Sound(Append(qs, q)[i])
    BY <1>2 DEF Sounds
  <2>1. i \in DOMAIN qs \/ i = Len(qs) + 1
    BY <1>1, <1>2
  <2> QED BY <2>1, <1>2 DEF Sounds
<1>5. Follows(Append(qs, q))
  BY <1>1, <1>2, <1>3 DEF Follows
<1> QED BY <1>2, <1>3, <1>4, <1>5

LEMMA SupersededSound ==
  ASSUME ClarificationInv
  PROVE  Sounds(Superseded) /\ Follows(Superseded) /\ Len(Superseded) = Len(questions)
<1>1. CASE \E i \in DOMAIN questions : Oldest(i)
  <2> DEFINE i == CHOOSE i \in DOMAIN questions : Oldest(i)
  <2>1. i \in DOMAIN questions
    BY <1>1
  <2>2. Superseded = Closed(questions, i, "cancelled")
    BY <1>1 DEF Superseded
  <2> HIDE DEF i
  <2> QED BY <2>1, <2>2, ClosedSound
<1>2. CASE ~\E i \in DOMAIN questions : Oldest(i)
  BY <1>2, SameSound DEF Superseded
<1> QED BY <1>1, <1>2

LEMMA AnsweredSound ==
  ASSUME ClarificationInv, NEW i \in DOMAIN questions, NEW rows \in [Task -> Row],
         NEW resolved \in BOOLEAN, NEW overdue \in SUBSET Task, Room(1) \/ overdue = {}
  PROVE  LET qs == Answered(i, rows, resolved, overdue)
         IN  /\ Sounds(qs) /\ Follows(qs) /\ Len(qs) <= MaxQuestions
             /\ resolved => qs[i].status = "resolved"
<1>1. Len(questions) \in Nat /\ Len(questions) <= MaxQuestions /\ TypeOK
  BY DEF ClarificationInv, TypeOK
<1> DEFINE closed == Closed(questions, i, "resolved")
<1>2. /\ Sounds(closed) /\ Follows(closed) /\ Len(closed) = Len(questions)
      /\ closed[i].status = "resolved"
  BY ClosedSound
<1>3. CASE ~resolved
  BY <1>1, <1>3, SameSound DEF Answered
<1>4. CASE resolved /\ overdue = {}
  BY <1>1, <1>2, <1>4 DEF Answered
<1>5. CASE resolved /\ overdue # {}
  <2> DEFINE asked == Asked("backlog", overdue, rows)
  <2>1. asked \in Question /\ Sound(asked)
    BY <1>1, AskedSound DEF Kind
  <2>2. Answered(i, rows, resolved, overdue) = Append(closed, asked)
    BY <1>5 DEF Answered
  <2> HIDE DEF closed, asked
  <2>3. /\ Sounds(Append(closed, asked)) /\ Follows(Append(closed, asked))
        /\ Len(Append(closed, asked)) = Len(closed) + 1
        /\ Append(closed, asked)[i] = closed[i]
    BY <1>2, <2>1, AppendSound
  <2>4. Len(questions) + 1 <= MaxQuestions
    BY <1>5 DEF Room
  <2> QED BY <1>1, <1>2, <2>2, <2>3, <2>4
<1> QED BY <1>3, <1>4, <1>5

\* A question whose selection is changed.
LEMMA ReplacedSound ==
  ASSUME ClarificationInv, NEW i \in DOMAIN questions, NEW q \in Question, Sound(q),
         q.status = questions[i].status, q.snapshots = questions[i].snapshots,
         questions' = [questions EXCEPT ![i] = q]
  PROVE  Sounds(questions') /\ Follows(questions') /\ Len(questions') = Len(questions)
<1>1. questions \in Seq(Question) /\ Sounds(questions) /\ DOMAIN questions = 1 .. Len(questions)
  BY DEF ClarificationInv, TypeOK
<1>2. /\ questions' \in Seq(Question) /\ Len(questions') = Len(questions)
      /\ DOMAIN questions' = DOMAIN questions
  BY <1>1
<1>3. questions'[i] = q /\ \A j \in DOMAIN questions : j # i => questions'[j] = questions[j]
  BY <1>1
<1>4. Sounds(questions')
  BY <1>1, <1>2, <1>3 DEF Sounds
<1>5. Follows(questions')
  BY <1>1, <1>2, <1>3 DEF Follows, Pending
<1> QED BY <1>2, <1>4, <1>5

-----------------------------------------------------------------------------
(* The steps.                                                              *)

\* A step that applies no answer.
LEMMA QuietStep ==
  ASSUME ClarificationInv, Forward(tasks'), Sounds(questions'), Follows(questions'),
         Len(questions') <= MaxQuestions, now' \in Nat, UNCHANGED history
  PROVE  ClarificationInv'
<1>1. TypeOK /\ questions \in Seq(Question) /\ tasks \in [Task -> Row]
  BY DEF ClarificationInv, TypeOK
<1>2. TypeOK'
  BY <1>1 DEF TypeOK, Sounds, Forward, history
<1>3. /\ questions' \in Seq(Question) /\ Len(questions) <= Len(questions')
      /\ DOMAIN questions = 1 .. Len(questions) /\ DOMAIN questions' = 1 .. Len(questions')
  BY <1>1, <1>2 DEF TypeOK, Follows
<1>4. \A i \in Index : /\ Pending(i)' /\ i \in DOMAIN questions => Pending(i)
                       /\ i \notin DOMAIN questions' => i \notin DOMAIN questions
  BY <1>3 DEF Follows, Pending, Index
<1>5. ASSUME NEW i \in Index PROVE Counted(i)'
  <2>1. Counted(i) /\ applied[i] \in Nat /\ crashes \in Nat
    BY <1>1 DEF ClarificationInv, TypeOK
  <2> QED BY <2>1, <1>4 DEF Counted, history
<1>6. ASSUME NEW i \in Index, NEW t \in Task PROVE Moved(i, t)'
  <2>1. /\ Moved(i, t) /\ tasks[t].updated_at \in Nat /\ tasks'[t].updated_at \in Nat
        /\ tasks'[t].updated_at >= tasks[t].updated_at
    BY <1>1, <1>2 DEF ClarificationInv, TypeOK, Row, Forward
  <2>2. batched[i][t] \in Nat
    BY <1>1 DEF TypeOK
  <2>3. CASE i \notin DOMAIN questions
    BY <2>1, <2>2, <2>3, <1>4 DEF Moved, history
  <2>4. CASE i \in DOMAIN questions
    <3>1. Pending(i)' => Pending(i) /\ questions'[i].snapshots = questions[i].snapshots
      BY <2>4 DEF Follows, Pending
    <3>2. i \in DOMAIN questions => questions[i] \in Question
      BY <1>1
    <3>3. questions[i].snapshots[t].updated_at \in Nat
      BY <2>4, <3>2 DEF Question, Row
    <3> QED BY <2>1, <2>2, <2>4, <1>3, <3>1, <3>3 DEF Moved, history, Index
  <2> QED BY <2>3, <2>4
<1> QED BY <1>2, <1>5, <1>6 DEF ClarificationInv

\* A step that applies an answer, without counting a batch.
LEMMA AppliedStep ==
  ASSUME ClarificationInv, NEW i \in Index, Pending(i),
         NEW rows \in [Task -> Row], Forward(rows),
         NEW resolved \in BOOLEAN, NEW overdue \in SUBSET Task,
         Apply(i, rows, resolved, overdue), UNCHANGED now
  PROVE  /\ /\ tasks' \in [Task -> Row] /\ questions' \in Seq(Question)
            /\ Len(questions') <= MaxQuestions /\ now' \in Nat
            /\ applied' \in [Index -> Nat] /\ crashes' \in Nat
         /\ Forward(tasks') /\ Sounds(questions') /\ Follows(questions')
         /\ \A j \in Index : Counted(j)'
         /\ resolved => ~Pending(i)'
<1>1. TypeOK /\ questions \in Seq(Question) /\ i \in DOMAIN questions
  BY DEF ClarificationInv, TypeOK, Pending
<1>2. tasks' = rows /\ (Room(1) \/ overdue = {})
  BY DEF Apply
<1>3. questions' = Answered(i, rows, resolved, overdue)
  BY DEF Apply
<1>4. /\ applied' = [applied EXCEPT ![i] = @ + 1]
      /\ IF resolved THEN crashes' = crashes ELSE crashes' = crashes + 1
  BY DEF Apply, Crash
<1>5. /\ Sounds(questions') /\ Follows(questions') /\ Len(questions') <= MaxQuestions
      /\ resolved => questions'[i].status = "resolved"
  BY <1>1, <1>2, <1>3, AnsweredSound
<1>6. applied' \in [Index -> Nat] /\ crashes' \in Nat /\ crashes' >= crashes
  BY <1>1, <1>4 DEF TypeOK
<1>7. resolved => ~Pending(i)'
  BY <1>5 DEF Pending
<1>8. /\ DOMAIN questions = 1 .. Len(questions) /\ DOMAIN questions' = 1 .. Len(questions')
      /\ Len(questions) <= Len(questions')
  BY <1>1, <1>5 DEF Sounds, Follows
<1>9. ASSUME NEW j \in Index PROVE Counted(j)'
  <2>1. /\ Counted(j) /\ Counted(i) /\ applied[j] \in Nat /\ applied[i] \in Nat
        /\ crashes \in Nat /\ crashes' \in Nat
    BY <1>1, <1>6 DEF ClarificationInv, TypeOK
  <2>2. /\ Pending(j)' /\ j \in DOMAIN questions => Pending(j)
        /\ j \notin DOMAIN questions' => j \notin DOMAIN questions
    BY <1>5, <1>8 DEF Follows, Pending
  <2>3. CASE j # i
    <3>1. applied'[j] = applied[j]
      BY <2>3, <1>1, <1>4 DEF TypeOK
    <3> QED BY <2>1, <2>2, <3>1, <1>6 DEF Counted
  <2>4. CASE j = i
    <3>1. applied'[i] = applied[i] + 1 /\ applied[i] <= crashes
      BY <2>1, <1>1, <1>4 DEF TypeOK, Counted
    <3>2. i \in DOMAIN questions'
      BY <1>1, <1>8, <2>2, <2>4
    <3>3. CASE resolved
      BY <2>1, <2>4, <1>4, <1>7, <3>1, <3>2, <3>3 DEF Counted
    <3>4. CASE ~resolved
      BY <2>1, <2>4, <1>4, <3>1, <3>2, <3>4 DEF Counted
    <3> QED BY <3>3, <3>4
  <2> QED BY <2>3, <2>4
<1>10. now' \in Nat
  BY <1>1 DEF TypeOK
<1> QED BY <1>2, <1>5, <1>6, <1>7, <1>9, <1>10 DEF Sounds

\* The same, as a step of an answer that counts no batch.
LEMMA AnswerStep ==
  ASSUME ClarificationInv, NEW i \in Index, Pending(i), NEW rows \in [Task -> Row], Forward(rows),
         NEW resolved \in BOOLEAN, NEW overdue \in SUBSET Task,
         Apply(i, rows, resolved, overdue), UNCHANGED <<now, batched>>
  PROVE  ClarificationInv'
<1>1. /\ tasks' \in [Task -> Row] /\ questions' \in Seq(Question)
      /\ Len(questions') <= MaxQuestions /\ now' \in Nat
      /\ applied' \in [Index -> Nat] /\ crashes' \in Nat
      /\ Forward(tasks') /\ Sounds(questions') /\ Follows(questions')
      /\ \A j \in Index : Counted(j)'
  BY AppliedStep
<1>2. TypeOK /\ questions \in Seq(Question)
  BY DEF ClarificationInv, TypeOK
<1>3. TypeOK'
  BY <1>1, <1>2 DEF TypeOK
<1>4. ASSUME NEW j \in Index, NEW t \in Task PROVE Moved(j, t)'
  <2>1. /\ Moved(j, t) /\ tasks[t].updated_at \in Nat /\ tasks'[t].updated_at \in Nat
        /\ tasks'[t].updated_at >= tasks[t].updated_at /\ batched[j][t] \in Nat
    BY <1>1, <1>2 DEF ClarificationInv, TypeOK, Row, Forward
  <2>2. /\ DOMAIN questions = 1 .. Len(questions) /\ DOMAIN questions' = 1 .. Len(questions')
        /\ Len(questions) <= Len(questions')
    BY <1>1, <1>2 DEF Follows
  <2>3. CASE j \notin DOMAIN questions
    BY <2>1, <2>2, <2>3 DEF Moved
  <2>4. CASE j \in DOMAIN questions
    <3>1. Pending(j)' => Pending(j) /\ questions'[j].snapshots = questions[j].snapshots
      BY <1>1, <2>4 DEF Follows, Pending
    <3>2. questions[j] \in Question
      BY <1>2, <2>4
    <3>3. questions[j].snapshots[t].updated_at \in Nat
      BY <3>2 DEF Question, Row
    <3> QED BY <2>1, <2>2, <2>4, <3>1, <3>3 DEF Moved
  <2> QED BY <2>3, <2>4
<1> QED BY <1>1, <1>3, <1>4 DEF ClarificationInv

LEMMA SameForward == ASSUME ClarificationInv, UNCHANGED tasks PROVE Forward(tasks')
BY DEF ClarificationInv, TypeOK, Forward, Row

LEMMA WrittenForward ==
  ASSUME TypeOK, NEW t \in Task,
         NEW status \in {"absent", "active", "done", "cancelled", "gone"}
  PROVE  Forward([tasks EXCEPT ![t] = Written(@, status)])
<1>1. tasks \in [Task -> Row]
  BY DEF TypeOK
<1>2. Written(tasks[t], status) \in Row
      /\ Written(tasks[t], status).updated_at = tasks[t].updated_at + 1
  BY <1>1 DEF Written, Row
<1>3. \A x \in Task : tasks[x].updated_at \in Nat
  BY <1>1 DEF Row
<1> QED BY <1>1, <1>2, <1>3 DEF Forward

LEMMA CompletedForward ==
  ASSUME TypeOK, NEW done \in SUBSET Task, NEW next \in SUBSET Task
  PROVE  Forward(Completed(done, next))
<1>1. tasks \in [Task -> Row]
  BY DEF TypeOK
<1>2. ASSUME NEW t \in Task
      PROVE  /\ [tasks[t] EXCEPT !.status = "active"] \in Row
             /\ [tasks[t] EXCEPT !.status = "active"].updated_at = tasks[t].updated_at
             /\ Written(tasks[t], "done") \in Row
             /\ Written(tasks[t], "done").updated_at = tasks[t].updated_at + 1
             /\ tasks[t] \in Row /\ tasks[t].updated_at \in Nat
  BY <1>1, <1>2 DEF Written, Row
<1>3. ASSUME NEW t \in Task
      PROVE  Completed(done, next)[t] \in Row /\ Completed(done, next)[t].updated_at >= tasks[t].updated_at
  BY <1>2 DEF Completed
<1>4. Completed(done, next) = [t \in Task |-> Completed(done, next)[t]]
  BY DEF Completed
<1>5. Completed(done, next) \in [Task -> Row]
  BY <1>3, <1>4
<1> QED BY <1>3, <1>5 DEF Forward

\* A handler that only closes the oldest question.
LEMMA CloseStep ==
  ASSUME ClarificationInv, NEW i \in DOMAIN questions,
         NEW status \in {"resolved", "cancelled"}, Close(i, status), UNCHANGED <<tasks, now, history>>
  PROVE  ClarificationInv'
<1>1. TypeOK
  BY DEF ClarificationInv
<1>2. Len(questions) <= MaxQuestions /\ now' \in Nat /\ questions' = Closed(questions, i, status)
  BY <1>1 DEF TypeOK, Close
<1>3. Sounds(questions') /\ Follows(questions') /\ Len(questions') = Len(questions)
  BY <1>2, ClosedSound
<1>4. Len(questions') <= MaxQuestions
  BY <1>2, <1>3
<1>5. Forward(tasks')
  BY SameForward
<1> QED BY <1>2, <1>3, <1>4, <1>5, QuietStep

\* A handler that asks a question, the oldest being superseded or not.
LEMMA AskStep ==
  ASSUME ClarificationInv, NEW kind \in Kind, NEW S \in SUBSET Task,
         kind = "bulk" => \A t \in S : Active(t), NEW qs, Sounds(qs), Follows(qs), Len(qs) = Len(questions), Room(1),
         questions' = Append(qs, Asked(kind, S, tasks)), UNCHANGED <<tasks, now, history>>
  PROVE  ClarificationInv'
<1> DEFINE q == Asked(kind, S, tasks)
<1>1. TypeOK
  BY DEF ClarificationInv
<1>2. q \in Question /\ Sound(q)
  BY <1>1, AskedSound DEF TypeOK, Active
<1>3. questions' = Append(qs, q)
  OBVIOUS
<1> HIDE DEF q
<1>4. Sounds(questions') /\ Follows(questions') /\ Len(questions') = Len(qs) + 1
  BY <1>2, <1>3, AppendSound
<1>5. Len(questions') <= MaxQuestions /\ now' \in Nat
  BY <1>1, <1>4 DEF TypeOK, Room
<1>6. Forward(tasks')
  BY SameForward
<1> QED BY <1>4, <1>5, <1>6, QuietStep

\* A batch completes only tasks as they were previewed, and moves them on.
LEMMA BatchMoves ==
  ASSUME ClarificationInv, NEW i \in DOMAIN questions, questions[i].kind = "bulk",
         NEW next \in SUBSET Absent, NEW t \in Eligible(questions[i])
  PROVE  /\ t \in Task /\ tasks[t] = questions[i].snapshots[t]
         /\ Completed(Eligible(questions[i]), next)[t].updated_at
              > questions[i].snapshots[t].updated_at
<1>1. questions[i] \in Question /\ Sound(questions[i]) /\ tasks \in [Task -> Row]
  BY DEF ClarificationInv, Sounds, TypeOK
<1>2. t \in questions[i].targets /\ t \in Task
  BY <1>1 DEF Eligible, Requested, Question, Sound
<1>3. Exists(t) /\ tasks[t] = questions[i].snapshots[t]
  BY DEF Eligible, Unchanged
<1>4. tasks[t].status = "active"
  BY <1>1, <1>2, <1>3 DEF Sound
<1>5. Completed(Eligible(questions[i]), next)[t] = Written(tasks[t], "done")
  BY <1>2, <1>3, <1>4 DEF Completed, Absent
<1>6. tasks[t].updated_at \in Nat
  BY <1>1, <1>2 DEF Row
<1> QED BY <1>2, <1>3, <1>5, <1>6 DEF Written

\* The confirmation of a batch.
LEMMA BatchStep ==
  ASSUME ClarificationInv, NEW i \in DOMAIN questions,
         NEW next \in SUBSET Absent, NEW resolved \in BOOLEAN, NEW overdue \in SUBSET Task,
         ConfirmBatch(i, next, resolved, overdue)
  PROVE  ClarificationInv'
<1> DEFINE eligible == Eligible(questions[i])
           rows == Completed(eligible, next)
<1>1. TypeOK /\ questions \in Seq(Question) /\ i \in Index /\ questions[i].kind = "bulk" /\ Pending(i)
  BY InRange DEF ClarificationInv, TypeOK, ConfirmBatch, Bulk, Oldest
<1>2. /\ Apply(i, rows, resolved, overdue) /\ UNCHANGED now
      /\ batched' = [batched EXCEPT ![i] = [t \in Task |-> IF t \in eligible THEN @[t] + 1 ELSE @[t]]]
  BY DEF ConfirmBatch
<1>3. next \in SUBSET Task
  BY DEF Absent
<1>4. eligible \in SUBSET Task
  BY <1>1, BatchMoves
<1>5. Forward(rows)
  BY <1>1, <1>3, <1>4, CompletedForward
<1>6. rows \in [Task -> Row]
  BY <1>5 DEF Forward
<1>7. \A t \in eligible : rows[t].updated_at > questions[i].snapshots[t].updated_at
                          /\ tasks[t] = questions[i].snapshots[t]
  BY <1>1, BatchMoves
<1> HIDE DEF eligible, rows
<1>8. /\ tasks' \in [Task -> Row] /\ questions' \in Seq(Question)
      /\ Len(questions') <= MaxQuestions /\ now' \in Nat
      /\ applied' \in [Index -> Nat] /\ crashes' \in Nat
      /\ Forward(tasks') /\ Sounds(questions') /\ Follows(questions')
      /\ \A j \in Index : Counted(j)'
  BY <1>1, <1>2, <1>3, <1>5, <1>6, AppliedStep
<1>9. tasks' = rows
  BY <1>2 DEF Apply
<1>10. batched \in [Index -> [Task -> Nat]]
  BY <1>1 DEF TypeOK
<1>11. batched' \in [Index -> [Task -> Nat]]
  <2> DEFINE row == [t \in Task |-> IF t \in eligible THEN batched[i][t] + 1 ELSE batched[i][t]]
  <2>1. batched' = [batched EXCEPT ![i] = row]
    BY <1>2
  <2>2. \A t \in Task : batched[i][t] \in Nat
    BY <1>1, <1>10
  <2>3. row \in [Task -> Nat]
    BY <2>2
  <2> HIDE DEF row
  <2> QED BY <1>10, <2>1, <2>3
<1>12. TypeOK'
  BY <1>8, <1>11 DEF TypeOK
<1>13. ASSUME NEW j \in Index, NEW t \in Task PROVE Moved(j, t)'
  <2>1. /\ Moved(j, t) /\ tasks[t].updated_at \in Nat /\ tasks'[t].updated_at \in Nat
        /\ tasks'[t].updated_at >= tasks[t].updated_at /\ batched[j][t] \in Nat
    BY <1>1, <1>8 DEF ClarificationInv, TypeOK, Row, Forward
  <2>2. /\ DOMAIN questions = 1 .. Len(questions) /\ DOMAIN questions' = 1 .. Len(questions')
        /\ Len(questions) <= Len(questions')
    BY <1>1, <1>8 DEF Follows
  <2>3. CASE j \notin DOMAIN questions
    <3>1. batched'[j][t] = batched[j][t]
      BY <2>3, <1>1, <1>2, <1>10
    <3> QED BY <2>1, <2>2, <2>3, <3>1 DEF Moved
  <2>4. CASE j \in DOMAIN questions
    <3>1. Pending(j)' => Pending(j) /\ questions'[j].snapshots = questions[j].snapshots
      BY <1>8, <2>4 DEF Follows, Pending
    <3>2. questions[j] \in Question
      BY <1>1, <2>4
    <3>3. questions[j].snapshots[t].updated_at \in Nat
      BY <3>2 DEF Question, Row
    <3>4. CASE j = i /\ t \in eligible
      <4>1. tasks[t] = questions[j].snapshots[t] /\ rows[t].updated_at > questions[j].snapshots[t].updated_at
        BY <1>7, <3>4
      <4>2. batched[j][t] = 0
        BY <1>1, <2>1, <3>3, <3>4, <4>1 DEF Moved
      <4>3. batched'[j][t] = 1
        BY <1>1, <1>2, <1>10, <3>4, <4>2
      <4> QED BY <1>9, <2>2, <2>4, <3>1, <4>1, <4>3 DEF Moved
    <3>5. CASE ~(j = i /\ t \in eligible)
      <4>1. batched'[j][t] = batched[j][t]
        BY <3>5, <1>1, <1>2, <1>10
      <4> QED BY <2>1, <2>2, <2>4, <3>1, <3>3, <4>1 DEF Moved
    <3> QED BY <3>4, <3>5
  <2> QED BY <2>3, <2>4
<1> QED BY <1>8, <1>12, <1>13 DEF ClarificationInv

LEMMA InitInv == Init => ClarificationInv
<1> SUFFICES ASSUME Init PROVE ClarificationInv
  OBVIOUS
<1>1. NoRow \in Row
  BY DEF NoRow, Row
<1>2. TypeOK /\ questions = <<>>
  BY <1>1, BoundAssumption DEF Init, TypeOK
<1>3. Sounds(questions)
  BY <1>2 DEF Sounds
<1>4. \A i \in Index : Counted(i)
  BY <1>2 DEF Init, Counted, Pending
<1>5. \A i \in Index, t \in Task : Moved(i, t)
  BY <1>2 DEF Init, Moved, Pending
<1> QED BY <1>2, <1>3, <1>4, <1>5 DEF ClarificationInv

\* What the owner answers preserves the invariant.
LEMMA AnswerInv == ASSUME ClarificationInv, NEW i \in DOMAIN questions, Answer(i) PROVE ClarificationInv'
<1>1. TypeOK /\ questions \in Seq(Question) /\ tasks \in [Task -> Row] /\ i \in Index
  BY InRange DEF ClarificationInv, TypeOK
<1>2. questions[i] \in Question /\ Sound(questions[i])
  BY <1>1 DEF ClarificationInv, Sounds
<1>3. ASSUME Decline(i) \/ Expire(i) \/ NothingLeft(i) PROVE ClarificationInv'
  BY <1>3, CloseStep DEF Decline, Expire, NothingLeft
<1>4. ASSUME KeepBacklog(i) PROVE ClarificationInv'
  BY <1>4, CloseStep DEF KeepBacklog
<1>5. ASSUME NEW S \in SUBSET Task, (Edit(i) /\ S = Offered(questions[i])) \/ Select(i, S)
      PROVE  ClarificationInv'
  <2> DEFINE q == [questions[i] EXCEPT !.edited = TRUE, !.selected = S]
  <2>1. S \subseteq questions[i].targets
    BY <1>5 DEF Select, Offered
  <2>2. /\ q \in Question /\ Sound(q)
        /\ q.status = questions[i].status /\ q.snapshots = questions[i].snapshots
    BY <1>2, <2>1 DEF Question, Sound
  <2>3. questions' = [questions EXCEPT ![i] = q]
    <3>1. CASE Edit(i) /\ S = Offered(questions[i])
      BY <3>1, <1>1 DEF Edit
    <3>2. CASE Select(i, S)
      <4>1. questions[i].edited = TRUE
        BY <3>2, <1>2 DEF Select, Question
      <4>2. q = [questions[i] EXCEPT !.selected = S]
        BY <4>1, <1>2 DEF Question
      <4> HIDE DEF q
      <4> QED BY <3>2, <4>2, <1>1 DEF Select
    <3> QED BY <1>5, <3>1, <3>2
  <2> HIDE DEF q
  <2>4. Sounds(questions') /\ Follows(questions') /\ Len(questions') = Len(questions)
    BY <2>2, <2>3, ReplacedSound
  <2>5. UNCHANGED <<tasks, now, history>>
    BY <1>5 DEF Edit, Select
  <2>6. Len(questions') <= MaxQuestions /\ now' \in Nat /\ Forward(tasks')
    BY <1>1, <2>4, <2>5, SameForward DEF TypeOK
  <2> QED BY <2>4, <2>5, <2>6, QuietStep
<1>6. ASSUME NEW resolved \in BOOLEAN, AnswerReminder(i, resolved) PROVE ClarificationInv'
  <2>1. Forward(tasks)
    BY <1>1 DEF Forward, Row
  <2> QED BY <1>1, <1>6, <2>1, AnswerStep DEF AnswerReminder, Oldest
<1>7. ASSUME NEW moved \in SUBSET Task, SkipBacklog(i, moved) PROVE ClarificationInv'
  <2> DEFINE rows == [t \in Task |-> IF t \in moved THEN Written(tasks[t], "active") ELSE tasks[t]]
  <2>1. ASSUME NEW t \in Task PROVE rows[t] \in Row /\ rows[t].updated_at >= tasks[t].updated_at
    BY <1>1 DEF Written, Row
  <2>2. Forward(rows) /\ rows \in [Task -> Row]
    BY <2>1 DEF Forward
  <2>3. Apply(i, rows, TRUE, {}) /\ UNCHANGED <<now, batched>> /\ Pending(i)
    BY <1>7 DEF SkipBacklog, Oldest
  <2>4. {} \in SUBSET Task /\ TRUE \in BOOLEAN
    OBVIOUS
  <2> HIDE DEF rows
  <2> QED BY <1>1, <2>2, <2>3, <2>4, AnswerStep
<1>8. ASSUME NEW t \in Task, NEW resolved \in BOOLEAN, AnswerWrite(i, t, resolved)
      PROVE  ClarificationInv'
  <2> DEFINE status == IF questions[i].kind = "cancel" THEN "cancelled" ELSE tasks[t].status
             rows == [tasks EXCEPT ![t] = IF Exists(t) THEN Written(@, status) ELSE @]
  <2>1. status \in {"absent", "active", "done", "cancelled", "gone"}
    BY <1>1 DEF Row
  <2>2. Apply(i, rows, resolved, {}) /\ UNCHANGED <<now, batched>> /\ Pending(i)
    BY <1>8 DEF AnswerWrite, Oldest
  <2>3. Forward(rows)
    <3>1. CASE Exists(t)
      <4>1. rows = [tasks EXCEPT ![t] = Written(@, status)]
        BY <3>1
      <4> HIDE DEF rows, status
      <4> QED BY <1>1, <2>1, <4>1, WrittenForward
    <3>2. CASE ~Exists(t)
      <4>1. rows = tasks
        BY <1>1, <3>2
      <4> HIDE DEF rows
      <4> QED BY <1>1, <4>1 DEF Forward, Row
    <3> QED BY <3>1, <3>2
  <2> HIDE DEF rows
  <2> QED BY <1>1, <2>2, <2>3, AnswerStep DEF Forward
<1>9. ASSUME NEW t \in Task, AnswerScope(i, t) PROVE ClarificationInv'
  <2> DEFINE rows == [tasks EXCEPT ![t] = Written(@, @.status)]
  <2>1. tasks[t].status \in {"absent", "active", "done", "cancelled", "gone"}
    BY <1>1 DEF Row
  <2>2. Forward([tasks EXCEPT ![t] = Written(@, tasks[t].status)])
    BY <1>1, <2>1, WrittenForward
  <2>3. Apply(i, rows, TRUE, {}) /\ UNCHANGED <<now, batched>> /\ Pending(i)
    BY <1>9 DEF AnswerScope, Oldest
  <2>4. Forward(rows)
    BY <2>2
  <2> HIDE DEF rows
  <2>5. rows \in [Task -> Row] /\ {} \in SUBSET Task /\ TRUE \in BOOLEAN
    BY <2>4 DEF Forward
  <2> QED BY <1>1, <2>3, <2>4, <2>5, AnswerStep
<1>10. ASSUME NEW t \in Task, NEW next \in SUBSET Absent, NEW resolved \in BOOLEAN,
              NEW overdue \in SUBSET Task, AnswerDone(i, t, next, resolved, overdue)
       PROVE  ClarificationInv'
  <2> DEFINE rows == Completed({t}, next)
  <2>1. next \in SUBSET Task
    BY DEF Absent
  <2>2. Forward(rows)
    BY <1>1, <2>1, CompletedForward
  <2>3. Apply(i, rows, resolved, overdue) /\ UNCHANGED <<now, batched>> /\ Pending(i)
    BY <1>10 DEF AnswerDone, Oldest
  <2> HIDE DEF rows
  <2> QED BY <1>1, <2>1, <2>2, <2>3, AnswerStep DEF Forward
<1>11. Offered(questions[i]) \in SUBSET Task
  BY <1>2 DEF Offered, Question
<1>12. ASSUME Edit(i) PROVE ClarificationInv'
  BY <1>5, <1>11, <1>12
<1> QED BY <1>3, <1>4, <1>5, <1>6, <1>7, <1>8, <1>9, <1>10, <1>12, BatchStep DEF Answer

LEMMA StepInv == ClarificationInv /\ [Next]_vars => ClarificationInv'
<1> SUFFICES ASSUME ClarificationInv, [Next]_vars PROVE ClarificationInv'
  OBVIOUS
<1>1. TypeOK /\ tasks \in [Task -> Row] /\ now \in Nat /\ Len(questions) <= MaxQuestions
  BY DEF ClarificationInv, TypeOK
<1>2. ASSUME NEW kind \in Kind, NEW S \in SUBSET Task, Ask(kind, S) PROVE ClarificationInv'
  BY <1>2, SupersededSound, AskStep DEF Ask, Askable
<1>3. ASSUME NEW S \in SUBSET Task, AskBacklog(S) PROVE ClarificationInv'
  <2>1. "backlog" \in Kind
    BY DEF Kind
  <2> QED BY <1>3, <2>1, SupersededSound, AskStep DEF AskBacklog, Askable
<1>4. ASSUME AskByButton PROVE ClarificationInv'
  <2>1. "reminder" \in Kind /\ {} \in SUBSET Task /\ \A t \in {} : Active(t)
    BY DEF Kind
  <2> QED BY <1>4, <2>1, SameSound, AskStep DEF AskByButton
<1>5. ASSUME Supersede PROVE ClarificationInv'
  <2>1. /\ Sounds(questions') /\ Follows(questions') /\ Len(questions') = Len(questions)
        /\ UNCHANGED <<tasks, now, history>>
    BY <1>5, SupersededSound DEF Supersede
  <2>2. Forward(tasks')
    BY <2>1, SameForward
  <2> QED BY <1>1, <2>1, <2>2, QuietStep
<1>6. ASSUME UNCHANGED questions, UNCHANGED history, Forward(tasks'), now' \in Nat
      PROVE  ClarificationInv'
  <2>1. Sounds(questions') /\ Follows(questions') /\ Len(questions') <= MaxQuestions
    BY <1>1, <1>6, SameSound
  <2> QED BY <1>6, <2>1, QuietStep
<1>7. ASSUME NEW t \in Task, Capture(t) PROVE ClarificationInv'
  <2>1. [tasks[t] EXCEPT !.status = "active"] \in Row
        /\ [tasks[t] EXCEPT !.status = "active"].updated_at = tasks[t].updated_at
    BY <1>1 DEF Row
  <2>2. tasks' = [tasks EXCEPT ![t] = [tasks[t] EXCEPT !.status = "active"]]
    BY <1>7, <1>1 DEF Capture
  <2>3. \A x \in Task : tasks[x].updated_at \in Nat
    BY <1>1 DEF Row
  <2>4. Forward(tasks')
    BY <1>1, <2>1, <2>2, <2>3 DEF Forward
  <2> QED BY <1>1, <1>6, <1>7, <2>4 DEF Capture
<1>8. ASSUME NEW t \in Task, NEW status \in {"active", "done", "cancelled", "gone"}, Change(t, status)
      PROVE  ClarificationInv'
  <2>1. Forward(tasks')
    BY <1>1, <1>8, WrittenForward DEF Change
  <2> QED BY <1>1, <1>6, <1>8, <2>1 DEF Change
<1>9. ASSUME Tick PROVE ClarificationInv'
  <2>1. Forward(tasks') /\ now' \in Nat
    BY <1>1, <1>9, SameForward DEF Tick
  <2> QED BY <1>6, <1>9, <2>1 DEF Tick
<1>10. ASSUME UNCHANGED vars PROVE ClarificationInv'
  BY <1>1, <1>6, <1>10, SameForward DEF vars
<1> QED BY <1>2, <1>3, <1>4, <1>5, <1>7, <1>8, <1>9, <1>10, AnswerInv DEF Next

-----------------------------------------------------------------------------

\* The inductive invariant: what an answer applied is tied to the crashes before
\* its question was closed, and the tasks a pending batch completed have moved
\* past their previews.
THEOREM ClarificationInvariant == Spec => []ClarificationInv
BY InitInv, StepInv, PTL DEF Spec

\* Type correctness, with every stored question well formed.
THEOREM TypeCorrect == Spec => []TypeOK
<1>1. ClarificationInv => TypeOK
  BY DEF ClarificationInv
<1> QED BY ClarificationInvariant, <1>1, PTL

\* An answer takes effect once, and once more at most per crash between its
\* commit and the one that closes its question.
THEOREM EffectOnce == Spec => []AppliedOnce
<1>1. ClarificationInv => AppliedOnce
  BY InRange DEF ClarificationInv, Counted, AppliedOnce
<1> QED BY ClarificationInvariant, <1>1, PTL

\* A batch completes each of its tasks at most once, whatever crashes, undos and
\* edits of the selection come between.
THEOREM BatchCompletesOnce == Spec => []BatchOnce
<1>1. ClarificationInv => BatchOnce
  BY InRange DEF ClarificationInv, Moved, BatchOnce
<1> QED BY ClarificationInvariant, <1>1, PTL

\* A confirmed batch completes no task that changed since it was previewed, and
\* none after its time.
THEOREM BatchSparesChanged == Spec => StaleSpared
<1> DEFINE A == \A i \in DOMAIN questions, t \in Task :
                  batched'[i][t] > batched[i][t] =>
                    tasks[t] = questions[i].preview[t] /\ now <= questions[i].created_at + TTL
<1>1. ClarificationInv /\ [Next]_vars => [A]_vars
  <2> SUFFICES ASSUME ClarificationInv, Next, NEW i \in DOMAIN questions, NEW t \in Task,
                      batched'[i][t] > batched[i][t]
               PROVE  tasks[t] = questions[i].preview[t] /\ now <= questions[i].created_at + TTL
    OBVIOUS
  <2>1. TypeOK /\ i \in Index /\ batched[i][t] \in Nat /\ questions[i] \in Question /\ Sound(questions[i])
    BY InRange DEF ClarificationInv, TypeOK, Sounds
  <2>2. batched' # batched
    BY <2>1
  <2>3. PICK j \in DOMAIN questions, next \in SUBSET Absent, resolved \in BOOLEAN :
          \E overdue \in SUBSET Task : ConfirmBatch(j, next, resolved, overdue)
    BY <2>2 DEF Next, Answer, Decline, Expire, KeepBacklog, NothingLeft, Edit, Select, SkipBacklog,
                AnswerReminder, AnswerWrite, AnswerScope, AnswerDone, Ask, AskBacklog, AskByButton,
                Supersede, Tick, Capture, Change, history
  <2>4. /\ batched' = [batched EXCEPT ![j] =
             [x \in Task |-> IF x \in Eligible(questions[j]) THEN @[x] + 1 ELSE @[x]]]
        /\ questions[j].kind = "bulk" /\ ~Expired(questions[j])
    BY <2>3 DEF ConfirmBatch, Bulk
  <2>5. i = j /\ t \in Eligible(questions[i])
    BY <2>1, <2>4 DEF TypeOK
  <2>6. tasks[t] = questions[i].preview[t]
    BY <2>1, <2>5 DEF Eligible, Unchanged, Sound
  <2>7. now <= questions[i].created_at + TTL
    BY <2>1, <2>4, <2>5, BoundAssumption DEF Expired, Question, TypeOK
  <2> QED BY <2>6, <2>7
<1> QED BY ClarificationInvariant, <1>1, PTL DEF Spec, StaleSpared
=============================================================================
