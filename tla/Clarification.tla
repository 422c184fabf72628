---------------------------- MODULE Clarification ----------------------------
(***************************************************************************)
(* The questions the assistant asks the owner, and their answers.  A text   *)
(* or a button answers the oldest pending question of the chat.  An answer  *)
(* changes tasks in one commit and closes its question in another, so that  *)
(* the end of the process may leave an answered question pending; meanwhile *)
(* buttons and other handlers change the tasks the question is about.       *)
(*                                                                          *)
(* Updates are handled one after another: a handler is one step, with a     *)
(* parameter for the commits it reached.                                    *)
(***************************************************************************)
EXTENDS Integers, Sequences, FiniteSets

CONSTANTS
  Task,         \* identifiers of tasks
  TTL,          \* confirmation_ttl
  Horizon,      \* bound on the clock
  MaxWrites,    \* bound on the writes of one task
  MaxQuestions, \* bound on the questions
  MaxCrashes    \* bound on the crashes

ASSUME BoundAssumption ==
  /\ TTL \in Nat /\ Horizon \in Nat /\ MaxWrites \in Nat /\ MaxQuestions \in Nat
  /\ MaxCrashes \in Nat

VARIABLES
  tasks,      \* the rows of tasks: status and updated_at, a count of writes
  questions,  \* the rows of clarification_requests in the order of created_at
  now,        \* the clock
  applied,    \* history: how often each question's answer changed its subject
  crashes,    \* how often the process ended before a question was closed
  batched     \* history: how often a question completed each task of its batch

history == <<applied, crashes, batched>>
vars == <<tasks, questions, now, history>>

Index == 1 .. MaxQuestions
\* absent: not created yet; gone: its row was deleted.
Row   == [status : {"absent", "active", "done", "cancelled", "gone"}, updated_at : Nat]
\* done, write and cancel change one of their tasks by several commits; scope
\* changes its task in one.
Kind  == {"done", "write", "cancel", "scope", "reminder", "bulk", "backlog"}
\* snapshots is the field of bulk and backlog questions; preview is history,
\* the tasks when the question was asked.
Question ==
  [kind : Kind, targets : SUBSET Task, snapshots : [Task -> Row],
   edited : BOOLEAN, selected : SUBSET Task, created_at : Nat,
   status : {"pending", "resolved", "cancelled"}, preview : [Task -> Row]]

TypeOK ==
  /\ tasks \in [Task -> Row]
  /\ questions \in Seq(Question) /\ Len(questions) <= MaxQuestions
  /\ now \in Nat
  /\ applied \in [Index -> Nat] /\ crashes \in Nat
  /\ batched \in [Index -> [Task -> Nat]]

NoRow == [status |-> "absent", updated_at |-> 0]

Init ==
  /\ tasks = [t \in Task |-> NoRow]
  /\ questions = <<>> /\ now = 0
  /\ applied = [i \in Index |-> 0] /\ crashes = 0
  /\ batched = [i \in Index |-> [t \in Task |-> 0]]

-----------------------------------------------------------------------------
(* Tasks.                                                                  *)

Exists(t) == tasks[t].status \notin {"absent", "gone"}
Active(t) == tasks[t].status = "active"
Absent    == {t \in Task : tasks[t].status = "absent"}
Writable(S) == \A t \in S : tasks[t].updated_at < MaxWrites

Written(row, status) == [status |-> status, updated_at |-> row.updated_at + 1]

\* complete: a task that is done already is left alone, but for its successor.
Completed(done, next) ==
  [t \in Task |->
     IF t \in next THEN [tasks[t] EXCEPT !.status = "active"]
     ELSE IF t \in done /\ Exists(t) /\ tasks[t].status # "done" THEN Written(tasks[t], "done")
     ELSE tasks[t]]

\* Each completed task has one next occurrence at most, created now or found;
\* the overdue ones are asked about.
Successors(S, next, overdue) ==
  /\ Cardinality(next \cup overdue) <= Cardinality({t \in S : Exists(t)})
  /\ \A t \in overdue \ next : Exists(t)

\* Faulty variant of Unchanged: only the status is compared.
SameStatus(q, t) == Exists(t) /\ tasks[t].status = q.snapshots[t].status

\* TaskBatchSnapshot.matches, and the test of expected_updated_at.
Unchanged(q, t) == Exists(t) /\ tasks[t] = q.snapshots[t]

-----------------------------------------------------------------------------
(* Questions.                                                              *)

Pending(i) == i \in DOMAIN questions /\ questions[i].status = "pending"

\* find_pending_for_chat.
Oldest(i) == Pending(i) /\ \A j \in 1 .. i - 1 : ~Pending(j)

\* Only the previews of bulk and backlog questions are stored.
Asked(kind, S, rows) ==
  LET stored == [t \in Task |-> IF kind \in {"bulk", "backlog"} /\ t \in S THEN rows[t] ELSE NoRow]
  IN  [kind |-> kind, targets |-> S, snapshots |-> stored, edited |-> FALSE, selected |-> {},
       created_at |-> now, status |-> "pending", preview |-> stored]

\* A closed row is never read again: only its status is kept.
Closed(qs, i, status) ==
  [qs EXCEPT ![i] = [Asked("reminder", {}, tasks) EXCEPT !.created_at = 0, !.status = status]]
Close(i, status) == questions' = Closed(questions, i, status)

Room(n) == Len(questions) + n <= MaxQuestions

\* The questions after an answer: closed unless the process ended before, and
\* then the overdue occurrences are asked about.
Answered(i, rows, resolved, overdue) ==
  IF ~resolved THEN questions
  ELSE IF overdue = {} THEN Closed(questions, i, "resolved")
  ELSE Append(Closed(questions, i, "resolved"), Asked("backlog", overdue, rows))

\* Targets are tasks list_active returned, or the next occurrences of others.
Askable(kind, S) ==
  /\ \A t \in S : Active(t) \/ (kind = "backlog" /\ Exists(t))
  /\ CASE kind = "reminder" -> S = {}
       [] kind = "scope"    -> Cardinality(S) = 1
       [] OTHER             -> S # {}

\* Faulty variant of Superseded: the reason is written where the status belongs.
SupersededByReason ==
  IF \E i \in DOMAIN questions : Oldest(i)
    THEN Closed(questions, CHOOSE i \in DOMAIN questions : Oldest(i), "superseded_by_new_intent")
    ELSE questions

\* A new action, in a text, cancels the oldest question, whatever it asks.
Superseded ==
  IF \E i \in DOMAIN questions : Oldest(i)
    THEN Closed(questions, CHOOSE i \in DOMAIN questions : Oldest(i), "cancelled")
    ELSE questions

Supersede ==
  /\ questions' = Superseded
  /\ UNCHANGED <<tasks, now, history>>

Ask(kind, S) ==
  /\ Room(1) /\ kind # "backlog" /\ Askable(kind, S)
  /\ questions' = Append(Superseded, Asked(kind, S, tasks))
  /\ UNCHANGED <<tasks, now, history>>

\* A tag button captures a note with a reminder, and other questions stay.
AskByButton ==
  /\ Room(1)
  /\ questions' = Append(questions, Asked("reminder", {}, tasks))
  /\ UNCHANGED <<tasks, now, history>>

\* Completing a recurring task outside a question asks about the next ones.
AskBacklog(S) ==
  /\ Room(1) /\ Askable("backlog", S)
  /\ questions' = Append(Superseded, Asked("backlog", S, tasks))
  /\ UNCHANGED <<tasks, now, history>>

-----------------------------------------------------------------------------
(* answer_pending.                                                         *)

Expired(q) == q.created_at + TTL < now
Expires(q) == q.kind \in {"bulk", "backlog"}

\* No, cancel, an option that cancels, or a task that is gone.
Decline(i) ==
  /\ Oldest(i)
  /\ Close(i, "cancelled")
  /\ UNCHANGED <<tasks, now, history>>

Crash == crashes < MaxCrashes /\ crashes' = crashes + 1

\* Faulty variant of Apply: the effect is recorded, the question not closed.
ApplyOnly(i, rows, resolved, overdue) ==
  /\ tasks' = rows
  /\ Room(1) \/ overdue = {}
  /\ applied' = [applied EXCEPT ![i] = @ + 1]
  /\ IF resolved THEN UNCHANGED crashes ELSE Crash
  /\ UNCHANGED questions

\* The effect of an answer, and then the end of its question.
Apply(i, rows, resolved, overdue) ==
  /\ tasks' = rows
  /\ Room(1) \/ overdue = {}
  /\ questions' = Answered(i, rows, resolved, overdue)
  /\ applied' = [applied EXCEPT ![i] = @ + 1]
  /\ IF resolved THEN UNCHANGED crashes ELSE Crash

\* "Yes" to the completion of a task, deleted or not, or the number of one.
AnswerDone(i, t, next, resolved, overdue) ==
  /\ Oldest(i) /\ questions[i].kind = "done" /\ t \in questions[i].targets
  /\ Writable({t}) /\ t \notin overdue /\ Successors({t}, next, overdue)
  /\ Apply(i, Completed({t}, next), resolved, overdue)
  /\ UNCHANGED <<now, batched>>

\* A due date, a duration, a title or a cancellation.  A due date that is given
\* for a deleted task changes nothing and closes the question.
AnswerWrite(i, t, resolved) ==
  /\ Oldest(i) /\ questions[i].kind \in {"write", "cancel"} /\ t \in questions[i].targets
  /\ Exists(t) \/ questions[i].kind = "write"
  /\ Writable({t})
  /\ LET status == IF questions[i].kind = "cancel" THEN "cancelled" ELSE tasks[t].status
     IN  Apply(i, [tasks EXCEPT ![t] = IF Exists(t) THEN Written(@, status) ELSE @], resolved, {})
  /\ UNCHANGED <<now, batched>>

\* The change and the resolution are one transaction.
AnswerScope(i, t) ==
  /\ Oldest(i) /\ questions[i].kind = "scope" /\ t \in questions[i].targets
  /\ Exists(t) /\ Writable({t})
  /\ Apply(i, [tasks EXCEPT ![t] = Written(@, @.status)], TRUE, {})
  /\ UNCHANGED <<now, batched>>

AnswerReminder(i, resolved) ==
  /\ Oldest(i) /\ questions[i].kind = "reminder"
  /\ Apply(i, tasks, resolved, {})
  /\ UNCHANGED <<now, batched>>

\* The missed occurrences are skipped; an occurrence may be taken already.
SkipBacklog(i, moved) ==
  /\ Oldest(i) /\ questions[i].kind = "backlog" /\ ~Expired(questions[i])
  /\ moved \subseteq questions[i].targets /\ Writable(moved)
  /\ \A t \in moved : Active(t) /\ Unchanged(questions[i], t)
  /\ Apply(i, [t \in Task |-> IF t \in moved THEN Written(tasks[t], "active") ELSE tasks[t]],
           TRUE, {})
  /\ UNCHANGED <<now, batched>>

KeepBacklog(i) ==
  /\ Oldest(i) /\ questions[i].kind = "backlog" /\ ~Expired(questions[i])
  /\ Close(i, "resolved")
  /\ UNCHANGED <<tasks, now, history>>

\* The tasks a "yes" is about, and the ones that are as they were previewed.
Requested(q) == IF q.edited THEN q.selected ELSE q.targets
Eligible(q)  == {t \in Requested(q) : Unchanged(q, t)}
Bulk(i) == Oldest(i) /\ questions[i].kind = "bulk" /\ ~Expired(questions[i])

ConfirmBatch(i, next, resolved, overdue) ==
  /\ Bulk(i)
  /\ LET eligible == Eligible(questions[i])
     IN  /\ eligible # {} /\ Writable(eligible)
         /\ Successors(eligible, next, overdue)
         /\ Apply(i, Completed(eligible, next), resolved, overdue)
         /\ batched' = [batched EXCEPT ![i] =
              [t \in Task |-> IF t \in eligible THEN @[t] + 1 ELSE @[t]]]
  /\ UNCHANGED now

NothingLeft(i) ==
  /\ Bulk(i) /\ Eligible(questions[i]) = {}
  /\ Close(i, "cancelled")
  /\ UNCHANGED <<tasks, now, history>>

Expire(i) ==
  /\ Oldest(i) /\ Expires(questions[i]) /\ Expired(questions[i])
  /\ Close(i, "cancelled")
  /\ UNCHANGED <<tasks, now, history>>

Offered(q) == {t \in q.targets : Exists(t)}

\* Faulty variant of Edit: the list is previewed again.
EditRefreshes(i) ==
  /\ Bulk(i)
  /\ questions' = [questions EXCEPT ![i].edited = TRUE, ![i].selected = Offered(questions[i]),
                                    ![i].snapshots = tasks]
  /\ UNCHANGED <<tasks, now, history>>

\* "Choose again": every task is selected, then numbers change the selection.
Edit(i) ==
  /\ Bulk(i)
  /\ questions' = [questions EXCEPT ![i].edited = TRUE, ![i].selected = Offered(questions[i])]
  /\ UNCHANGED <<tasks, now, history>>

\* One number toggles a task, several replace the selection.
Select(i, S) ==
  /\ Bulk(i) /\ questions[i].edited /\ S \subseteq Offered(questions[i])
  /\ LET selected == questions[i].selected \cap Offered(questions[i])
     IN  Cardinality(S) > 1 \/ \E t \in Offered(questions[i]) :
           S = IF t \in selected THEN selected \ {t} ELSE selected \cup {t}
  /\ questions' = [questions EXCEPT ![i].selected = S]
  /\ UNCHANGED <<tasks, now, history>>

-----------------------------------------------------------------------------

\* Any other handler creates or writes a task: a button, a capture, an undo.
Change(t, status) ==
  /\ Exists(t) /\ Writable({t})
  /\ tasks' = [tasks EXCEPT ![t] = Written(@, status)]
  /\ UNCHANGED <<questions, now, history>>

Capture(t) ==
  /\ tasks[t].status = "absent"
  /\ tasks' = [tasks EXCEPT ![t].status = "active"]
  /\ UNCHANGED <<questions, now, history>>

Tick ==
  /\ now < Horizon /\ now' = now + 1
  /\ UNCHANGED <<tasks, questions, history>>

Answer(i) ==
  \/ Decline(i) \/ Expire(i) \/ KeepBacklog(i) \/ NothingLeft(i) \/ Edit(i)
  \/ \E resolved \in BOOLEAN : AnswerReminder(i, resolved)
  \/ \E S \in SUBSET Task : Select(i, S) \/ SkipBacklog(i, S)
  \/ \E t \in Task, resolved \in BOOLEAN : AnswerWrite(i, t, resolved)
  \/ \E t \in Task : AnswerScope(i, t)
  \/ \E next \in SUBSET Absent, resolved \in BOOLEAN, overdue \in SUBSET Task :
       \/ ConfirmBatch(i, next, resolved, overdue)
       \/ \E t \in Task : AnswerDone(i, t, next, resolved, overdue)

Next ==
  \/ \E i \in DOMAIN questions : Answer(i)
  \/ \E kind \in Kind, S \in SUBSET Task : Ask(kind, S)
  \/ \E S \in SUBSET Task : AskBacklog(S)
  \/ AskByButton \/ Supersede \/ Tick
  \/ \E t \in Task : Capture(t)
  \/ \E t \in Task, status \in {"active", "done", "cancelled", "gone"} : Change(t, status)

Spec == Init /\ [][Next]_vars

-----------------------------------------------------------------------------
(* Properties.                                                             *)

\* An answer takes effect once, and once more at most for every time the
\* process ended before the question was closed.
AppliedOnce == \A i \in DOMAIN questions : applied[i] <= crashes + 1

\* Even then a batch does not complete a task a second time, whatever undos and
\* edits came between.
BatchOnce == \A i \in DOMAIN questions, t \in Task : batched[i][t] <= 1

\* A batch completes no task that was changed after it was previewed, and none
\* after its time, however often the selection was edited.
StaleSpared ==
  [][\A i \in DOMAIN questions, t \in Task :
       batched'[i][t] > batched[i][t] =>
         tasks[t] = questions[i].preview[t] /\ now <= questions[i].created_at + TTL]_vars
=============================================================================
