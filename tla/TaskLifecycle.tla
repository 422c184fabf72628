--------------------------- MODULE TaskLifecycle ---------------------------
(***************************************************************************)
(* The life of a task row: capture, completion with its next recurrence,   *)
(* batches, merges, the buttons under a task list and every undo path.     *)
(*                                                                         *)
(* Telegram updates are handled one after another and no background loop   *)
(* writes tasks, so a handler is one step; what can cut a handler short is *)
(* the end of the process between two of its commits, which is modelled as *)
(* a step that performs a prefix of the handler's commits.                 *)
(***************************************************************************)
EXTENDS Integers, Sequences

CONSTANTS
  TaskId,     \* identifiers new_id() may return
  NoId,       \* the NULL of a task reference
  NoDay,      \* the NULL of a date column
  Dates,      \* dates a user may give, in days
  Rules,      \* recurrence rules a user may ask for, with "none"
  Horizon,    \* bound on the clock, in days
  WeekLen,    \* days in a week (7 in the code)
  MaxWrites,  \* bound on the writes of one row
  MaxEvents   \* bound on the events that can be undone

ASSUME TaskIdAssumption == NoId \notin TaskId
ASSUME DayAssumption    == NoDay \notin Int /\ Dates \subseteq Int
ASSUME RuleAssumption   == Rules \subseteq {"none", "daily", "weekly"}
ASSUME WeekAssumption   == WeekLen \in Nat \ {0, 1}
ASSUME BoundAssumption  == Horizon \in Nat /\ MaxWrites \in Nat /\ MaxEvents \in Nat

VARIABLES
  tasks,      \* the rows of the table tasks, by id
  used,       \* identifiers handed out so far: a uuid is never reused
  log,        \* the events an undo can name, in the order they were appended
  undone,     \* positions of log that have a WORK_ITEM_UNDONE event
  backlogs,   \* pending recurrence_backlog_policy clarifications
  today       \* the clock, in days

vars == <<tasks, used, log, undone, backlogs, today>>

OptDay   == Int \cup {NoDay}
Rule     == {"none", "daily", "weekly"}
\* candidate, open, waiting and blocked are treated alike by every guard.
Status   == {"active", "done", "cancelled"}
\* updated_at is only compared for equality: a count of the writes stands for it.
\* A row with a rule belongs to a series.
Row == {r \in [status : Status, rule : Rule, due : OptDay,
               series : TaskId \cup {NoId}, occ : OptDay, updated_at : Nat] :
          r.rule # "none" => r.series # NoId}

\* WORK_ITEM_CHANGED with the "before" snapshot the undo button restores.
ItemEvent  == [kind : {"item"}, task : TaskId, status : Status, due : OptDay,
               next : TaskId \cup {NoId}]
BatchItem  == [task : TaskId, after : Nat, next : TaskId \cup {NoId}, next_after : Nat]
\* TASK_BATCH_COMPLETED.
BatchEvent == [kind : {"batch"}, items : SUBSET BatchItem]
\* WORK_ITEM_CHANGED with action merge_tasks: both parts were active before.
MergeEvent == [kind : {"merge"}, task : TaskId, parts : SUBSET TaskId]
Event      == ItemEvent \cup BatchEvent \cup MergeEvent

\* One entry of the clarification's payload.
Backlog == [task : TaskId, future : Int, expected : Nat]

TypeOK ==
  /\ used \subseteq TaskId
  /\ DOMAIN tasks \subseteq used
  /\ tasks \in [DOMAIN tasks -> Row]
  /\ log \in Seq(Event)
  /\ undone \subseteq DOMAIN log
  /\ backlogs \subseteq SUBSET Backlog
  /\ today \in Int

Init ==
  /\ tasks = [t \in {} |-> NoId]
  /\ used = {} /\ log = <<>> /\ undone = {} /\ backlogs = {} /\ today = 0

-----------------------------------------------------------------------------
(* The rows and the recurrence of a task.                                  *)

Live       == DOMAIN tasks
Active(t)  == t \in Live /\ tasks[t].status = "active"
Fresh      == TaskId \ used
Recurs(t)  == tasks[t].rule # "none" /\ tasks[t].due # NoDay
SeriesUnset(t) == tasks[t].series                      \* faulty variant of SeriesOf
SeriesOf(t) == IF tasks[t].series = NoId THEN t ELSE tasks[t].series
OccurrenceOf(t) == IF tasks[t].occ = NoDay THEN tasks[t].due ELSE tasks[t].occ
Step(rule) == IF rule = "weekly" THEN WeekLen ELSE 1
NextDue(t) == OccurrenceOf(t) + Step(tasks[t].rule)

\* Faulty variant of Occupied: any row of the series counts.
OccupiedBySeries(series, day) == \E x \in Live : tasks[x].series = series

\* The row find_recurrence_occurrence would return.
Occupied(series, day) ==
  \E x \in Live : tasks[x].series = series /\ tasks[x].occ = day

\* Faulty variant of Missing: the occurrence is not looked up.
MissingUnchecked(t) == Recurs(t)

\* The next occurrence does not exist yet (in any status).
Missing(t) == Recurs(t) /\ ~Occupied(SeriesOf(t), NextDue(t))

\* The successors a completion of the tasks in S creates: new maps the tasks
\* whose next occurrence is missing to fresh identifiers.  Of two tasks that
\* want the same occurrence the first creates it and the second finds it.
Successors(S, new) ==
  /\ DOMAIN new \subseteq {t \in S : Missing(t)}
  /\ \A t \in S : Missing(t) =>
       \E c \in DOMAIN new : SeriesOf(c) = SeriesOf(t) /\ NextDue(c) = NextDue(t)
  /\ \A c \in DOMAIN new : new[c] \in Fresh
  /\ \A c, d \in DOMAIN new : c # d =>
       /\ new[c] # new[d]
       /\ SeriesOf(c) # SeriesOf(d) \/ NextDue(c) # NextDue(d)

Choices(S) == UNION {[C -> Fresh] : C \in SUBSET S}
Created(new) == {new[c] : c \in DOMAIN new}

\* Faulty variants of NextRow: a series of its own, and no series at all.
NextRowOfTask(t) ==
  [status |-> "active", rule |-> tasks[t].rule, due |-> NextDue(t),
   series |-> t, occ |-> NextDue(t), updated_at |-> 0]
NextRowNoSeries(t) ==
  [status |-> "active", rule |-> tasks[t].rule, due |-> NextDue(t),
   series |-> NoId, occ |-> NextDue(t), updated_at |-> 0]

NextRow(t) ==
  [status |-> "active", rule |-> tasks[t].rule, due |-> NextDue(t),
   series |-> SeriesOf(t), occ |-> NextDue(t), updated_at |-> 0]

\* One more write of a row.
Touch(row) == [row EXCEPT !.updated_at = @ + 1]
Writable(S) == \A t \in S : tasks[t].updated_at < MaxWrites

\* The tasks after those in "done" are marked done and the successors created.
Completed(done, new) ==
  [x \in Live \cup Created(new) |->
     IF x \notin Live
       THEN NextRow(CHOOSE c \in DOMAIN new : new[c] = x)
     ELSE IF x \in done THEN Touch([tasks[x] EXCEPT !.status = "done"])
     ELSE tasks[x]]

Remember(e) == Len(log) < MaxEvents /\ log' = Append(log, e)

\* The successor of t after a step that completed t.
SuccessorAfter(t, x) ==
  x \in DOMAIN tasks' /\ tasks'[x].series = SeriesOf(t) /\ tasks'[x].occ = NextDue(t)

\* future_recurrence_occurrence: the first occurrence after now.
FutureDue(day, rule) ==
  day + Step(rule) * ((today - day) \div Step(rule) + 1)

\* _recurrence_backlog: the successors of the completed tasks that are overdue.
Overdue(S) ==
  {[task |-> x, future |-> FutureDue(tasks'[x].due, tasks'[x].rule),
    expected |-> tasks'[x].updated_at] :
     x \in {y \in DOMAIN tasks' : /\ \E t \in S : Recurs(t) /\ SuccessorAfter(t, y)
                                 /\ tasks'[y].due # NoDay /\ tasks'[y].rule # "none"
                                 /\ tasks'[y].due <= today}}

\* The question is a commit after the completion: asked is FALSE when the
\* process ends between the two.
RequestBacklog(S, asked) ==
  backlogs' = IF asked /\ Overdue(S) # {} THEN backlogs \cup {Overdue(S)} ELSE backlogs

-----------------------------------------------------------------------------
(* Capture.                                                                *)

\* A task candidate of a note becomes a row; a recurring one starts a series.
CaptureTask(t, rule, due) ==
  /\ t \in Fresh
  /\ tasks' = [x \in Live \cup {t} |->
       IF x # t THEN tasks[x]
       ELSE [status |-> "active", rule |-> rule, due |-> due,
             series |-> IF rule = "none" THEN NoId ELSE t,
             occ |-> IF rule = "none" THEN NoDay ELSE due, updated_at |-> 0]]
  /\ used' = used \cup {t}
  /\ UNCHANGED <<log, undone, backlogs, today>>

\* A completion note ("da lam xong X") marks the active tasks it matches done.
CompleteMatching(S) ==
  /\ S # {} /\ \A t \in S : Active(t)
  /\ Writable(S)
  /\ tasks' = [x \in Live |->
       IF x \in S THEN Touch([tasks[x] EXCEPT !.status = "done"]) ELSE tasks[x]]
  /\ UNCHANGED <<used, log, undone, backlogs, today>>

-----------------------------------------------------------------------------
(* TaskOperationService: completion, batch and its guarded undo.           *)

\* complete_and_schedule_next on one row: a row that is done already is not
\* written again, but its missing successor is still created.
CompleteAndScheduleNext(t, new) ==
  /\ t \in Live
  /\ Successors({t}, new)
  /\ LET done == IF tasks[t].status = "done" THEN {} ELSE {t}
     IN  Writable(done) /\ tasks' = Completed(done, new)
  /\ used' = used \cup Created(new)

CompleteTask(t, new, asked) ==
  /\ CompleteAndScheduleNext(t, new)
  /\ RequestBacklog({t}, asked)
  /\ UNCHANGED <<log, undone, today>>

BatchItemOf(t, new) ==
  [task |-> t, after |-> tasks[t].updated_at + 1,
   next |-> IF t \in DOMAIN new THEN new[t] ELSE NoId, next_after |-> 0]

\* complete_many on the targets that are still active, in one transaction.
CompleteMany(S, new, asked) ==
  /\ S # {} /\ \A t \in S : Active(t)
  /\ Writable(S)
  /\ Successors(S, new)
  /\ tasks' = Completed(S, new)
  /\ used' = used \cup Created(new)
  /\ Remember([kind |-> "batch", items |-> {BatchItemOf(t, new) : t \in S}])
  /\ RequestBacklog(S, asked)
  /\ UNCHANGED <<undone, today>>

\* Faulty variant of Untouched: the version of the occurrence is not compared.
UntouchedTask(item) ==
  /\ item.task \in Live
  /\ tasks[item.task].status = "done"
  /\ tasks[item.task].updated_at = item.after
  /\ item.next # NoId => item.next \in Live

\* undo_batch restores an item only when the task and the occurrence created
\* for it have not been written since.
Untouched(item) ==
  /\ item.task \in Live
  /\ tasks[item.task].status = "done"
  /\ tasks[item.task].updated_at = item.after
  /\ item.next # NoId => /\ item.next \in Live
                         /\ tasks[item.next].updated_at = item.next_after

UndoBatch(i) ==
  /\ i \in DOMAIN log \ undone /\ log[i].kind = "batch"
  /\ LET restored == {item \in log[i].items : Untouched(item)}
         ids      == {item.task : item \in restored}
     IN  /\ Writable(ids)
         /\ tasks' = [x \in Live \ {item.next : item \in restored} |->
              IF x \in ids THEN Touch([tasks[x] EXCEPT !.status = "active"])
              ELSE tasks[x]]
  /\ undone' = undone \cup {i}
  /\ UNCHANGED <<used, log, backlogs, today>>

-----------------------------------------------------------------------------
(* The buttons under a task list (WorkActionService) and their undo.       *)

\* The event that carries the undo button is a commit of its own: recorded is
\* FALSE when the process ends before it.
Record(t, next, recorded) ==
  IF recorded
    THEN Remember([kind |-> "item", task |-> t, status |-> tasks[t].status,
                   due |-> tasks[t].due, next |-> next])
    ELSE UNCHANGED log

ExecuteDone(t, new, recorded) ==
  /\ CompleteAndScheduleNext(t, new)
  /\ Record(t, IF t \in DOMAIN new THEN new[t] ELSE NoId, recorded)
  /\ UNCHANGED <<undone, backlogs, today>>

\* The cancel, due and priority buttons write one row whatever its status;
\* the priority itself is not modelled, only its write and its snapshot.  The
\* due buttons offer later today, tomorrow and in a week.
ExecuteEdit(t, status, due, recorded) ==
  /\ t \in Live /\ Writable({t})
  /\ \/ status = "cancelled" /\ due = tasks[t].due
     \/ status = tasks[t].status /\ due \in Int /\ due >= today
     \/ status = tasks[t].status /\ due = tasks[t].due
  /\ tasks' = [tasks EXCEPT ![t] = Touch([@ EXCEPT !.status = status, !.due = due])]
  /\ Record(t, NoId, recorded)
  /\ UNCHANGED <<used, undone, backlogs, today>>

\* _undo deletes the occurrence the event created, then restores status, due
\* date and priority, then appends WORK_ITEM_UNDONE; each is a commit, and the
\* process may end after the first, second or third.
UndoItem(i, commits) ==
  /\ i \in DOMAIN log \ undone /\ log[i].kind = "item"
  /\ LET e == log[i]
         Restored(row) ==
           Touch([row EXCEPT !.status = e.status,
                             !.due = IF commits > 2 THEN e.due ELSE @])
     IN  /\ Writable({e.task} \cap Live)
         /\ tasks' = [x \in Live \ {e.next} |->
              IF x = e.task /\ commits > 1 THEN Restored(tasks[x]) ELSE tasks[x]]
  /\ undone' = IF commits = 4 THEN undone \cup {i} ELSE undone
  /\ UNCHANGED <<used, log, backlogs, today>>

-----------------------------------------------------------------------------
(* Conversation and clarification answers.                                 *)

\* A cancel sentence (an active task) or a selection answered later (any).
CancelTask(t) ==
  /\ t \in Live /\ Writable({t})
  /\ tasks' = [tasks EXCEPT ![t] = Touch([@ EXCEPT !.status = "cancelled"])]
  /\ UNCHANGED <<used, log, undone, backlogs, today>>

\* "Only this occurrence", and every due-date change of a plain task.
ChangeDue(t, due) ==
  /\ t \in Live /\ Writable({t})
  /\ tasks' = [tasks EXCEPT ![t] = Touch([@ EXCEPT !.due = due])]
  /\ UNCHANGED <<used, log, undone, backlogs, today>>

\* update_recurrence makes the due date the occurrence; the unique index on
\* (series, occurrence) refuses the statement when another row holds the pair.
IndexAllows(t, day) ==
  day # NoDay => \A x \in Live \ {t} :
    ~(tasks[x].series = SeriesOf(t) /\ tasks[x].occ = day)

ChangeRecurrence(t, due, rule) ==
  /\ t \in Live /\ Writable({t})
  /\ rule # "none" /\ (due = tasks[t].due \/ due \in Int)
  /\ IndexAllows(t, due)
  /\ tasks' = [tasks EXCEPT ![t] =
       Touch([@ EXCEPT !.due = due, !.rule = rule, !.series = SeriesOf(t), !.occ = due])]
  /\ UNCHANGED <<used, log, undone, backlogs, today>>

\* The answer "keep every occurrence", and an answer after the 15 minutes.
KeepBacklog(b) ==
  /\ b \in backlogs
  /\ backlogs' = backlogs \ {b}
  /\ UNCHANGED <<tasks, used, log, undone, today>>

\* The entries whose occurrence is as it was when the question was asked.
Unchanged(b) ==
  {item \in b : /\ Active(item.task)
                /\ tasks[item.task].updated_at = item.expected}

\* reschedule_recurrence_occurrence needs a rule and a free occurrence.
Movable(item) ==
  /\ tasks[item.task].rule # "none"
  /\ \A x \in Live \ {item.task} :
       ~(tasks[x].series = SeriesOf(item.task) /\ tasks[x].occ = item.future)

Clash(i, j) == SeriesOf(i.task) = SeriesOf(j.task) /\ i.future = j.future

\* The answer "skip": of two entries that clash the first one moves.
SkipBacklog(b, moved) ==
  /\ b \in backlogs
  /\ moved \subseteq {item \in Unchanged(b) : Movable(item)}
  /\ \A i, j \in moved : i # j => ~Clash(i, j)
  /\ \A i \in Unchanged(b) \ moved : Movable(i) => \E j \in moved : Clash(i, j)
  /\ Writable({item.task : item \in moved})
  /\ tasks' = [x \in Live |->
       IF \E item \in moved : item.task = x
         THEN LET day == (CHOOSE item \in moved : item.task = x).future
              IN  Touch([tasks[x] EXCEPT !.due = day, !.occ = day])
         ELSE tasks[x]]
  /\ backlogs' = backlogs \ {b}
  /\ UNCHANGED <<used, log, undone, today>>

\* _merge_tasks: the parts are cancelled and a new row takes the earlier date.
Earlier(d1, d2) ==
  IF d1 = NoDay THEN d2 ELSE IF d2 = NoDay \/ d1 <= d2 THEN d1 ELSE d2

MergeTasks(a, b, m) ==
  /\ a # b /\ Active(a) /\ Active(b) /\ m \in Fresh
  /\ Writable({a, b})
  /\ LET due  == Earlier(tasks[a].due, tasks[b].due)
         rule == IF tasks[a].rule = tasks[b].rule THEN tasks[a].rule ELSE "none"
     IN  tasks' = [x \in Live \cup {m} |->
           IF x = m
             THEN [status |-> "active", rule |-> rule, due |-> due,
                   series |-> IF rule = "none" THEN NoId ELSE m,
                   occ |-> IF rule = "none" THEN NoDay ELSE due, updated_at |-> 0]
           ELSE IF x \in {a, b} THEN Touch([tasks[x] EXCEPT !.status = "cancelled"])
           ELSE tasks[x]]
  /\ used' = used \cup {m}
  /\ Remember([kind |-> "merge", task |-> m, parts |-> {a, b}])
  /\ UNCHANGED <<undone, backlogs, today>>

\* _undo_last_action on a merge: one transaction, no freshness check.
UndoMerge(i) ==
  /\ i \in DOMAIN log \ undone /\ log[i].kind = "merge"
  /\ Writable(log[i].parts \cap Live)
  /\ tasks' = [x \in Live \ {log[i].task} |->
       IF x \in log[i].parts THEN Touch([tasks[x] EXCEPT !.status = "active"])
       ELSE tasks[x]]
  /\ undone' = undone \cup {i}
  /\ UNCHANGED <<used, log, backlogs, today>>

Tick ==
  /\ today < Horizon
  /\ today' = today + 1
  /\ UNCHANGED <<tasks, used, log, undone, backlogs>>

Next ==
  \/ \E t \in TaskId, rule \in Rules, due \in Dates \cup {NoDay} :
       CaptureTask(t, rule, due)
  \/ \E S \in SUBSET Live : CompleteMatching(S)
  \/ \E t \in Live : \E new \in Choices({t}), committed \in BOOLEAN :
       \/ CompleteTask(t, new, committed)
       \/ ExecuteDone(t, new, committed)
  \/ \E S \in SUBSET Live : \E new \in Choices(S), asked \in BOOLEAN :
       CompleteMany(S, new, asked)
  \/ \E t \in Live, status \in Status, due \in Dates \cup {NoDay}, recorded \in BOOLEAN :
       ExecuteEdit(t, status, due, recorded)
  \/ \E t \in Live : CancelTask(t)
  \/ \E t \in Live, due \in Dates : ChangeDue(t, due)
  \/ \E t \in Live, rule \in Rules, due \in Dates \cup {NoDay} : ChangeRecurrence(t, due, rule)
  \/ \E i \in DOMAIN log :
       \/ UndoBatch(i)
       \/ \E commits \in 1 .. 4 : UndoItem(i, commits)
       \/ UndoMerge(i)
  \/ \E b \in backlogs :
       \/ KeepBacklog(b)
       \/ \E moved \in SUBSET b : SkipBacklog(b, moved)
  \/ \E a, b \in Live, m \in Fresh : MergeTasks(a, b, m)
  \/ Tick

Spec == Init /\ [][Next]_vars

-----------------------------------------------------------------------------
(* Properties.                                                             *)

\* At most one row stands for an occurrence of a series, whatever mixture of
\* completions, reschedules, recurrence changes and undos led there: the code
\* looks the occurrence up before it inserts or moves a row, and never relies
\* on the unique index to fail (only update_recurrence does).
UniqueOccurrence ==
  \A x, y \in Live :
    /\ x # y
    /\ tasks[x].series # NoId /\ tasks[x].occ # NoDay
    => ~(tasks[x].series = tasks[y].series /\ tasks[x].occ = tasks[y].occ)

\* The occurrence an undo would delete is a generated one of the very series
\* of the task it restores: no later change of rule, date or series can make
\* a recorded next_task_id point at another series or at a captured task.
NextPairs(e) ==   \* the tasks and the created occurrences an event records
  IF e.kind = "item" THEN {<<e.task, e.next>>}
  ELSE IF e.kind = "batch" THEN {<<item.task, item.next>> : item \in e.items}
  ELSE {}

RecordedNext(task, next) ==
  next \in Live => /\ tasks[next].series \notin {NoId, next}
                   /\ task \in Live => tasks[next].series = SeriesOf(task)

RecordedNextInSeries ==
  \A i \in DOMAIN log : \A p \in NextPairs(log[i]) : RecordedNext(p[1], p[2])

\* No step deletes a task the owner captured: what an undo removes is an
\* occurrence the program generated or the row a merge created.
OnlyGeneratedDeleted ==
  [][\A t \in Live : t \notin DOMAIN tasks' =>
       \/ tasks[t].series \notin {NoId, t}
       \/ \E i \in DOMAIN log : log[i].kind = "merge" /\ log[i].task = t]_vars

\* "Tasks changed after the batch are skipped rather than overwritten": the
\* undo of a batch writes a task, or deletes the occurrence created for it,
\* only if neither row was written after the batch.
BatchUndoSparesLaterWork ==
  [][\A i \in undone' \ undone : log[i].kind = "batch" =>
       \A t \in Live :
         (t \notin DOMAIN tasks' \/ tasks'[t] # tasks[t]) =>
           \E item \in log[i].items :
             \/ t = item.task /\ tasks[t].updated_at = item.after
             \/ t = item.next /\ tasks[t].updated_at = item.next_after]_vars

\* A completed recurring task of a recorded step (a button or a batch) leaves
\* its next occurrence in the table, exactly once ("creates exactly one next
\* occurrence"), also when several completed tasks share that occurrence.
RecordedCompletionHasSuccessor ==
  [][\A i \in DOMAIN log' \ DOMAIN log, t \in Live :
       /\ \/ log'[i].kind = "batch" /\ \E item \in log'[i].items : item.task = t
          \/ log'[i].kind = "item" /\ log'[i].task = t /\ tasks[t].status # tasks'[t].status
       /\ tasks'[t].status = "done"
       /\ Recurs(t)
       => \E x \in DOMAIN tasks' :
            SuccessorAfter(t, x) /\ \A y \in DOMAIN tasks' : SuccessorAfter(t, y) => x = y]_vars

\* "Completing a recurring occurrence marks that occurrence done and creates
\* exactly one next occurrence", of every step that completes a task.
EveryCompletionSchedulesNext ==
  [][\A t \in Live :
       (t \in DOMAIN tasks' /\ Active(t) /\ tasks'[t].status = "done" /\ Recurs(t)) =>
         \E x \in DOMAIN tasks' : SuccessorAfter(t, x)]_vars

\* "Recurring completion preserves one occurrence at a time".
OneActiveOccurrence ==
  \A x, y \in Live :
    (Active(x) /\ Active(y) /\ tasks[x].series # NoId /\ tasks[x].series = tasks[y].series)
      => x = y

=============================================================================
