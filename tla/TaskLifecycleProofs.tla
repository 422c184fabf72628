------------------------ MODULE TaskLifecycleProofs ------------------------
(***************************************************************************)
(* Theorems about TaskLifecycle, for every set of identifiers, dates and   *)
(* rules and every bound.                                                  *)
(***************************************************************************)
EXTENDS TaskLifecycle, SequenceTheorems, TLAPS

-----------------------------------------------------------------------------
(* Dates.                                                                  *)

\* A rule is a positive number of days.
LEMMA StepPositive ==
  ASSUME NEW rule \in Rule
  PROVE  Step(rule) \in Nat /\ Step(rule) > 0
BY WeekAssumption DEF Step, Rule

\* The first occurrence after now is a day after now.
LEMMA FutureDueDay ==
  ASSUME NEW day \in Int, NEW rule \in Rule, today \in Int
  PROVE  FutureDue(day, rule) \in Int
<1> DEFINE k == Step(rule)
           q == (today - day) \div k
<1>1. k \in Nat /\ k > 0
  BY StepPositive
<1>2. q \in Int
  <2> HIDE DEF k
  <2> QED BY <1>1 DEF q
<1> HIDE DEF k, q
<1>3. day + k * (q + 1) \in Int
  BY <1>1, <1>2
<1> QED BY <1>3 DEF FutureDue, k, q

\* The occurrence after a row that has a rule and a due date.
LEMMA NextDueDay ==
  ASSUME TypeOK, NEW t \in Live, Recurs(t)
  PROVE  NextDue(t) \in Int /\ NextDue(t) # NoDay
<1>1. tasks[t] \in Row
  BY DEF TypeOK, Live
<1>2. OccurrenceOf(t) \in Int
  BY <1>1, DayAssumption DEF OccurrenceOf, Recurs, Row, OptDay
<1>3. Step(tasks[t].rule) \in Nat
  BY <1>1, StepPositive DEF Row
<1>4. NextDue(t) \in Int
  BY <1>2, <1>3 DEF NextDue
<1> QED BY <1>4, DayAssumption

-----------------------------------------------------------------------------
(* Rows after a step.                                                      *)

\* A live row is a Row, and a row that recurs carries its series.
LEMMA RowOf ==
  ASSUME TypeOK, NEW t \in Live
  PROVE  /\ tasks[t] \in Row /\ t \in TaskId /\ t \in used /\ t # NoId
         /\ SeriesOf(t) \in TaskId
         /\ Recurs(t) => tasks[t].series # NoId /\ SeriesOf(t) = tasks[t].series
BY TaskIdAssumption DEF TypeOK, Live, Row, SeriesOf, Recurs

\* One more write of a row changes its version only.
LEMMA TouchRow ==
  ASSUME NEW row \in Row
  PROVE  Touch(row) \in Row /\ Touch(row).series = row.series /\ Touch(row).occ = row.occ
BY DEF Touch, Row

\* A change of status leaves series and occurrence.
LEMMA StatusRow ==
  ASSUME NEW row \in Row, NEW status \in Status
  PROVE  LET changed == [row EXCEPT !.status = status]
         IN  /\ Touch(changed) \in Row
             /\ Touch(changed).series = row.series
             /\ Touch(changed).occ = row.occ
<1> DEFINE changed == [row EXCEPT !.status = status]
<1>1. changed \in Row /\ changed.series = row.series /\ changed.occ = row.occ
  BY DEF Row
<1> QED BY <1>1, TouchRow

\* What a completion leaves: every row keeps its series and occurrence, and
\* the created rows are fresh successors.
LEMMA CompletedRows ==
  ASSUME TypeOK, NEW S \in SUBSET Live, NEW new, NEW done \in SUBSET Live,
         Successors(S, new), tasks' = Completed(done, new)
  PROVE  /\ DOMAIN tasks' = Live \cup Created(new)
         /\ Created(new) \subseteq Fresh
         /\ \A x \in Live : /\ tasks'[x] \in Row
                            /\ tasks'[x].series = tasks[x].series
                            /\ tasks'[x].occ = tasks[x].occ
         /\ \A x \in Created(new) : \E c \in DOMAIN new :
               /\ c \in S /\ Missing(c) /\ new[c] = x
               /\ tasks'[x] = NextRow(c) /\ NextRow(c) \in Row
<1>1. DOMAIN tasks' = Live \cup Created(new)
  BY DEF Completed
<1>2. Created(new) \subseteq Fresh
  BY DEF Successors, Created
<1>3. \A x \in Created(new) : x \notin Live
  BY <1>2, RowOf DEF Fresh
<1>4. ASSUME NEW x \in Live
      PROVE  /\ tasks'[x] \in Row
             /\ tasks'[x].series = tasks[x].series
             /\ tasks'[x].occ = tasks[x].occ
  <2>1. tasks'[x] = IF x \in done THEN Touch([tasks[x] EXCEPT !.status = "done"])
                    ELSE tasks[x]
    BY DEF Completed
  <2> QED BY <2>1, RowOf, StatusRow DEF Status
<1>5. ASSUME NEW x \in Created(new)
      PROVE  \E c \in DOMAIN new :
               /\ c \in S /\ Missing(c) /\ new[c] = x
               /\ tasks'[x] = NextRow(c) /\ NextRow(c) \in Row
  <2> DEFINE c == CHOOSE d \in DOMAIN new : new[d] = x
  <2>1. c \in DOMAIN new /\ new[c] = x
    BY DEF Created
  <2>2. tasks'[x] = NextRow(c)
    BY <1>3 DEF Completed
  <2> HIDE DEF c
  <2>3. c \in S /\ c \in Live /\ Missing(c)
    BY <2>1 DEF Successors
  <2>4. Recurs(c) /\ tasks[c] \in Row
    BY <2>3, RowOf DEF Missing
  <2>5. NextRow(c) \in Row
    <3>1. NextDue(c) \in OptDay
      BY <2>3, <2>4, NextDueDay DEF OptDay
    <3>2. SeriesOf(c) \in TaskId /\ SeriesOf(c) # NoId
      BY <2>3, RowOf, TaskIdAssumption
    <3> QED BY <2>4, <3>1, <3>2 DEF NextRow, Row, Status
  <2> QED BY <2>1, <2>2, <2>3, <2>5
<1> QED BY <1>1, <1>2, <1>4, <1>5

\* The question a completion asks names rows of the table after the step.
LEMMA BacklogType ==
  ASSUME TypeOK, NEW S \in SUBSET Live, NEW asked \in BOOLEAN, RequestBacklog(S, asked),
         DOMAIN tasks' \subseteq TaskId,
         \A x \in DOMAIN tasks' : tasks'[x] \in Row
  PROVE  backlogs' \subseteq SUBSET Backlog
<1>1. Overdue(S) \subseteq Backlog
  <2> SUFFICES ASSUME NEW y \in DOMAIN tasks', tasks'[y].due # NoDay
               PROVE  [task |-> y, future |-> FutureDue(tasks'[y].due, tasks'[y].rule),
                       expected |-> tasks'[y].updated_at] \in Backlog
    BY DEF Overdue
  <2>1. /\ tasks'[y].due \in Int /\ tasks'[y].rule \in Rule
        /\ tasks'[y].updated_at \in Nat /\ y \in TaskId
    BY DEF Row, OptDay
  <2>2. FutureDue(tasks'[y].due, tasks'[y].rule) \in Int
    BY <2>1, FutureDueDay DEF TypeOK
  <2> QED BY <2>1, <2>2 DEF Backlog
<1> QED BY <1>1 DEF RequestBacklog, TypeOK

\* The events that carry an undo.
LEMMA RememberType ==
  ASSUME TypeOK, NEW e \in Event, Remember(e)
  PROVE  /\ log' \in Seq(Event) /\ DOMAIN log \subseteq DOMAIN log'
         /\ DOMAIN log' = DOMAIN log \cup {Len(log) + 1}
         /\ log'[Len(log) + 1] = e
         /\ \A i \in DOMAIN log : log'[i] = log[i]
BY DEF Remember, TypeOK

\* A single completion that is recorded keeps the events well typed.
LEMMA RecordType ==
  ASSUME TypeOK, NEW t \in Live, NEW next \in TaskId \cup {NoId},
         NEW recorded \in BOOLEAN, Record(t, next, recorded)
  PROVE  log' \in Seq(Event) /\ DOMAIN log \subseteq DOMAIN log'
<1> DEFINE e == [kind |-> "item", task |-> t, status |-> tasks[t].status,
                 due |-> tasks[t].due, next |-> next]
<1>1. e \in Event
  BY RowOf DEF Event, ItemEvent, Row
<1>2. CASE recorded
  <2>1. Remember(e)
    BY <1>2 DEF Record
  <2> QED BY <1>1, <2>1, RememberType
<1>3. CASE ~recorded
  BY <1>3 DEF Record, TypeOK
<1> QED BY <1>2, <1>3

\* The batch items of a completion.
LEMMA BatchType ==
  ASSUME TypeOK, NEW S \in SUBSET Live, NEW new, Successors(S, new)
  PROVE  [kind |-> "batch", items |-> {BatchItemOf(t, new) : t \in S}] \in Event
<1>1. ASSUME NEW t \in S PROVE BatchItemOf(t, new) \in BatchItem
  <2>1. tasks[t].updated_at + 1 \in Nat /\ t \in TaskId
    BY RowOf DEF Row
  <2>2. t \in DOMAIN new => new[t] \in TaskId
    BY DEF Successors, Fresh
  <2> QED BY <2>1, <2>2 DEF BatchItemOf, BatchItem
<1> QED BY <1>1 DEF Event, BatchEvent

\* The kind of an event tells its fields.
LEMMA EventKinds ==
  ASSUME TypeOK, NEW i \in DOMAIN log
  PROVE  /\ log[i].kind = "item" => log[i] \in ItemEvent
         /\ log[i].kind = "batch" => log[i] \in BatchEvent
         /\ log[i].kind = "merge" => log[i] \in MergeEvent
<1>1. log[i] \in Event
  BY DEF TypeOK
<1> QED BY <1>1 DEF Event, ItemEvent, BatchEvent, MergeEvent

-----------------------------------------------------------------------------
(* Type correctness.                                                       *)

\* What a completion leaves is well typed.
LEMMA CompletionType ==
  ASSUME TypeOK, NEW S \in SUBSET Live, NEW new, NEW done \in SUBSET Live,
         Successors(S, new), tasks' = Completed(done, new), used' = used \cup Created(new)
  PROVE  /\ used' \subseteq TaskId /\ DOMAIN tasks' \subseteq used'
         /\ tasks' \in [DOMAIN tasks' -> Row]
<1>1. /\ DOMAIN tasks' = Live \cup Created(new)
      /\ Created(new) \subseteq Fresh
      /\ \A x \in Live : tasks'[x] \in Row
      /\ \A x \in Created(new) : tasks'[x] \in Row
  BY CompletedRows
<1>2. tasks' = [x \in DOMAIN tasks' |-> tasks'[x]]
  BY DEF Completed
<1> QED BY <1>1, <1>2 DEF TypeOK, Live, Fresh

\* Every handler leaves rows, events and pending clarifications of their types;
\* in particular a row with a rule always belongs to a series.
THEOREM TypeCorrect == Spec => []TypeOK
<1>1. Init => TypeOK
  BY DEF Init, TypeOK
<1>2. TypeOK /\ [Next]_vars => TypeOK'
  <2> SUFFICES ASSUME TypeOK, [Next]_vars PROVE TypeOK'
    OBVIOUS
  <2>1. ASSUME NEW t \in TaskId, NEW rule \in Rules, NEW due \in Dates \cup {NoDay},
               CaptureTask(t, rule, due)
        PROVE  TypeOK'
    <3>1. [status |-> "active", rule |-> rule, due |-> due,
           series |-> IF rule = "none" THEN NoId ELSE t,
           occ |-> IF rule = "none" THEN NoDay ELSE due, updated_at |-> 0] \in Row
      BY DayAssumption, RuleAssumption, TaskIdAssumption DEF Row, OptDay, Rule, Status
    <3>2. tasks' \in [DOMAIN tasks' -> Row] /\ DOMAIN tasks' = Live \cup {t}
      BY <2>1, <3>1, RowOf DEF CaptureTask
    <3> QED BY <2>1, <3>2 DEF CaptureTask, TypeOK, Live
  <2>2. ASSUME NEW S \in SUBSET Live, CompleteMatching(S) PROVE TypeOK'
    <3>1. tasks' \in [DOMAIN tasks' -> Row] /\ DOMAIN tasks' = Live
      BY <2>2, RowOf, StatusRow DEF CompleteMatching, Status
    <3> QED BY <2>2, <3>1 DEF CompleteMatching, TypeOK, Live
  <2>3. ASSUME NEW t \in Live, NEW new, NEW asked \in BOOLEAN,
               CompleteTask(t, new, asked) PROVE TypeOK'
    <3>1. /\ used' \subseteq TaskId /\ DOMAIN tasks' \subseteq used'
          /\ tasks' \in [DOMAIN tasks' -> Row]
      BY <2>3, CompletionType DEF CompleteTask, CompleteAndScheduleNext
    <3>2. backlogs' \subseteq SUBSET Backlog
      BY <2>3, <3>1, BacklogType DEF CompleteTask
    <3> QED BY <2>3, <3>1, <3>2 DEF CompleteTask, TypeOK
  <2>4. ASSUME NEW t \in Live, NEW new, NEW recorded \in BOOLEAN,
               ExecuteDone(t, new, recorded)
        PROVE  TypeOK'
    <3>1. /\ used' \subseteq TaskId /\ DOMAIN tasks' \subseteq used'
          /\ tasks' \in [DOMAIN tasks' -> Row]
      BY <2>4, CompletionType DEF ExecuteDone, CompleteAndScheduleNext
    <3>2. (IF t \in DOMAIN new THEN new[t] ELSE NoId) \in TaskId \cup {NoId}
      BY <2>4 DEF ExecuteDone, CompleteAndScheduleNext, Successors, Fresh
    <3>3. log' \in Seq(Event) /\ DOMAIN log \subseteq DOMAIN log'
      BY <2>4, <3>2, RecordType DEF ExecuteDone
    <3> QED BY <2>4, <3>1, <3>3 DEF ExecuteDone, TypeOK
  <2>5. ASSUME NEW S \in SUBSET Live, NEW new, NEW asked \in BOOLEAN,
               CompleteMany(S, new, asked) PROVE TypeOK'
    <3>1. /\ used' \subseteq TaskId /\ DOMAIN tasks' \subseteq used'
          /\ tasks' \in [DOMAIN tasks' -> Row]
      BY <2>5, CompletionType DEF CompleteMany
    <3>2. backlogs' \subseteq SUBSET Backlog
      BY <2>5, <3>1, BacklogType DEF CompleteMany
    <3>3. log' \in Seq(Event) /\ DOMAIN log \subseteq DOMAIN log'
      BY <2>5, BatchType, RememberType DEF CompleteMany
    <3> QED BY <2>5, <3>1, <3>2, <3>3 DEF CompleteMany, TypeOK
  <2>6. ASSUME NEW t \in Live, NEW status \in Status, NEW due \in Dates \cup {NoDay},
               NEW recorded \in BOOLEAN, ExecuteEdit(t, status, due, recorded)
        PROVE  TypeOK'
    <3>1. [tasks[t] EXCEPT !.status = status, !.due = due] \in Row
      BY RowOf, DayAssumption DEF Row, OptDay
    <3>2. tasks' \in [DOMAIN tasks' -> Row] /\ DOMAIN tasks' = Live
      BY <2>6, <3>1, RowOf, TouchRow DEF ExecuteEdit, TypeOK, Live
    <3>3. log' \in Seq(Event) /\ DOMAIN log \subseteq DOMAIN log'
      BY <2>6, RecordType DEF ExecuteEdit
    <3> QED BY <2>6, <3>2, <3>3 DEF ExecuteEdit, TypeOK, Live
  <2>7. ASSUME NEW t \in Live, CancelTask(t) PROVE TypeOK'
    <3>1. tasks' \in [DOMAIN tasks' -> Row] /\ DOMAIN tasks' = Live
      BY <2>7, RowOf, StatusRow DEF CancelTask, TypeOK, Live, Status
    <3> QED BY <2>7, <3>1 DEF CancelTask, TypeOK, Live
  <2>8. ASSUME NEW t \in Live, NEW due \in Dates, ChangeDue(t, due) PROVE TypeOK'
    <3>1. [tasks[t] EXCEPT !.due = due] \in Row
      BY RowOf, DayAssumption DEF Row, OptDay
    <3>2. tasks' \in [DOMAIN tasks' -> Row] /\ DOMAIN tasks' = Live
      BY <2>8, <3>1, RowOf, TouchRow DEF ChangeDue, TypeOK, Live
    <3> QED BY <2>8, <3>2 DEF ChangeDue, TypeOK, Live
  <2>9. ASSUME NEW t \in Live, NEW rule \in Rules, NEW due \in Dates \cup {NoDay},
               ChangeRecurrence(t, due, rule)
        PROVE  TypeOK'
    <3> DEFINE Changed(row, series) ==
                 [row EXCEPT !.due = due, !.rule = rule, !.series = series, !.occ = due]
    <3>a. due \in OptDay /\ rule \in Rule
      BY DayAssumption, RuleAssumption DEF OptDay, Rule
    <3>b. \A row \in Row, series \in TaskId : Changed(row, series) \in Row
      BY <3>a, TaskIdAssumption DEF Row
    <3>1. Changed(tasks[t], SeriesOf(t)) \in Row
      BY <3>b, RowOf
    <3>2. tasks' \in [DOMAIN tasks' -> Row] /\ DOMAIN tasks' = Live
      BY <2>9, <3>1, RowOf, TouchRow DEF ChangeRecurrence, TypeOK, Live
    <3> QED BY <2>9, <3>2 DEF ChangeRecurrence, TypeOK, Live
  <2>10. ASSUME NEW i \in DOMAIN log, UndoBatch(i) PROVE TypeOK'
    <3>1. tasks' \in [DOMAIN tasks' -> Row] /\ DOMAIN tasks' \subseteq Live
      BY <2>10, RowOf, StatusRow DEF UndoBatch, Status
    <3> QED BY <2>10, <3>1 DEF UndoBatch, TypeOK, Live
  <2>11. ASSUME NEW i \in DOMAIN log, NEW commits \in 1 .. 4, UndoItem(i, commits)
         PROVE  TypeOK'
    <3> DEFINE e == log[i]
               Restored(row) == [row EXCEPT !.status = e.status,
                                            !.due = IF commits > 2 THEN e.due ELSE @]
    <3>1. e \in ItemEvent
      BY <2>11, EventKinds DEF UndoItem
    <3>2. \A row \in Row : Restored(row) \in Row
      BY <3>1 DEF ItemEvent, Row, OptDay
    <3>3. tasks' \in [DOMAIN tasks' -> Row] /\ DOMAIN tasks' \subseteq Live
      BY <2>11, <3>2, RowOf, TouchRow DEF UndoItem
    <3> QED BY <2>11, <3>3 DEF UndoItem, TypeOK, Live
  <2>12. ASSUME NEW i \in DOMAIN log, UndoMerge(i) PROVE TypeOK'
    <3>1. tasks' \in [DOMAIN tasks' -> Row] /\ DOMAIN tasks' \subseteq Live
      BY <2>12, RowOf, StatusRow DEF UndoMerge, Status
    <3> QED BY <2>12, <3>1 DEF UndoMerge, TypeOK, Live
  <2>13. ASSUME NEW b \in backlogs, KeepBacklog(b) PROVE TypeOK'
    BY <2>13 DEF KeepBacklog, TypeOK
  <2>14. ASSUME NEW b \in backlogs, NEW moved \in SUBSET b, SkipBacklog(b, moved)
         PROVE  TypeOK'
    <3>1. \A item \in moved : item.future \in Int
      BY DEF TypeOK, Backlog
    <3>2. \A row \in Row, day \in Int : [row EXCEPT !.due = day, !.occ = day] \in Row
      BY DEF Row, OptDay
    <3>3. tasks' \in [DOMAIN tasks' -> Row] /\ DOMAIN tasks' = Live
      <4>1. ASSUME NEW x \in Live PROVE tasks'[x] \in Row
        BY <2>14, <3>1, <3>2, RowOf, TouchRow DEF SkipBacklog
      <4> QED BY <2>14, <4>1 DEF SkipBacklog
    <3> QED BY <2>14, <3>3 DEF SkipBacklog, TypeOK, Live
  <2>15. ASSUME NEW a \in Live, NEW b \in Live, NEW m \in Fresh, MergeTasks(a, b, m)
         PROVE  TypeOK'
    <3> DEFINE due  == Earlier(tasks[a].due, tasks[b].due)
               rule == IF tasks[a].rule = tasks[b].rule THEN tasks[a].rule ELSE "none"
    <3>1. due \in OptDay /\ rule \in Rule
      BY RowOf DEF Earlier, Row, OptDay, Rule
    <3>2. [status |-> "active", rule |-> rule, due |-> due,
           series |-> IF rule = "none" THEN NoId ELSE m,
           occ |-> IF rule = "none" THEN NoDay ELSE due, updated_at |-> 0] \in Row
      BY <3>1, TaskIdAssumption DEF Row, OptDay, Status, Fresh
    <3>3. tasks' \in [DOMAIN tasks' -> Row] /\ DOMAIN tasks' = Live \cup {m}
      BY <2>15, <3>2, RowOf, StatusRow DEF MergeTasks, Status
    <3>4. [kind |-> "merge", task |-> m, parts |-> {a, b}] \in Event
      BY RowOf DEF Event, MergeEvent, Fresh
    <3>5. log' \in Seq(Event) /\ DOMAIN log \subseteq DOMAIN log'
      BY <2>15, <3>4, RememberType DEF MergeTasks
    <3> QED BY <2>15, <3>3, <3>5 DEF MergeTasks, TypeOK, Live, Fresh
  <2>16. ASSUME Tick PROVE TypeOK'
    BY <2>16 DEF Tick, TypeOK
  <2>17. ASSUME UNCHANGED vars PROVE TypeOK'
    BY <2>17 DEF vars, TypeOK
  <2> QED
    BY <2>1, <2>2, <2>3, <2>4, <2>5, <2>6, <2>7, <2>8, <2>9, <2>10, <2>11, <2>12,
       <2>13, <2>14, <2>15, <2>16, <2>17 DEF Next
<1> QED BY <1>1, <1>2, PTL DEF Spec

-----------------------------------------------------------------------------
(* Series.  A row keeps the series it once has, and a row that joins one   *)
(* later joins the one named after itself.                                 *)

SeriesKept ==
  \A x \in DOMAIN tasks' :
    IF x \in Live
      THEN \/ tasks'[x].series = tasks[x].series
           \/ tasks[x].series = NoId /\ tasks'[x].series = x
      ELSE x \in Fresh

\* Every row keeps series and occurrence, and no row is added.
Keeps ==
  \A x \in DOMAIN tasks' : /\ x \in Live
                           /\ tasks'[x].series = tasks[x].series
                           /\ tasks'[x].occ = tasks[x].occ

\* The handlers that neither add a row nor touch series and occurrence.
LEMMA KeepingSteps ==
  ASSUME TypeOK
  PROVE  /\ \A S \in SUBSET Live : CompleteMatching(S) => Keeps
         /\ \A t \in Live, status \in Status, due \in Dates \cup {NoDay}, recorded \in BOOLEAN :
              ExecuteEdit(t, status, due, recorded) => Keeps
         /\ \A t \in Live : CancelTask(t) => Keeps
         /\ \A t \in Live, due \in Dates : ChangeDue(t, due) => Keeps
         /\ \A i \in DOMAIN log : UndoBatch(i) \/ UndoMerge(i) => Keeps
         /\ \A i \in DOMAIN log, commits \in 1 .. 4 : UndoItem(i, commits) => Keeps
<1>1. ASSUME NEW S \in SUBSET Live, CompleteMatching(S) PROVE Keeps
  BY <1>1, RowOf, StatusRow DEF CompleteMatching, Keeps, Status
<1>2. ASSUME NEW t \in Live, NEW status \in Status, NEW due \in Dates \cup {NoDay},
             NEW recorded \in BOOLEAN, ExecuteEdit(t, status, due, recorded)
      PROVE  Keeps
  <2> DEFINE row == [tasks[t] EXCEPT !.status = status, !.due = due]
  <2>a. due \in OptDay /\ tasks[t] \in Row
    BY RowOf, DayAssumption DEF OptDay
  <2>1. row \in Row /\ row.series = tasks[t].series /\ row.occ = tasks[t].occ
    BY <2>a DEF Row
  <2>2. tasks' = [tasks EXCEPT ![t] = Touch(row)]
    BY <1>2 DEF ExecuteEdit
  <2> QED BY <2>1, <2>2, TouchRow DEF Keeps, Live
<1>3. ASSUME NEW t \in Live, CancelTask(t) PROVE Keeps
  BY <1>3, RowOf, StatusRow DEF CancelTask, Keeps, Live, Status
<1>4. ASSUME NEW t \in Live, NEW due \in Dates, ChangeDue(t, due) PROVE Keeps
  <2> DEFINE row == [tasks[t] EXCEPT !.due = due]
  <2>1. row \in Row /\ row.series = tasks[t].series /\ row.occ = tasks[t].occ
    BY RowOf, DayAssumption DEF Row, OptDay
  <2>2. tasks' = [tasks EXCEPT ![t] = Touch(row)]
    BY <1>4 DEF ChangeDue
  <2> QED BY <2>1, <2>2, TouchRow DEF Keeps, Live
<1>5. ASSUME NEW i \in DOMAIN log, UndoBatch(i) \/ UndoMerge(i) PROVE Keeps
  <2>1. CASE UndoBatch(i)
    BY <2>1, RowOf, StatusRow DEF UndoBatch, Keeps, Status
  <2>2. CASE UndoMerge(i)
    BY <2>2, RowOf, StatusRow DEF UndoMerge, Keeps, Status
  <2> QED BY <1>5, <2>1, <2>2
<1>6. ASSUME NEW i \in DOMAIN log, NEW commits \in 1 .. 4, UndoItem(i, commits)
      PROVE  Keeps
  <2> DEFINE e == log[i]
             Restored(row) == [row EXCEPT !.status = e.status,
                                          !.due = IF commits > 2 THEN e.due ELSE @]
  <2>1. e \in ItemEvent
    BY <1>6, EventKinds DEF UndoItem
  <2>2. \A row \in Row : /\ Restored(row) \in Row
                         /\ Restored(row).series = row.series
                         /\ Restored(row).occ = row.occ
    BY <2>1 DEF ItemEvent, Row, OptDay
  <2>3. /\ DOMAIN tasks' = Live \ {e.next}
        /\ \A x \in DOMAIN tasks' :
             tasks'[x] = IF x = e.task /\ commits > 1 THEN Touch(Restored(tasks[x]))
                         ELSE tasks[x]
    BY <1>6 DEF UndoItem
  <2> HIDE DEF Restored
  <2> QED BY <2>2, <2>3, RowOf, TouchRow DEF Keeps
<1> QED BY <1>1, <1>2, <1>3, <1>4, <1>5, <1>6

\* ChangeRecurrence writes one row's series and occurrence.
LEMMA RecurrenceRow ==
  ASSUME TypeOK, NEW t \in Live, NEW rule \in Rules, NEW due \in Dates \cup {NoDay},
         ChangeRecurrence(t, due, rule)
  PROVE  /\ DOMAIN tasks' = Live
         /\ \A x \in Live \ {t} : tasks'[x] = tasks[x]
         /\ tasks'[t].series = SeriesOf(t) /\ tasks'[t].occ = due
         /\ IndexAllows(t, due)
<1> DEFINE Changed(row, series) ==
             [row EXCEPT !.due = due, !.rule = rule, !.series = series, !.occ = due]
<1>1. due \in OptDay /\ rule \in Rule /\ rule # "none"
  BY DayAssumption, RuleAssumption DEF OptDay, Rule, ChangeRecurrence
<1>2. \A row \in Row, series \in TaskId :
        /\ Changed(row, series) \in Row
        /\ Changed(row, series).series = series
        /\ Changed(row, series).occ = due
  BY <1>1, TaskIdAssumption DEF Row
<1>3. tasks' = [tasks EXCEPT ![t] = Touch(Changed(tasks[t], SeriesOf(t)))]
  BY DEF ChangeRecurrence
<1> HIDE DEF Changed
<1>4. LET row == Changed(tasks[t], SeriesOf(t))
      IN  Touch(row).series = SeriesOf(t) /\ Touch(row).occ = due
  BY <1>2, RowOf, TouchRow
<1> QED BY <1>3, <1>4 DEF Live, ChangeRecurrence

\* SkipBacklog moves the occurrence of the moved rows to a free day.
LEMMA SkippedRows ==
  ASSUME TypeOK, NEW b \in backlogs, NEW moved \in SUBSET b, SkipBacklog(b, moved)
  PROVE  /\ DOMAIN tasks' = Live
         /\ \A x \in Live : tasks'[x].series = tasks[x].series
         /\ \A x \in Live : \/ /\ \A item \in moved : item.task # x
                               /\ tasks'[x].occ = tasks[x].occ
                            \/ \E item \in moved : /\ item.task = x
                                                   /\ tasks'[x].occ = item.future
<1> DEFINE Moved(row, day) == [row EXCEPT !.due = day, !.occ = day]
<1>1. \A item \in moved : item.future \in Int
  BY DEF TypeOK, Backlog
<1>2. \A row \in Row, day \in Int : /\ Moved(row, day) \in Row
                                   /\ Moved(row, day).series = row.series
                                   /\ Moved(row, day).occ = day
  BY DEF Row, OptDay
<1>3. ASSUME NEW x \in Live
      PROVE  /\ tasks'[x].series = tasks[x].series
             /\ \/ /\ \A item \in moved : item.task # x
                   /\ tasks'[x].occ = tasks[x].occ
                \/ \E item \in moved : item.task = x /\ tasks'[x].occ = item.future
  <2>1. CASE \A item \in moved : item.task # x
    BY <2>1 DEF SkipBacklog
  <2>2. CASE \E item \in moved : item.task = x
    <3> DEFINE i == CHOOSE item \in moved : item.task = x
    <3>1. i \in moved /\ i.task = x
      BY <2>2
    <3>2. tasks'[x] = Touch(Moved(tasks[x], i.future))
      BY <2>2 DEF SkipBacklog
    <3> HIDE DEF i, Moved
    <3>3. tasks'[x].series = tasks[x].series /\ tasks'[x].occ = i.future
      BY <1>1, <1>2, <3>1, <3>2, RowOf, TouchRow
    <3> QED BY <3>1, <3>3
  <2> QED BY <2>1, <2>2
<1> QED BY <1>3 DEF SkipBacklog

-----------------------------------------------------------------------------
(* At most one row per occurrence.  The property alone is not inductive: a *)
(* captured row starts the series named after its fresh identifier, which  *)
(* must not be the series of an older row.                                 *)

SeriesUsed == \A x \in Live : tasks[x].series \in used \cup {NoId}

OccurrenceInv == TypeOK /\ SeriesUsed /\ UniqueOccurrence

\* A step that adds no row and keeps series and occurrence of the others.
LEMMA KeepsOccurrences ==
  ASSUME OccurrenceInv, Keeps, used' = used
  PROVE  SeriesUsed' /\ UniqueOccurrence'
BY DEF OccurrenceInv, SeriesUsed, UniqueOccurrence, Keeps, Live

\* A step that adds one row, which starts a series or belongs to none.
LEMMA AddedRow ==
  ASSUME OccurrenceInv, NEW t \in Fresh, used' = used \cup {t},
         DOMAIN tasks' = Live \cup {t}, tasks'[t].series \in {NoId, t},
         \A x \in Live : tasks'[x].series = tasks[x].series /\ tasks'[x].occ = tasks[x].occ
  PROVE  SeriesUsed' /\ UniqueOccurrence'
<1>1. t \notin Live /\ \A x \in Live : tasks[x].series # t
  BY RowOf, TaskIdAssumption DEF OccurrenceInv, SeriesUsed, Fresh
<1>2. SeriesUsed'
  BY DEF OccurrenceInv, SeriesUsed, Live
<1>3. UniqueOccurrence'
  <2> SUFFICES ASSUME NEW x \in DOMAIN tasks', NEW y \in DOMAIN tasks', x # y,
                      tasks'[x].series # NoId, tasks'[x].occ # NoDay,
                      tasks'[x].series = tasks'[y].series, tasks'[x].occ = tasks'[y].occ
               PROVE  FALSE
    BY DEF UniqueOccurrence, Live
  <2>1. CASE x \in Live /\ y \in Live
    BY <2>1 DEF OccurrenceInv, UniqueOccurrence
  <2>2. CASE x = t \/ y = t
    BY <1>1, <2>2
  <2> QED BY <2>1, <2>2
<1> QED BY <1>2, <1>3

\* A completion adds the successors that were missing, one per occurrence.
LEMMA CompletionOccurrences ==
  ASSUME OccurrenceInv, NEW S \in SUBSET Live, NEW new, NEW done \in SUBSET Live,
         Successors(S, new), tasks' = Completed(done, new), used' = used \cup Created(new)
  PROVE  SeriesUsed' /\ UniqueOccurrence'
<1>1. /\ DOMAIN tasks' = Live \cup Created(new)
      /\ \A x \in Live : tasks'[x].series = tasks[x].series /\ tasks'[x].occ = tasks[x].occ
      /\ \A x \in Created(new) : \E c \in DOMAIN new :
            c \in S /\ Missing(c) /\ new[c] = x /\ tasks'[x] = NextRow(c)
  <2>1. TypeOK
    BY DEF OccurrenceInv
  <2>2. /\ DOMAIN tasks' = Live \cup Created(new)
        /\ \A x \in Live : /\ tasks'[x] \in Row
                           /\ tasks'[x].series = tasks[x].series
                           /\ tasks'[x].occ = tasks[x].occ
        /\ \A x \in Created(new) : \E c \in DOMAIN new :
              /\ c \in S /\ Missing(c) /\ new[c] = x
              /\ tasks'[x] = NextRow(c) /\ NextRow(c) \in Row
    BY <2>1, CompletedRows
  <2> QED BY <2>2
<1>2. ASSUME NEW x \in Created(new)
      PROVE  \E c \in DOMAIN new :
               /\ c \in Live /\ new[c] = x
               /\ tasks'[x].series = SeriesOf(c) /\ SeriesOf(c) \in used
               /\ tasks'[x].occ = NextDue(c)
               /\ ~Occupied(SeriesOf(c), NextDue(c))
  <2>1. PICK c \in DOMAIN new : c \in S /\ Missing(c) /\ new[c] = x /\ tasks'[x] = NextRow(c)
    BY <1>1
  <2>2. SeriesOf(c) \in used
    BY <2>1, RowOf DEF Missing, OccurrenceInv, SeriesUsed
  <2>3. tasks'[x].series = SeriesOf(c) /\ tasks'[x].occ = NextDue(c)
    BY <2>1 DEF NextRow
  <2> QED BY <2>1, <2>2, <2>3 DEF Missing
<1>3. SeriesUsed'
  <2> SUFFICES ASSUME NEW x \in DOMAIN tasks' PROVE tasks'[x].series \in used' \cup {NoId}
    BY DEF SeriesUsed, Live
  <2>1. CASE x \in Live
    BY <1>1, <2>1 DEF OccurrenceInv, SeriesUsed
  <2>2. CASE x \in Created(new)
    BY <1>2, <2>2
  <2> QED BY <1>1, <2>1, <2>2
<1>4. UniqueOccurrence'
  <2> SUFFICES ASSUME NEW x \in DOMAIN tasks', NEW y \in DOMAIN tasks', x # y,
                      tasks'[x].series # NoId, tasks'[x].occ # NoDay,
                      tasks'[x].series = tasks'[y].series, tasks'[x].occ = tasks'[y].occ
               PROVE  FALSE
    BY DEF UniqueOccurrence, Live
  <2>1. CASE x \in Live /\ y \in Live
    BY <1>1, <2>1 DEF OccurrenceInv, UniqueOccurrence
  <2>2. CASE x \in Live /\ y \in Created(new)
    BY <1>1, <1>2, <2>2 DEF Occupied
  <2>3. CASE x \in Created(new) /\ y \in Live
    BY <1>1, <1>2, <2>3 DEF Occupied
  <2>4. CASE x \in Created(new) /\ y \in Created(new)
    BY <1>2, <2>4 DEF Successors
  <2> QED BY <1>1, <2>1, <2>2, <2>3, <2>4
<1> QED BY <1>3, <1>4

\* The inductive invariant: occurrences are unique, and every series is named
\* after an identifier handed out before.
THEOREM OccurrenceInvariant == Spec => []OccurrenceInv
<1>1. Init => OccurrenceInv
  BY DEF Init, OccurrenceInv, TypeOK, SeriesUsed, UniqueOccurrence, Live
<1>2. OccurrenceInv /\ TypeOK' /\ [Next]_vars => OccurrenceInv'
  <2> SUFFICES ASSUME OccurrenceInv, [Next]_vars PROVE SeriesUsed' /\ UniqueOccurrence'
    BY DEF OccurrenceInv
  <2> USE DEF OccurrenceInv
  <2>1. ASSUME NEW t \in TaskId, NEW rule \in Rules, NEW due \in Dates \cup {NoDay},
               CaptureTask(t, rule, due)
        PROVE  SeriesUsed' /\ UniqueOccurrence'
    BY <2>1, AddedRow, RowOf DEF CaptureTask, Fresh
  <2>2. ASSUME NEW S \in SUBSET Live, CompleteMatching(S)
        PROVE  SeriesUsed' /\ UniqueOccurrence'
    BY <2>2, KeepingSteps, KeepsOccurrences DEF CompleteMatching
  <2>3. ASSUME NEW t \in Live, NEW new, NEW asked \in BOOLEAN,
               CompleteTask(t, new, asked)
        PROVE  SeriesUsed' /\ UniqueOccurrence'
    BY <2>3, CompletionOccurrences DEF CompleteTask, CompleteAndScheduleNext
  <2>4. ASSUME NEW t \in Live, NEW new, NEW recorded \in BOOLEAN,
               ExecuteDone(t, new, recorded)
        PROVE  SeriesUsed' /\ UniqueOccurrence'
    BY <2>4, CompletionOccurrences DEF ExecuteDone, CompleteAndScheduleNext
  <2>5. ASSUME NEW S \in SUBSET Live, NEW new, NEW asked \in BOOLEAN,
               CompleteMany(S, new, asked)
        PROVE  SeriesUsed' /\ UniqueOccurrence'
    BY <2>5, CompletionOccurrences DEF CompleteMany
  <2>6. ASSUME NEW t \in Live, NEW status \in Status, NEW due \in Dates \cup {NoDay},
               NEW recorded \in BOOLEAN, ExecuteEdit(t, status, due, recorded)
        PROVE  SeriesUsed' /\ UniqueOccurrence'
    BY <2>6, KeepingSteps, KeepsOccurrences DEF ExecuteEdit
  <2>7. ASSUME NEW t \in Live, CancelTask(t) PROVE SeriesUsed' /\ UniqueOccurrence'
    BY <2>7, KeepingSteps, KeepsOccurrences DEF CancelTask
  <2>8. ASSUME NEW t \in Live, NEW due \in Dates, ChangeDue(t, due)
        PROVE  SeriesUsed' /\ UniqueOccurrence'
    BY <2>8, KeepingSteps, KeepsOccurrences DEF ChangeDue
  <2>9. ASSUME NEW t \in Live, NEW rule \in Rules, NEW due \in Dates \cup {NoDay},
               ChangeRecurrence(t, due, rule)
        PROVE  SeriesUsed' /\ UniqueOccurrence'
    <3>1. /\ DOMAIN tasks' = Live /\ used' = used
          /\ \A x \in Live \ {t} : tasks'[x] = tasks[x]
          /\ tasks'[t].series = SeriesOf(t) /\ tasks'[t].occ = due
          /\ IndexAllows(t, due)
      BY <2>9, RecurrenceRow DEF ChangeRecurrence
    <3>2. SeriesOf(t) \in used
      BY RowOf DEF SeriesOf, SeriesUsed
    <3> QED BY <3>1, <3>2 DEF SeriesUsed, UniqueOccurrence, IndexAllows, Live
  <2>10. ASSUME NEW i \in DOMAIN log, UndoBatch(i) PROVE SeriesUsed' /\ UniqueOccurrence'
    BY <2>10, KeepingSteps, KeepsOccurrences DEF UndoBatch
  <2>11. ASSUME NEW i \in DOMAIN log, NEW commits \in 1 .. 4, UndoItem(i, commits)
         PROVE  SeriesUsed' /\ UniqueOccurrence'
    BY <2>11, KeepingSteps, KeepsOccurrences DEF UndoItem
  <2>12. ASSUME NEW i \in DOMAIN log, UndoMerge(i) PROVE SeriesUsed' /\ UniqueOccurrence'
    BY <2>12, KeepingSteps, KeepsOccurrences DEF UndoMerge
  <2>13. ASSUME NEW b \in backlogs, KeepBacklog(b) PROVE SeriesUsed' /\ UniqueOccurrence'
    BY <2>13 DEF KeepBacklog, SeriesUsed, UniqueOccurrence, Live
  <2>14. ASSUME NEW b \in backlogs, NEW moved \in SUBSET b, SkipBacklog(b, moved)
         PROVE  SeriesUsed' /\ UniqueOccurrence'
    <3>1. /\ DOMAIN tasks' = Live
          /\ \A x \in Live : tasks'[x].series = tasks[x].series
          /\ \A x \in Live : \/ /\ \A item \in moved : item.task # x
                                /\ tasks'[x].occ = tasks[x].occ
                             \/ \E item \in moved : /\ item.task = x
                                                    /\ tasks'[x].occ = item.future
      BY <2>14, SkippedRows
    <3>2. used' = used
      BY <2>14 DEF SkipBacklog
    <3>3. SeriesUsed'
      BY <3>1, <3>2 DEF SeriesUsed, Live
    <3>4. ASSUME NEW item \in moved
          PROVE  /\ item.task \in Live
                 /\ SeriesOf(item.task) = tasks[item.task].series
                 /\ \A x \in Live \ {item.task} :
                      ~(tasks[x].series = SeriesOf(item.task) /\ tasks[x].occ = item.future)
      <4>1. item.task \in Live /\ Movable(item)
        BY <2>14 DEF SkipBacklog, Unchanged, Active
      <4>2. SeriesOf(item.task) = tasks[item.task].series
        BY <4>1, RowOf DEF Movable, Row, SeriesOf
      <4> QED BY <4>1, <4>2 DEF Movable
    <3>5. ASSUME NEW i \in moved, NEW j \in moved, i.task # j.task
          PROVE  ~(SeriesOf(i.task) = SeriesOf(j.task) /\ i.future = j.future)
      BY <2>14, <3>5 DEF SkipBacklog, Clash
    <3>6. UniqueOccurrence'
      <4> SUFFICES ASSUME NEW x \in Live, NEW y \in Live, x # y,
                          tasks[x].series # NoId, tasks'[x].occ # NoDay,
                          tasks[x].series = tasks[y].series, tasks'[x].occ = tasks'[y].occ
                   PROVE  FALSE
        BY <3>1 DEF UniqueOccurrence, Live
      <4>1. CASE \E i \in moved : i.task = x /\ tasks'[x].occ = i.future
        <5>1. PICK i \in moved : i.task = x /\ tasks'[x].occ = i.future
          BY <4>1
        <5>2. CASE \E j \in moved : j.task = y /\ tasks'[y].occ = j.future
          BY <5>1, <5>2, <3>4, <3>5
        <5>3. CASE tasks'[y].occ = tasks[y].occ
          BY <5>1, <5>3, <3>4
        <5> QED BY <3>1, <5>2, <5>3
      <4>2. CASE tasks'[x].occ = tasks[x].occ
        <5>1. CASE \E j \in moved : j.task = y /\ tasks'[y].occ = j.future
          BY <4>2, <5>1, <3>4
        <5>2. CASE tasks'[y].occ = tasks[y].occ
          BY <4>2, <5>2 DEF UniqueOccurrence
        <5> QED BY <3>1, <5>1, <5>2
      <4> QED BY <3>1, <4>1, <4>2
    <3> QED BY <3>3, <3>6
  <2>15. ASSUME NEW a \in Live, NEW b \in Live, NEW m \in Fresh, MergeTasks(a, b, m)
         PROVE  SeriesUsed' /\ UniqueOccurrence'
    <3>1. m \notin Live
      BY RowOf DEF Fresh
    <3>2. /\ DOMAIN tasks' = Live \cup {m} /\ used' = used \cup {m}
          /\ tasks'[m].series \in {NoId, m}
      BY <2>15 DEF MergeTasks
    <3>3. \A x \in Live : tasks'[x].series = tasks[x].series /\ tasks'[x].occ = tasks[x].occ
      BY <2>15, <3>1, RowOf, StatusRow DEF MergeTasks, Status
    <3> QED BY <3>2, <3>3, AddedRow
  <2>16. ASSUME Tick PROVE SeriesUsed' /\ UniqueOccurrence'
    BY <2>16 DEF Tick, SeriesUsed, UniqueOccurrence, Live
  <2>17. ASSUME UNCHANGED vars PROVE SeriesUsed' /\ UniqueOccurrence'
    BY <2>17 DEF vars, SeriesUsed, UniqueOccurrence, Live
  <2> QED
    BY <2>1, <2>2, <2>3, <2>4, <2>5, <2>6, <2>7, <2>8, <2>9, <2>10, <2>11, <2>12,
       <2>13, <2>14, <2>15, <2>16, <2>17 DEF Next
<1> QED BY <1>1, <1>2, TypeCorrect, PTL DEF Spec

\* Whatever mixture of completions, reschedules, recurrence changes, merges
\* and undos led there, one row at most stands for an occurrence of a series:
\* the look-up in find_recurrence_occurrence is enough.
THEOREM OccurrencesUnique == Spec => []UniqueOccurrence
<1>1. OccurrenceInv => UniqueOccurrence
  BY DEF OccurrenceInv
<1> QED BY <1>1, OccurrenceInvariant, PTL

-----------------------------------------------------------------------------
(* What an undo may delete.                                                *)

\* Every handler keeps the series of the rows it keeps, and the rows it adds
\* have identifiers that were never handed out before.
LEMMA SeriesStable ==
  ASSUME TypeOK, [Next]_vars
  PROVE  SeriesKept /\ used \subseteq used'
<1>1. Keeps => SeriesKept
  BY DEF Keeps, SeriesKept
<1>2. ASSUME NEW t \in TaskId, NEW rule \in Rules, NEW due \in Dates \cup {NoDay},
             CaptureTask(t, rule, due)
      PROVE  SeriesKept /\ used \subseteq used'
  BY <1>2, RowOf DEF CaptureTask, SeriesKept, Fresh
<1>3. ASSUME NEW S \in SUBSET Live, CompleteMatching(S)
      PROVE  SeriesKept /\ used \subseteq used'
  BY <1>1, <1>3, KeepingSteps DEF CompleteMatching
<1>4. ASSUME NEW S \in SUBSET Live, NEW new, NEW done \in SUBSET Live,
             Successors(S, new), tasks' = Completed(done, new)
      PROVE  SeriesKept
  BY <1>4, CompletedRows DEF SeriesKept
<1>5. ASSUME NEW t \in Live, NEW new, CompleteAndScheduleNext(t, new)
      PROVE  SeriesKept /\ used \subseteq used'
  BY <1>4, <1>5 DEF CompleteAndScheduleNext
<1>6. ASSUME NEW S \in SUBSET Live, NEW new, NEW asked \in BOOLEAN,
               CompleteMany(S, new, asked)
      PROVE  SeriesKept /\ used \subseteq used'
  BY <1>4, <1>6 DEF CompleteMany
<1>7. ASSUME NEW t \in Live, NEW status \in Status, NEW due \in Dates \cup {NoDay},
             NEW recorded \in BOOLEAN, ExecuteEdit(t, status, due, recorded)
      PROVE  SeriesKept /\ used \subseteq used'
  BY <1>1, <1>7, KeepingSteps DEF ExecuteEdit
<1>8. ASSUME NEW t \in Live, CancelTask(t) PROVE SeriesKept /\ used \subseteq used'
  BY <1>1, <1>8, KeepingSteps DEF CancelTask
<1>9. ASSUME NEW t \in Live, NEW due \in Dates, ChangeDue(t, due)
      PROVE  SeriesKept /\ used \subseteq used'
  BY <1>1, <1>9, KeepingSteps DEF ChangeDue
<1>10. ASSUME NEW t \in Live, NEW rule \in Rules, NEW due \in Dates \cup {NoDay},
              ChangeRecurrence(t, due, rule)
       PROVE  SeriesKept /\ used \subseteq used'
  <2>1. /\ DOMAIN tasks' = Live /\ used' = used
        /\ \A x \in Live \ {t} : tasks'[x] = tasks[x]
        /\ tasks'[t].series = SeriesOf(t)
    BY <1>10, RecurrenceRow DEF ChangeRecurrence
  <2> QED BY <2>1 DEF SeriesKept, SeriesOf
<1>11. ASSUME NEW i \in DOMAIN log, UndoBatch(i) \/ UndoMerge(i)
       PROVE  SeriesKept /\ used \subseteq used'
  BY <1>1, <1>11, KeepingSteps DEF UndoBatch, UndoMerge
<1>12. ASSUME NEW i \in DOMAIN log, NEW commits \in 1 .. 4, UndoItem(i, commits)
       PROVE  SeriesKept /\ used \subseteq used'
  BY <1>1, <1>12, KeepingSteps DEF UndoItem
<1>13. ASSUME NEW b \in backlogs, NEW moved \in SUBSET b, SkipBacklog(b, moved)
       PROVE  SeriesKept /\ used \subseteq used'
  BY <1>13, SkippedRows DEF SkipBacklog, SeriesKept
<1>14. ASSUME NEW a \in Live, NEW b \in Live, NEW m \in Fresh, MergeTasks(a, b, m)
       PROVE  SeriesKept /\ used \subseteq used'
  <2>1. m \notin Live
    BY RowOf DEF Fresh
  <2> QED BY <1>14, <2>1, RowOf, StatusRow DEF MergeTasks, SeriesKept, Status
<1>15. CASE Tick \/ UNCHANGED vars \/ \E b \in backlogs : KeepBacklog(b)
  BY <1>15 DEF Tick, vars, KeepBacklog, SeriesKept, Live
<1> QED
  BY <1>2, <1>3, <1>5, <1>6, <1>7, <1>8, <1>9, <1>10, <1>11, <1>12, <1>13, <1>14, <1>15
  DEF Next, CompleteTask, ExecuteDone

RecordedUsed ==
  \A i \in DOMAIN log : \A p \in NextPairs(log[i]) : p[1] \in used /\ p[2] \in used \cup {NoId}

RecordedInv == RecordedUsed /\ RecordedNextInSeries

\* The pairs of the events that are in the log already stay right.
LEMMA OldPairs ==
  ASSUME TypeOK, RecordedInv, [Next]_vars, NEW i \in DOMAIN log, NEW p \in NextPairs(log[i])
  PROVE  /\ p[1] \in used' /\ p[2] \in used' \cup {NoId}
         /\ RecordedNext(p[1], p[2])'
<1>1. SeriesKept /\ used \subseteq used'
  BY SeriesStable
<1>2. p[1] \in used /\ p[2] \in used \cup {NoId} /\ RecordedNext(p[1], p[2])
  BY DEF RecordedInv, RecordedUsed, RecordedNextInSeries
<1>3. ASSUME p[2] \in DOMAIN tasks'
      PROVE  p[2] \in Live /\ tasks'[p[2]].series = tasks[p[2]].series
  BY <1>1, <1>2, <1>3, TaskIdAssumption DEF SeriesKept, Fresh, RecordedNext
<1>4. ASSUME p[1] \in DOMAIN tasks'
      PROVE  p[1] \in Live /\ SeriesOf(p[1])' = SeriesOf(p[1])
  BY <1>1, <1>2, <1>4, TaskIdAssumption DEF SeriesKept, Fresh, SeriesOf
<1>5. RecordedNext(p[1], p[2])'
  BY <1>2, <1>3, <1>4 DEF RecordedNext, Live
<1> QED BY <1>1, <1>2, <1>5

\* A step that appends no event, or one that records right pairs.
LEMMA NewPairs ==
  ASSUME TypeOK, RecordedInv, [Next]_vars,
         \A i \in DOMAIN log' : i \in DOMAIN log => log'[i] = log[i],
         \A i \in DOMAIN log' \ DOMAIN log : \A p \in NextPairs(log'[i]) :
            p[1] \in used' /\ p[2] \in used' \cup {NoId} /\ RecordedNext(p[1], p[2])'
  PROVE  RecordedInv'
<1>1. ASSUME NEW i \in DOMAIN log', NEW p \in NextPairs(log'[i])
      PROVE  /\ p[1] \in used' /\ p[2] \in used' \cup {NoId}
             /\ RecordedNext(p[1], p[2])'
  <2>1. CASE i \in DOMAIN log
    BY <2>1, OldPairs
  <2>2. CASE i \notin DOMAIN log
    BY <2>2
  <2> QED BY <2>1, <2>2
<1> QED BY <1>1 DEF RecordedInv, RecordedUsed, RecordedNextInSeries, NextPairs

\* A step that appends one event whose pairs are right.
LEMMA AppendedPairs ==
  ASSUME TypeOK, RecordedInv, [Next]_vars, NEW e, Remember(e),
         \A p \in NextPairs(e) :
            p[1] \in used' /\ p[2] \in used' \cup {NoId} /\ RecordedNext(p[1], p[2])'
  PROVE  RecordedInv'
<1>1. log' = Append(log, e) /\ log \in Seq(Event)
  BY DEF Remember, TypeOK
<1>2. /\ DOMAIN log' = DOMAIN log \cup {Len(log) + 1} /\ log'[Len(log) + 1] = e
      /\ \A i \in DOMAIN log : log'[i] = log[i]
  BY <1>1
<1> QED BY <1>2, NewPairs

\* The successor a completion creates is of the series of the task.
LEMMA CreatedPair ==
  ASSUME OccurrenceInv, NEW S \in SUBSET Live, NEW new, NEW done \in SUBSET Live,
         Successors(S, new), tasks' = Completed(done, new), used' = used \cup Created(new),
         NEW t \in S
  PROVE  LET next == IF t \in DOMAIN new THEN new[t] ELSE NoId
         IN  /\ t \in used' /\ next \in used' \cup {NoId}
             /\ RecordedNext(t, next)'
<1> DEFINE next == IF t \in DOMAIN new THEN new[t] ELSE NoId
<1> SUFFICES t \in used' /\ next \in used' \cup {NoId} /\ RecordedNext(t, next)'
  OBVIOUS
<1>1. TypeOK /\ SeriesUsed
  BY DEF OccurrenceInv
<1>2. /\ DOMAIN tasks' = Live \cup Created(new)
      /\ Created(new) \subseteq Fresh
      /\ \A x \in Live : /\ tasks'[x] \in Row
                         /\ tasks'[x].series = tasks[x].series
                         /\ tasks'[x].occ = tasks[x].occ
      /\ \A x \in Created(new) : \E c \in DOMAIN new :
            /\ c \in S /\ Missing(c) /\ new[c] = x
            /\ tasks'[x] = NextRow(c) /\ NextRow(c) \in Row
  BY <1>1, CompletedRows
<1>3. t \in used'
  BY <1>1, RowOf
<1>4. CASE t \notin DOMAIN new
  <2>1. next = NoId /\ NoId \notin DOMAIN tasks'
    BY <1>1, <1>2, <1>4, RowOf, TaskIdAssumption DEF Fresh
  <2> QED BY <1>3, <2>1 DEF RecordedNext, Live
<1>5. CASE t \in DOMAIN new
  <2>1. next = new[t] /\ next \in Created(new)
    BY <1>5 DEF Created
  <2>2. PICK c \in DOMAIN new : /\ c \in S /\ Missing(c) /\ new[c] = next
                                /\ tasks'[next] = NextRow(c) /\ NextRow(c) \in Row
    BY <1>2, <2>1
  <2>3. c = t
    BY <1>5, <2>1, <2>2 DEF Successors
  <2>4. tasks'[next].series = tasks[t].series /\ tasks[t].series # NoId
    BY <1>1, <2>2, <2>3, RowOf DEF Missing, NextRow
  <2>5. tasks[t].series \in used /\ next \in Fresh
    BY <1>1, <1>2, <2>1, <2>4 DEF SeriesUsed
  <2>6. SeriesOf(t)' = tasks[t].series
    BY <1>2, <2>4 DEF SeriesOf
  <2>7. RecordedNext(t, next)'
    BY <2>4, <2>5, <2>6 DEF RecordedNext, Fresh
  <2> HIDE DEF next
  <2> QED BY <1>3, <2>1, <2>7
<1> QED BY <1>4, <1>5

\* A pair without an occurrence is right.
LEMMA NoPair ==
  ASSUME TypeOK, TypeOK', NEW t \in Live, used \subseteq used'
  PROVE  t \in used' /\ RecordedNext(t, NoId)'
BY RowOf, TaskIdAssumption DEF TypeOK, RecordedNext, Live

\* No later change of rule, date or series makes the next_task_id of an event
\* name a task of another series, or a task the owner captured.
THEOREM RecordedNextCorrect == Spec => []RecordedNextInSeries
<1>1. Init => RecordedInv
  BY DEF Init, RecordedInv, RecordedUsed, RecordedNextInSeries
<1>2. RecordedInv /\ OccurrenceInv /\ TypeOK' /\ [Next]_vars => RecordedInv'
  <2> SUFFICES ASSUME RecordedInv, OccurrenceInv, TypeOK', [Next]_vars PROVE RecordedInv'
    OBVIOUS
  <2>0. TypeOK /\ SeriesKept /\ used \subseteq used'
    BY SeriesStable DEF OccurrenceInv
  <2>1. CASE log' = log
    BY <2>0, <2>1, NewPairs
  <2>2. ASSUME NEW t \in Live, NEW new, NEW recorded \in BOOLEAN,
               ExecuteDone(t, new, recorded), log' # log
        PROVE  RecordedInv'
    <3> DEFINE next == IF t \in DOMAIN new THEN new[t] ELSE NoId
               e == [kind |-> "item", task |-> t, status |-> tasks[t].status,
                     due |-> tasks[t].due, next |-> next]
    <3>1. Remember(e)
      BY <2>2 DEF ExecuteDone, Record
    <3>2. t \in used' /\ next \in used' \cup {NoId} /\ RecordedNext(t, next)'
      BY <2>2, CreatedPair DEF ExecuteDone, CompleteAndScheduleNext
    <3>3. NextPairs(e) = {<<t, next>>}
      BY DEF NextPairs
    <3> HIDE DEF next, e
    <3> QED BY <2>0, <3>1, <3>2, <3>3, AppendedPairs
  <2>3. ASSUME NEW S \in SUBSET Live, NEW new, NEW asked \in BOOLEAN,
               CompleteMany(S, new, asked) PROVE RecordedInv'
    <3> DEFINE next(t) == IF t \in DOMAIN new THEN new[t] ELSE NoId
               e == [kind |-> "batch", items |-> {BatchItemOf(t, new) : t \in S}]
    <3>1. Remember(e)
      BY <2>3 DEF CompleteMany
    <3>2. \A t \in S : /\ t \in used' /\ next(t) \in used' \cup {NoId}
                      /\ RecordedNext(t, next(t))'
      BY <2>3, CreatedPair DEF CompleteMany
    <3>3. NextPairs(e) = {<<t, next(t)>> : t \in S}
      <4>1. \A t \in S : /\ BatchItemOf(t, new).task = t
                        /\ BatchItemOf(t, new).next = next(t)
        BY DEF BatchItemOf
      <4>2. NextPairs(e) = {<<item.task, item.next>> : item \in {BatchItemOf(t, new) : t \in S}}
        BY DEF NextPairs
      <4> HIDE DEF next, e
      <4> QED BY <4>1, <4>2
    <3> HIDE DEF next, e
    <3> QED BY <2>0, <3>1, <3>2, <3>3, AppendedPairs
  <2>4. ASSUME NEW t \in Live, NEW status \in Status, NEW due \in Dates \cup {NoDay},
               NEW recorded \in BOOLEAN, ExecuteEdit(t, status, due, recorded), log' # log
        PROVE  RecordedInv'
    <3> DEFINE e == [kind |-> "item", task |-> t, status |-> tasks[t].status,
                     due |-> tasks[t].due, next |-> NoId]
    <3>1. Remember(e)
      BY <2>4 DEF ExecuteEdit, Record
    <3>2. NextPairs(e) = {<<t, NoId>>}
      BY DEF NextPairs
    <3>3. t \in used' /\ RecordedNext(t, NoId)'
      BY <2>0, NoPair
    <3> HIDE DEF e
    <3> QED BY <2>0, <3>1, <3>2, <3>3, AppendedPairs
  <2>5. ASSUME NEW a \in Live, NEW b \in Live, NEW m \in Fresh, MergeTasks(a, b, m)
        PROVE  RecordedInv'
    <3> DEFINE e == [kind |-> "merge", task |-> m, parts |-> {a, b}]
    <3>1. Remember(e)
      BY <2>5 DEF MergeTasks
    <3>2. NextPairs(e) = {}
      BY DEF NextPairs
    <3> HIDE DEF e
    <3> QED BY <2>0, <3>1, <3>2, AppendedPairs
  <2> QED
    BY <2>1, <2>2, <2>3, <2>4, <2>5
    DEF Next, vars, CaptureTask, CompleteMatching, CompleteTask, CancelTask, ChangeDue,
        ChangeRecurrence, UndoBatch, UndoItem, UndoMerge, KeepBacklog, SkipBacklog, Tick
<1>3. RecordedInv => RecordedNextInSeries
  BY DEF RecordedInv
<1> QED BY <1>1, <1>2, <1>3, OccurrenceInvariant, TypeCorrect, PTL DEF Spec

\* What any undo removes is a generated occurrence or the row a merge made.
THEOREM CapturedNeverDeleted == Spec => OnlyGeneratedDeleted
<1> DEFINE Generated(t) ==
      \/ tasks[t].series \notin {NoId, t}
      \/ \E i \in DOMAIN log : log[i].kind = "merge" /\ log[i].task = t
<1>1. TypeOK /\ RecordedNextInSeries /\ [Next]_vars =>
        [\A t \in Live : t \notin DOMAIN tasks' => Generated(t)]_vars
  <2> SUFFICES ASSUME TypeOK, RecordedNextInSeries, Next,
                      NEW t \in Live, t \notin DOMAIN tasks'
               PROVE  Generated(t)
    OBVIOUS
  <2>1. ASSUME NEW i \in DOMAIN log, UndoBatch(i) PROVE Generated(t)
    <3>1. PICK item \in log[i].items : item.next = t
      BY <2>1 DEF UndoBatch
    <3>2. <<item.task, item.next>> \in NextPairs(log[i])
      BY <2>1 DEF UndoBatch, NextPairs
    <3> QED BY <3>1, <3>2 DEF RecordedNextInSeries, RecordedNext
  <2>2. ASSUME NEW i \in DOMAIN log, NEW commits \in 1 .. 4, UndoItem(i, commits)
        PROVE  Generated(t)
    <3>1. log[i].next = t
      BY <2>2 DEF UndoItem
    <3>2. <<log[i].task, log[i].next>> \in NextPairs(log[i])
      BY <2>2 DEF UndoItem, NextPairs
    <3> QED BY <3>1, <3>2 DEF RecordedNextInSeries, RecordedNext
  <2>3. ASSUME NEW i \in DOMAIN log, UndoMerge(i) PROVE Generated(t)
    BY <2>3 DEF UndoMerge
  <2>4. ASSUME NEW S \in SUBSET Live, NEW new, NEW done, tasks' = Completed(done, new)
        PROVE  FALSE
    BY <2>4 DEF Completed
  <2> QED
    BY <2>1, <2>2, <2>3, <2>4
    DEF Next, CaptureTask, CompleteMatching, CompleteTask, ExecuteDone, CompleteMany,
        CompleteAndScheduleNext, ExecuteEdit, CancelTask, ChangeDue, ChangeRecurrence,
        KeepBacklog, SkipBacklog, MergeTasks, Tick, Live
<1> QED BY <1>1, TypeCorrect, RecordedNextCorrect, PTL DEF Spec, OnlyGeneratedDeleted

\* The undo of a batch leaves alone every row that was written after it.
THEOREM BatchUndoGuarded == Spec => BatchUndoSparesLaterWork
<1> DEFINE Spared ==
      \A i \in undone' \ undone : log[i].kind = "batch" =>
        \A t \in Live :
          (t \notin DOMAIN tasks' \/ tasks'[t] # tasks[t]) =>
            \E item \in log[i].items :
              \/ t = item.task /\ tasks[t].updated_at = item.after
              \/ t = item.next /\ tasks[t].updated_at = item.next_after
<1>1. TypeOK /\ [Next]_vars => [Spared]_vars
  <2> SUFFICES ASSUME TypeOK, Next PROVE Spared
    OBVIOUS
  <2>1. CASE undone' = undone
    BY <2>1
  <2>2. ASSUME NEW i \in DOMAIN log, UndoBatch(i) PROVE Spared
    <3> SUFFICES ASSUME NEW t \in Live, t \notin DOMAIN tasks' \/ tasks'[t] # tasks[t]
                 PROVE  \E item \in log[i].items :
                          \/ t = item.task /\ tasks[t].updated_at = item.after
                          \/ t = item.next /\ tasks[t].updated_at = item.next_after
      BY <2>2 DEF UndoBatch
    <3>1. PICK item \in log[i].items : Untouched(item) /\ (t = item.task \/ t = item.next)
      BY <2>2 DEF UndoBatch
    <3> QED BY <3>1, RowOf DEF Untouched
  <2>3. ASSUME NEW i \in DOMAIN log, NEW commits \in 1 .. 4, UndoItem(i, commits)
        PROVE  Spared
    BY <2>3 DEF UndoItem
  <2>4. ASSUME NEW i \in DOMAIN log, UndoMerge(i) PROVE Spared
    BY <2>4 DEF UndoMerge
  <2> QED
    BY <2>1, <2>2, <2>3, <2>4
    DEF Next, CaptureTask, CompleteMatching, CompleteTask, ExecuteDone, CompleteMany,
        ExecuteEdit, CancelTask, ChangeDue, ChangeRecurrence, KeepBacklog, SkipBacklog,
        MergeTasks, Tick
<1> QED BY <1>1, TypeCorrect, PTL DEF Spec, BatchUndoSparesLaterWork

\* A completion leaves one row of the next occurrence of each recurring task it
\* completes: created now, for it or for another of them, or found.
LEMMA CompletionSuccessor ==
  ASSUME TypeOK, UniqueOccurrence', NEW S \in SUBSET Live, NEW new,
         NEW done \in SUBSET Live, Successors(S, new), tasks' = Completed(done, new),
         NEW t \in S, Recurs(t)
  PROVE  \E x \in DOMAIN tasks' :
           SuccessorAfter(t, x) /\ \A y \in DOMAIN tasks' : SuccessorAfter(t, y) => x = y
<1>1. SeriesOf(t) \in TaskId /\ SeriesOf(t) # NoId /\ NextDue(t) # NoDay
  BY RowOf, NextDueDay, TaskIdAssumption
<1>2. /\ DOMAIN tasks' = Live \cup Created(new)
      /\ Created(new) \subseteq Fresh
      /\ \A x \in Live : /\ tasks'[x] \in Row
                         /\ tasks'[x].series = tasks[x].series
                         /\ tasks'[x].occ = tasks[x].occ
      /\ \A x \in Created(new) : \E c \in DOMAIN new :
            /\ c \in S /\ Missing(c) /\ new[c] = x
            /\ tasks'[x] = NextRow(c) /\ NextRow(c) \in Row
  BY CompletedRows
<1>3. \E x \in DOMAIN tasks' : SuccessorAfter(t, x)
  <2>1. CASE Missing(t)
    <3>1. PICK c \in DOMAIN new : SeriesOf(c) = SeriesOf(t) /\ NextDue(c) = NextDue(t)
      BY <2>1 DEF Successors
    <3>2. new[c] \in Created(new)
      BY DEF Created
    <3>3. tasks'[new[c]] = NextRow(c)
      BY <1>2, <3>2 DEF Successors
    <3>4. tasks'[new[c]].series = SeriesOf(c) /\ tasks'[new[c]].occ = NextDue(c)
      BY <3>3 DEF NextRow
    <3> QED BY <1>2, <3>1, <3>2, <3>4 DEF SuccessorAfter
  <2>2. CASE ~Missing(t)
    <3>1. PICK x \in Live : tasks[x].series = SeriesOf(t) /\ tasks[x].occ = NextDue(t)
      BY <2>2 DEF Missing, Occupied
    <3> QED BY <1>2, <3>1 DEF SuccessorAfter
  <2> QED BY <2>1, <2>2
<1>4. ASSUME NEW x \in DOMAIN tasks', NEW y \in DOMAIN tasks',
             SuccessorAfter(t, x), SuccessorAfter(t, y)
      PROVE  x = y
  BY <1>1, <1>4 DEF SuccessorAfter, UniqueOccurrence, Live
<1> QED BY <1>3, <1>4

\* A recorded completion of a recurring task (the button "done", a batch) leaves
\* its next occurrence in the table, once.
THEOREM CompletionScheduled == Spec => RecordedCompletionHasSuccessor
<1> DEFINE Once(t) == \E x \in DOMAIN tasks' :
             SuccessorAfter(t, x) /\ \A y \in DOMAIN tasks' : SuccessorAfter(t, y) => x = y
           Completes(e, t) ==
             /\ \/ e.kind = "batch" /\ \E item \in e.items : item.task = t
                \/ e.kind = "item" /\ e.task = t /\ tasks[t].status # tasks'[t].status
             /\ tasks'[t].status = "done"
             /\ Recurs(t)
           Scheduled == \A i \in DOMAIN log' \ DOMAIN log, t \in Live :
             Completes(log'[i], t) => Once(t)
<1>1. TypeOK /\ UniqueOccurrence' /\ [Next]_vars => [Scheduled]_vars
  <2> SUFFICES ASSUME TypeOK, UniqueOccurrence', Next PROVE Scheduled
    OBVIOUS
  <2>1. CASE log' = log
    BY <2>1
  <2>2. ASSUME NEW e, Remember(e), \A t \in Live : Completes(e, t) => Once(t)
        PROVE  Scheduled
    <3>1. \A i \in DOMAIN log' \ DOMAIN log : log'[i] = e
      BY <2>2 DEF Remember, TypeOK
    <3> HIDE DEF Completes, Once
    <3> QED BY <2>2, <3>1
  <2>3. ASSUME NEW s \in Live, NEW new, NEW recorded \in BOOLEAN,
               ExecuteDone(s, new, recorded), log' # log
        PROVE  Scheduled
    <3> DEFINE e == [kind |-> "item", task |-> s, status |-> tasks[s].status, due |-> tasks[s].due,
                     next |-> IF s \in DOMAIN new THEN new[s] ELSE NoId]
    <3>1. Remember(e)
      BY <2>3 DEF ExecuteDone, Record
    <3>2. e.kind = "item" /\ e.task = s
      OBVIOUS
    <3>3. Recurs(s) => Once(s)
      BY <2>3, CompletionSuccessor DEF ExecuteDone, CompleteAndScheduleNext
    <3> HIDE DEF e, Once
    <3>4. \A t \in Live : Completes(e, t) => Once(t)
      BY <3>2, <3>3
    <3> QED BY <2>2, <3>1, <3>4
  <2>4. ASSUME NEW S \in SUBSET Live, NEW new, NEW asked \in BOOLEAN,
               CompleteMany(S, new, asked)
        PROVE  Scheduled
    <3> DEFINE e == [kind |-> "batch", items |-> {BatchItemOf(t, new) : t \in S}]
    <3>1. Remember(e)
      BY <2>4 DEF CompleteMany
    <3>2. e.kind = "batch" /\ \A item \in e.items : item.task \in S
      BY DEF BatchItemOf
    <3>3. \A t \in S : Recurs(t) => Once(t)
      BY <2>4, CompletionSuccessor DEF CompleteMany
    <3> HIDE DEF e, Once
    <3>4. \A t \in Live : Completes(e, t) => Once(t)
      BY <3>2, <3>3
    <3> QED BY <2>2, <3>1, <3>4
  <2>5. ASSUME NEW s \in Live, NEW status \in Status, NEW due \in Dates \cup {NoDay},
               NEW recorded \in BOOLEAN, ExecuteEdit(s, status, due, recorded), log' # log
        PROVE  Scheduled
    <3> DEFINE e == [kind |-> "item", task |-> s, status |-> tasks[s].status,
                     due |-> tasks[s].due, next |-> NoId]
    <3>1. Remember(e)
      BY <2>5 DEF ExecuteEdit, Record
    <3>2. e.kind = "item" /\ e.task = s
      OBVIOUS
    <3>3. tasks'[s].status = status
      <4> DEFINE row == [tasks[s] EXCEPT !.status = status, !.due = due]
      <4>1. row \in Row
        BY RowOf, DayAssumption DEF Row, OptDay
      <4>2. row.status = status
        BY RowOf DEF Row
      <4>3. tasks'[s] = Touch(row)
        BY <2>5 DEF ExecuteEdit, Live
      <4> HIDE DEF row
      <4> QED BY <4>1, <4>2, <4>3 DEF Touch, Row
    <3>4. tasks[s].status # tasks'[s].status => tasks'[s].status # "done"
      BY <2>5, <3>3 DEF ExecuteEdit
    <3> HIDE DEF e, Once
    <3>5. \A t \in Live : ~Completes(e, t)
      BY <3>2, <3>4
    <3> QED BY <2>2, <3>1, <3>5
  <2>6. ASSUME NEW a \in Live, NEW b \in Live, NEW m \in Fresh, MergeTasks(a, b, m)
        PROVE  Scheduled
    <3> DEFINE e == [kind |-> "merge", task |-> m, parts |-> {a, b}]
    <3>1. Remember(e)
      BY <2>6 DEF MergeTasks
    <3>2. e.kind = "merge"
      OBVIOUS
    <3> HIDE DEF e, Once
    <3>3. \A t \in Live : ~Completes(e, t)
      BY <3>2
    <3> QED BY <2>2, <3>1, <3>3
  <2> HIDE DEF Scheduled
  <2> QED
    BY <2>1, <2>3, <2>4, <2>5, <2>6
    DEF Next, CaptureTask, CompleteMatching, CompleteTask, CancelTask, ChangeDue,
        ChangeRecurrence, UndoBatch, UndoItem, UndoMerge, KeepBacklog, SkipBacklog, Tick
<1> QED BY <1>1, TypeCorrect, OccurrencesUnique, PTL
        DEF Spec, RecordedCompletionHasSuccessor

-----------------------------------------------------------------------------
(* Versions: what updated_at tells about a row.                            *)

\* Row x is left alone, or written once more with a status among "statuses".
OneWrite(x, statuses) ==
  \/ tasks'[x] = tasks[x]
  \/ \E row \in Row : /\ tasks'[x] = Touch(row)
                      /\ row.updated_at = tasks[x].updated_at
                      /\ row.status \in statuses

\* What a handler leaves of the rows it had, with a status of its own or,
\* for all but a few rows, the one they had.
Writes(statuses) ==
  \A x \in Live : x \in DOMAIN tasks' => OneWrite(x, statuses \cup {tasks[x].status})

LEMMA TouchIs ==
  ASSUME NEW row \in Row
  PROVE  Touch(row).updated_at = row.updated_at + 1 /\ Touch(row).status = row.status
BY DEF Touch, Row

\* A write of the status or of the dates is one write.
LEMMA StatusWrite ==
  ASSUME TypeOK, NEW x \in Live, NEW status \in Status,
         \/ tasks'[x] = tasks[x]
         \/ tasks'[x] = Touch([tasks[x] EXCEPT !.status = status])
  PROVE  OneWrite(x, {status, tasks[x].status})
<1> DEFINE row == [tasks[x] EXCEPT !.status = status]
<1>1. tasks[x] \in Row
  BY RowOf
<1>2. row \in Row
  BY <1>1 DEF Row
<1>3. row.updated_at = tasks[x].updated_at /\ row.status = status
  BY <1>1 DEF Row
<1>4. tasks'[x] = tasks[x] \/ tasks'[x] = Touch(row)
  OBVIOUS
<1> HIDE DEF row
<1> QED BY <1>2, <1>3, <1>4 DEF OneWrite

LEMMA DueWrite ==
  ASSUME TypeOK, NEW x \in Live, NEW status \in Status, NEW due \in OptDay,
         tasks'[x] = Touch([tasks[x] EXCEPT !.status = status, !.due = due])
  PROVE  OneWrite(x, {status})
<1> DEFINE row == [tasks[x] EXCEPT !.status = status, !.due = due]
<1>1. tasks[x] \in Row
  BY RowOf
<1>2. row \in Row
  BY <1>1 DEF Row
<1>3. row.updated_at = tasks[x].updated_at /\ row.status = status
  BY <1>1 DEF Row
<1>4. tasks'[x] = Touch(row)
  OBVIOUS
<1> HIDE DEF row
<1> QED BY <1>2, <1>3, <1>4 DEF OneWrite

\* Every handler writes a row at most once, and sets the status it is for.
LEMMA HandlersWrite ==
  ASSUME TypeOK
  PROVE  /\ \A S \in SUBSET Live : CompleteMatching(S) => Writes({"done"})
         /\ \A done \in SUBSET Live : \A new : tasks' = Completed(done, new) => Writes({"done"})
         /\ \A t \in Live, status \in Status, due \in Dates \cup {NoDay}, recorded \in BOOLEAN :
              ExecuteEdit(t, status, due, recorded) => Writes({"cancelled"})
         /\ \A t \in Live : CancelTask(t) => Writes({"cancelled"})
         /\ \A i \in DOMAIN log : UndoBatch(i) \/ UndoMerge(i) => Writes({"active"})
         /\ \A i \in DOMAIN log, commits \in 1 .. 4 :
              UndoItem(i, commits) =>
                \A x \in Live : x \in DOMAIN tasks' =>
                  \/ tasks'[x] = tasks[x]
                  \/ x = log[i].task /\ commits > 1 /\ OneWrite(x, {log[i].status})
         /\ \A a, b \in Live, m \in Fresh : MergeTasks(a, b, m) => Writes({"cancelled"})
<1>1. ASSUME NEW S \in SUBSET Live, CompleteMatching(S) PROVE Writes({"done"})
  BY <1>1, StatusWrite DEF CompleteMatching, Writes, Status
<1>2. ASSUME NEW done \in SUBSET Live, NEW new, tasks' = Completed(done, new)
      PROVE  Writes({"done"})
  BY <1>2, StatusWrite DEF Completed, Writes, Status
<1>3. ASSUME NEW t \in Live, NEW status \in Status, NEW due \in Dates \cup {NoDay},
             NEW recorded \in BOOLEAN, ExecuteEdit(t, status, due, recorded)
      PROVE  Writes({"cancelled"})
  <2>1. /\ tasks'[t] = Touch([tasks[t] EXCEPT !.status = status, !.due = due])
        /\ \A x \in Live \ {t} : tasks'[x] = tasks[x]
        /\ status \in {"cancelled", tasks[t].status}
    BY <1>3 DEF ExecuteEdit, Live
  <2>2. OneWrite(t, {status})
    BY <2>1, DayAssumption, DueWrite DEF OptDay
  <2> QED BY <2>1, <2>2 DEF Writes, OneWrite
<1>4. ASSUME NEW t \in Live, CancelTask(t) PROVE Writes({"cancelled"})
  BY <1>4, StatusWrite DEF CancelTask, Writes, Status, Live
<1>5. ASSUME NEW i \in DOMAIN log, UndoBatch(i) \/ UndoMerge(i) PROVE Writes({"active"})
  <2>1. CASE UndoBatch(i)
    BY <2>1, StatusWrite DEF UndoBatch, Writes, Status
  <2>2. CASE UndoMerge(i)
    BY <2>2, StatusWrite DEF UndoMerge, Writes, Status
  <2> QED BY <1>5, <2>1, <2>2
<1>6. ASSUME NEW i \in DOMAIN log, NEW commits \in 1 .. 4, UndoItem(i, commits),
             NEW x \in Live, x \in DOMAIN tasks'
      PROVE  \/ tasks'[x] = tasks[x]
             \/ x = log[i].task /\ commits > 1 /\ OneWrite(x, {log[i].status})
  <2> DEFINE e == log[i]
             due == IF commits > 2 THEN e.due ELSE tasks[x].due
  <2>1. e \in ItemEvent
    BY <1>6, EventKinds DEF UndoItem
  <2>2. e.status \in Status /\ due \in OptDay
    BY <2>1, RowOf DEF ItemEvent, Row
  <2>3. \/ tasks'[x] = tasks[x]
        \/ /\ x = e.task /\ commits > 1
           /\ tasks'[x] = Touch([tasks[x] EXCEPT !.status = e.status, !.due = due])
    BY <1>6, RowOf DEF UndoItem, Row
  <2> QED BY <2>2, <2>3, DueWrite
<1>7. ASSUME NEW a \in Live, NEW b \in Live, NEW m \in Fresh, MergeTasks(a, b, m)
      PROVE  Writes({"cancelled"})
  <2>1. m \notin Live
    BY RowOf DEF Fresh
  <2> QED BY <1>7, <2>1, StatusWrite DEF MergeTasks, Writes, Status
<1> QED BY <1>1, <1>2, <1>3, <1>4, <1>5, <1>6, <1>7

\* A change of the dates, the rule or the series of a row is one write too.
LEMMA RecurrenceWrite ==
  ASSUME TypeOK, NEW t \in Live, NEW rule \in Rules, NEW due \in Dates \cup {NoDay},
         ChangeRecurrence(t, due, rule)
  PROVE  Writes({})
<1> DEFINE row == [tasks[t] EXCEPT !.due = due, !.rule = rule, !.series = SeriesOf(t),
                                   !.occ = due]
<1>1. /\ tasks[t] \in Row /\ SeriesOf(t) \in TaskId /\ SeriesOf(t) # NoId
      /\ due \in OptDay /\ rule \in Rule
  BY RowOf, DayAssumption, RuleAssumption, TaskIdAssumption DEF OptDay, Rule
<1>2. row \in Row
  BY <1>1 DEF Row
<1>3. row.updated_at = tasks[t].updated_at /\ row.status = tasks[t].status
  BY <1>1 DEF Row
<1>4. tasks' = [tasks EXCEPT ![t] = Touch(row)]
  BY DEF ChangeRecurrence
<1> HIDE DEF row
<1>5. tasks'[t] = Touch(row) /\ \A x \in Live \ {t} : tasks'[x] = tasks[x]
  BY <1>4 DEF Live
<1> QED BY <1>2, <1>3, <1>5 DEF Writes, OneWrite

\* A moved row has the day of an entry of the question.
LEMMA SkipWrite ==
  ASSUME TypeOK, NEW b \in backlogs, NEW moved \in SUBSET b, SkipBacklog(b, moved),
         NEW x \in Live
  PROVE  \/ tasks'[x] = tasks[x]
         \/ /\ OneWrite(x, {tasks[x].status})
            /\ \E item \in moved : /\ item.task = x /\ item \in Unchanged(b)
                                   /\ tasks'[x].due = item.future
                                   /\ tasks'[x].occ = item.future
<1> DEFINE item == CHOOSE i \in moved : i.task = x
           row  == [tasks[x] EXCEPT !.due = item.future, !.occ = item.future]
<1>1. CASE \A i \in moved : i.task # x
  BY <1>1 DEF SkipBacklog
<1>2. CASE \E i \in moved : i.task = x
  <2>1. item \in moved /\ item.task = x
    BY <1>2
  <2>2. item \in Unchanged(b) /\ item.future \in Int
    BY <2>1 DEF SkipBacklog, TypeOK, Backlog
  <2>3. tasks'[x] = Touch(row)
    BY <1>2 DEF SkipBacklog
  <2> HIDE DEF item
  <2>4. tasks[x] \in Row
    BY RowOf
  <2>5. row \in Row
    BY <2>2, <2>4 DEF Row, OptDay
  <2>6. /\ row.updated_at = tasks[x].updated_at /\ row.status = tasks[x].status
        /\ row.due = item.future /\ row.occ = item.future
    BY <2>4 DEF Row
  <2> HIDE DEF row
  <2>7. tasks'[x].due = item.future /\ tasks'[x].occ = item.future
    BY <2>3, <2>5, <2>6 DEF Touch, Row
  <2> QED BY <2>1, <2>2, <2>3, <2>5, <2>6, <2>7 DEF OneWrite
<1> QED BY <1>1, <1>2

\* A row that is written has another version than before, of whatever handler:
\* what a preview, an event or a question recorded as updated_at matches only
\* the contents it was recorded with.
VersionTells ==
  [][\A x \in Live \cap DOMAIN tasks' :
       tasks'[x] # tasks[x] => tasks'[x].updated_at = tasks[x].updated_at + 1]_vars

LEMMA StepVersions ==
  ASSUME TypeOK, [Next]_vars, NEW x \in Live, x \in DOMAIN tasks', tasks'[x] # tasks[x]
  PROVE  tasks'[x].updated_at = tasks[x].updated_at + 1
<1>1. ASSUME NEW statuses, OneWrite(x, statuses)
      PROVE  tasks'[x].updated_at = tasks[x].updated_at + 1
  BY <1>1, TouchIs DEF OneWrite
<1>2. ASSUME NEW statuses, Writes(statuses)
      PROVE  tasks'[x].updated_at = tasks[x].updated_at + 1
  BY <1>1, <1>2 DEF Writes
<1>3. ASSUME NEW t \in TaskId, NEW rule \in Rules, NEW due \in Dates \cup {NoDay},
             CaptureTask(t, rule, due)
      PROVE  FALSE
  BY <1>3, RowOf DEF CaptureTask, Fresh
<1>4. ASSUME NEW t \in Live, NEW new, CompleteAndScheduleNext(t, new)
      PROVE  tasks'[x].updated_at = tasks[x].updated_at + 1
  BY <1>2, <1>4, HandlersWrite DEF CompleteAndScheduleNext
<1>5. ASSUME NEW S \in SUBSET Live, NEW new, NEW asked \in BOOLEAN, CompleteMany(S, new, asked)
      PROVE  tasks'[x].updated_at = tasks[x].updated_at + 1
  BY <1>2, <1>5, HandlersWrite DEF CompleteMany
<1>6. ASSUME NEW t \in Live, NEW due \in Dates, ChangeDue(t, due)
      PROVE  tasks'[x].updated_at = tasks[x].updated_at + 1
  <2>1. x = t /\ tasks'[t] = Touch([tasks[t] EXCEPT !.due = due]) /\ tasks[t] \in Row
    BY <1>6, RowOf DEF ChangeDue, Live
  <2>2. [tasks[t] EXCEPT !.due = due] \in Row
    BY <2>1, DayAssumption DEF Row, OptDay
  <2>3. [tasks[t] EXCEPT !.due = due].updated_at = tasks[t].updated_at
    BY <2>1 DEF Row
  <2> QED BY <2>1, <2>2, <2>3, TouchIs
<1>7. ASSUME NEW i \in DOMAIN log, NEW commits \in 1 .. 4, UndoItem(i, commits)
      PROVE  tasks'[x].updated_at = tasks[x].updated_at + 1
  BY <1>1, <1>7, HandlersWrite
<1>8. ASSUME NEW b \in backlogs, NEW moved \in SUBSET b, SkipBacklog(b, moved)
      PROVE  tasks'[x].updated_at = tasks[x].updated_at + 1
  BY <1>1, <1>8, SkipWrite
<1>9. CASE Tick \/ UNCHANGED vars \/ \E b \in backlogs : KeepBacklog(b)
  BY <1>9 DEF Tick, vars, KeepBacklog
<1> QED
  BY <1>2, <1>3, <1>4, <1>5, <1>6, <1>7, <1>8, <1>9, HandlersWrite, RecurrenceWrite
  DEF Next, CompleteTask, ExecuteDone

\* No handler writes a row without moving its version.
THEOREM VersionMoves == Spec => VersionTells
<1> DEFINE Moves == \A x \in Live \cap DOMAIN tasks' :
             tasks'[x] # tasks[x] => tasks'[x].updated_at = tasks[x].updated_at + 1
<1>1. TypeOK /\ [Next]_vars => Moves
  BY StepVersions
<1> HIDE DEF Moves
<1>2. Spec => [][Moves]_vars
  BY <1>1, TypeCorrect, PTL DEF Spec
<1> QED BY <1>2 DEF Moves, VersionTells

-----------------------------------------------------------------------------
(* Missed occurrences.                                                     *)

\* The occurrences after a day.
Later(day, rule) == {day + n * Step(rule) : n \in Nat \ {0}}

\* The closed form of FutureDue is where the loop of
\* future_recurrence_occurrence ends: an occurrence after now, such that the
\* one before it is not.
THEOREM FutureIsFirst ==
  ASSUME NEW day \in Int, NEW rule \in Rule, today \in Int, day <= today
  PROVE  /\ FutureDue(day, rule) \in Later(day, rule)
         /\ FutureDue(day, rule) > today
         /\ FutureDue(day, rule) - Step(rule) <= today
<1> DEFINE k == Step(rule)
           a == today - day
           q == a \div k
<1>1. k \in Nat /\ k > 0 /\ a \in Int /\ a >= 0
  BY StepPositive
<1> HIDE DEF k, a
<1>2. q \in Int /\ k * q <= a /\ a < k * (q + 1)
  BY <1>1
<1> HIDE DEF q
<1>3. q >= 0
  BY <1>1, <1>2
<1>4. FutureDue(day, rule) = day + k * (q + 1)
  BY DEF FutureDue, k, a, q
<1>5. q + 1 \in Nat \ {0} /\ day + k * (q + 1) = day + (q + 1) * k
  BY <1>1, <1>2, <1>3
<1>6. FutureDue(day, rule) \in Later(day, rule)
  BY <1>4, <1>5 DEF Later, k
<1>7. ASSUME NEW f \in Int, f = day + k * (q + 1)
      PROVE  f > today /\ f - k <= today
  BY <1>1, <1>2, <1>7 DEF a
<1>8. FutureDue(day, rule) > today /\ FutureDue(day, rule) - k <= today
  BY <1>4, <1>7, FutureDueDay
<1> QED BY <1>6, <1>8 DEF k

\* As long as a row has the version a pending question recorded, the day the
\* question offers is a later occurrence of it.
BacklogSound ==
  \A b \in backlogs : \A item \in b :
    /\ item.task \in used
    /\ item.task \in Live =>
         LET row == tasks[item.task] IN
         /\ row.updated_at >= item.expected
         /\ row.updated_at = item.expected =>
              /\ row.rule # "none" /\ row.due \in Int
              /\ item.future \in Later(row.due, row.rule)

\* The question a completion asks is sound.
LEMMA AskedSound ==
  ASSUME TypeOK, TypeOK', NEW S, NEW item \in Overdue(S)
  PROVE  /\ item.task \in used' /\ item.task \in DOMAIN tasks'
         /\ tasks'[item.task].updated_at = item.expected
         /\ tasks'[item.task].rule # "none" /\ tasks'[item.task].due \in Int
         /\ item.future \in Later(tasks'[item.task].due, tasks'[item.task].rule)
<1>1. PICK y \in DOMAIN tasks' :
        /\ tasks'[y].due # NoDay /\ tasks'[y].rule # "none" /\ tasks'[y].due <= today
        /\ item = [task |-> y, future |-> FutureDue(tasks'[y].due, tasks'[y].rule),
                   expected |-> tasks'[y].updated_at]
  BY DEF Overdue
<1>2. tasks'[y] \in Row /\ y \in used'
  BY DEF TypeOK
<1>3. tasks'[y].due \in Int /\ tasks'[y].rule \in Rule
  BY <1>1, <1>2 DEF Row, OptDay
<1>4. item.task = y /\ item.expected = tasks'[y].updated_at
      /\ item.future = FutureDue(tasks'[y].due, tasks'[y].rule)
  BY <1>1
<1> QED BY <1>1, <1>2, <1>3, <1>4, FutureIsFirst DEF TypeOK

\* Only the two completions of the conversation ask.
LEMMA PendingGrows ==
  ASSUME [Next]_vars
  PROVE  \/ backlogs' \subseteq backlogs
         \/ \E S \in SUBSET Live : backlogs' \subseteq backlogs \cup {Overdue(S)}
<1>1. ASSUME NEW S \in SUBSET Live, NEW asked, RequestBacklog(S, asked)
      PROVE  backlogs' \subseteq backlogs \cup {Overdue(S)}
  BY <1>1 DEF RequestBacklog
<1>2. ASSUME NEW t \in Live, NEW new, NEW asked, CompleteTask(t, new, asked)
      PROVE  \E S \in SUBSET Live : backlogs' \subseteq backlogs \cup {Overdue(S)}
  BY <1>1, <1>2 DEF CompleteTask
<1>3. ASSUME NEW S \in SUBSET Live, NEW new, NEW asked, CompleteMany(S, new, asked)
      PROVE  backlogs' \subseteq backlogs \cup {Overdue(S)}
  BY <1>1, <1>3 DEF CompleteMany
<1> QED
  BY <1>2, <1>3
  DEF Next, vars, CaptureTask, CompleteMatching, ExecuteDone, ExecuteEdit, CancelTask,
      ChangeDue, ChangeRecurrence, UndoBatch, UndoItem, UndoMerge, KeepBacklog, SkipBacklog,
      MergeTasks, Tick

LEMMA BacklogStep ==
  ASSUME TypeOK, TypeOK', BacklogSound, [Next]_vars PROVE BacklogSound'
<1> SUFFICES ASSUME NEW b \in backlogs', NEW item \in b
             PROVE  /\ item.task \in used'
                    /\ item.task \in DOMAIN tasks' =>
                         LET row == tasks'[item.task] IN
                         /\ row.updated_at >= item.expected
                         /\ row.updated_at = item.expected =>
                              /\ row.rule # "none" /\ row.due \in Int
                              /\ item.future \in Later(row.due, row.rule)
  BY DEF BacklogSound, Live
<1>1. CASE b \in backlogs
  <2>1. item.task \in used /\ item.task \in used'
    BY <1>1, SeriesStable DEF BacklogSound
  <2>2. SUFFICES ASSUME item.task \in DOMAIN tasks'
                 PROVE  LET row == tasks'[item.task] IN
                         /\ row.updated_at >= item.expected
                         /\ row.updated_at = item.expected =>
                              /\ row.rule # "none" /\ row.due \in Int
                              /\ item.future \in Later(row.due, row.rule)
    BY <2>1
  <2>3. item.task \in Live
    BY <2>1, <2>2, SeriesStable DEF SeriesKept, Fresh
  <2>4. /\ tasks[item.task].updated_at \in Nat /\ item.expected \in Nat
        /\ tasks[item.task].updated_at >= item.expected
    BY <1>1, <2>3, RowOf DEF BacklogSound, Row, TypeOK, Backlog
  <2>5. CASE tasks'[item.task] = tasks[item.task]
    BY <1>1, <2>3, <2>5 DEF BacklogSound
  <2>6. CASE tasks'[item.task] # tasks[item.task]
    <3>1. tasks'[item.task].updated_at = tasks[item.task].updated_at + 1
      BY <2>2, <2>3, <2>6, StepVersions
    <3> QED BY <2>4, <3>1
  <2> QED BY <2>5, <2>6
<1>2. CASE b \notin backlogs
  <2>1. PICK S \in SUBSET Live : b = Overdue(S)
    BY <1>2, PendingGrows
  <2>2. /\ item.task \in used' /\ tasks'[item.task].updated_at = item.expected
        /\ tasks'[item.task].rule # "none" /\ tasks'[item.task].due \in Int
        /\ item.future \in Later(tasks'[item.task].due, tasks'[item.task].rule)
    BY <2>1, AskedSound
  <2>3. item.expected \in Nat
    BY DEF TypeOK, Backlog
  <2> QED BY <2>2, <2>3
<1> QED BY <1>1, <1>2

\* What every pending question offers is right as long as it can be accepted.
THEOREM BacklogInvariant == Spec => []BacklogSound
<1>1. Init => BacklogSound
  BY DEF Init, BacklogSound
<1>2. TypeOK /\ TypeOK' /\ BacklogSound /\ [Next]_vars => BacklogSound'
  BY BacklogStep
<1> QED BY <1>1, <1>2, TypeCorrect, PTL DEF Spec

\* The answer "skip" moves missed occurrences that nobody touched since the
\* question, to a later day of the same rhythm, and writes no other row.
SkipKeepsRhythm ==
  [][\A b \in backlogs \ backlogs', t \in Live :
       t \notin DOMAIN tasks' \/ tasks'[t] # tasks[t] =>
         /\ Active(t) /\ t \in DOMAIN tasks'
         /\ tasks'[t].due \in Later(tasks[t].due, tasks[t].rule)
         /\ tasks'[t].occ = tasks'[t].due]_vars

THEOREM SkipMovesForward == Spec => SkipKeepsRhythm
<1> DEFINE Skips == \A b \in backlogs \ backlogs', t \in Live :
             t \notin DOMAIN tasks' \/ tasks'[t] # tasks[t] =>
               /\ Active(t) /\ t \in DOMAIN tasks'
               /\ tasks'[t].due \in Later(tasks[t].due, tasks[t].rule)
               /\ tasks'[t].occ = tasks'[t].due
<1>1. TypeOK /\ BacklogSound /\ [Next]_vars => [Skips]_vars
  <2> SUFFICES ASSUME TypeOK, BacklogSound, Next PROVE Skips
    OBVIOUS
  <2>1. CASE backlogs \subseteq backlogs'
    BY <2>1
  <2>2. ASSUME NEW b \in backlogs, KeepBacklog(b) PROVE Skips
    BY <2>2 DEF KeepBacklog, Live
  <2>3. ASSUME NEW b \in backlogs, NEW moved \in SUBSET b, SkipBacklog(b, moved) PROVE Skips
    <3>1. DOMAIN tasks' = Live
      BY <2>3 DEF SkipBacklog
    <3>2. SUFFICES ASSUME NEW t \in Live, tasks'[t] # tasks[t]
                   PROVE  /\ Active(t)
                          /\ tasks'[t].due \in Later(tasks[t].due, tasks[t].rule)
                          /\ tasks'[t].occ = tasks'[t].due
      BY <3>1
    <3>3. PICK item \in moved : /\ item.task = t /\ item \in Unchanged(b)
                                /\ tasks'[t].due = item.future /\ tasks'[t].occ = item.future
      BY <2>3, <3>2, SkipWrite
    <3> QED BY <3>3 DEF Unchanged, BacklogSound
  <2> HIDE DEF Skips
  <2> QED
    BY <2>1, <2>2, <2>3
    DEF Next, CaptureTask, CompleteMatching, CompleteTask, CompleteMany, RequestBacklog,
        ExecuteDone, ExecuteEdit, CancelTask, ChangeDue, ChangeRecurrence, UndoBatch, UndoItem,
        UndoMerge, MergeTasks, Tick
<1> QED BY <1>1, TypeCorrect, BacklogInvariant, PTL DEF Spec, SkipKeepsRhythm

-----------------------------------------------------------------------------
(* Completions.                                                            *)

\* The next occurrence of t is in the table after the step, once.
ScheduledOnce(t) ==
  \E x \in DOMAIN tasks' :
    SuccessorAfter(t, x) /\ \A y \in DOMAIN tasks' : SuccessorAfter(t, y) => x = y

EndedByNote(t) == \E S \in SUBSET Live : t \in S /\ CompleteMatching(S)
EndedByUndo(t) ==
  \E i \in DOMAIN log, commits \in 2 .. 4 :
    /\ log[i].kind = "item" /\ log[i].task = t /\ log[i].status = "done"
    /\ UndoItem(i, commits)

\* Whoever completes a recurring task leaves its next occurrence, once, except
\* a completion note (_complete_matching_tasks) and the undo of a change that
\* was made when the task was done already: two undos in the wrong order.
CompletionSchedulesNext ==
  [][\A t \in Live \cap DOMAIN tasks' :
       Active(t) /\ tasks'[t].status = "done" /\ Recurs(t) =>
         ScheduledOnce(t) \/ EndedByNote(t) \/ EndedByUndo(t)]_vars

\* A row keeps its status, or gets the one it is written with.
LEMMA WrittenStatus ==
  ASSUME NEW x, NEW statuses, OneWrite(x, statuses)
  PROVE  tasks'[x].status \in statuses \cup {tasks[x].status}
BY TouchIs DEF OneWrite

LEMMA StillActive ==
  ASSUME TypeOK, NEW t \in Live, t \in DOMAIN tasks', Active(t), NEW statuses, Writes(statuses)
  PROVE  tasks'[t].status \in statuses \cup {"active"}
<1>1. OneWrite(t, statuses \cup {tasks[t].status})
  BY DEF Writes
<1> QED BY <1>1, WrittenStatus DEF Active

THEOREM CompletionsSchedule == Spec => CompletionSchedulesNext
<1> DEFINE Schedules == \A t \in Live \cap DOMAIN tasks' :
             Active(t) /\ tasks'[t].status = "done" /\ Recurs(t) =>
               ScheduledOnce(t) \/ EndedByNote(t) \/ EndedByUndo(t)
<1>1. TypeOK /\ UniqueOccurrence' /\ [Next]_vars => [Schedules]_vars
  <2> SUFFICES ASSUME TypeOK, UniqueOccurrence', Next, NEW t \in Live, t \in DOMAIN tasks',
                      Active(t), tasks'[t].status = "done", Recurs(t)
               PROVE  ScheduledOnce(t) \/ EndedByNote(t) \/ EndedByUndo(t)
    OBVIOUS
  <2>1. tasks[t].status = "active" /\ tasks'[t] # tasks[t]
    BY DEF Active
  <2>2. ASSUME NEW statuses, Writes(statuses), "done" \notin statuses PROVE FALSE
    BY <2>2, StillActive
  <2>3. ASSUME NEW x \in TaskId, NEW rule \in Rules, NEW due \in Dates \cup {NoDay},
               CaptureTask(x, rule, due)
        PROVE  FALSE
    BY <2>1, <2>3, RowOf DEF CaptureTask, Fresh
  <2>4. ASSUME NEW S \in SUBSET Live, CompleteMatching(S) PROVE EndedByNote(t)
    <3>1. t \in S
      BY <2>1, <2>4 DEF CompleteMatching
    <3> QED BY <2>4, <3>1 DEF EndedByNote
  <2>5. ASSUME NEW S \in SUBSET Live, NEW new, NEW done \in SUBSET S,
               Successors(S, new), tasks' = Completed(done, new)
        PROVE  ScheduledOnce(t)
    <3>1. t \in S
      BY <2>1, <2>5 DEF Completed
    <3> QED BY <2>5, <3>1, CompletionSuccessor DEF ScheduledOnce
  <2>6. ASSUME NEW x \in Live, NEW new, CompleteAndScheduleNext(x, new) PROVE ScheduledOnce(t)
    <3>1. PICK done \in SUBSET {x} : tasks' = Completed(done, new)
      BY <2>6 DEF CompleteAndScheduleNext
    <3>2. Successors({x}, new)
      BY <2>6 DEF CompleteAndScheduleNext
    <3> QED BY <2>5, <3>1, <3>2
  <2>7. ASSUME NEW S \in SUBSET Live, NEW new, NEW asked \in BOOLEAN, CompleteMany(S, new, asked)
        PROVE  ScheduledOnce(t)
    <3>1. Successors(S, new) /\ tasks' = Completed(S, new)
      BY <2>7 DEF CompleteMany
    <3> QED BY <2>5, <3>1
  <2>8. ASSUME NEW x \in Live, NEW due \in Dates, ChangeDue(x, due) PROVE FALSE
    <3>1. x = t /\ tasks'[t] = Touch([tasks[t] EXCEPT !.due = due]) /\ tasks[t] \in Row
      BY <2>1, <2>8, RowOf DEF ChangeDue, Live
    <3>2. [tasks[t] EXCEPT !.due = due] \in Row
      BY <3>1, DayAssumption DEF Row, OptDay
    <3>3. [tasks[t] EXCEPT !.due = due].status = tasks[t].status
      BY <3>1 DEF Row
    <3> QED BY <2>1, <3>1, <3>2, <3>3, TouchIs
  <2>9. ASSUME NEW i \in DOMAIN log, NEW commits \in 1 .. 4, UndoItem(i, commits) PROVE EndedByUndo(t)
    <3>1. t = log[i].task /\ commits > 1 /\ OneWrite(t, {log[i].status})
      BY <2>1, <2>9, HandlersWrite
    <3>2. log[i].status = "done"
      BY <2>1, <3>1, WrittenStatus
    <3>3. log[i].kind = "item"
      BY <2>9 DEF UndoItem
    <3>4. commits \in 2 .. 4
      BY <3>1
    <3> QED BY <2>9, <3>1, <3>2, <3>3, <3>4 DEF EndedByUndo
  <2>10. ASSUME NEW b \in backlogs, NEW moved \in SUBSET b, SkipBacklog(b, moved) PROVE FALSE
    <3>1. PICK same : same = {tasks[t].status} /\ OneWrite(t, same)
      BY <2>1, <2>10, SkipWrite
    <3>2. tasks'[t].status \in same \cup {tasks[t].status}
      BY <3>1, WrittenStatus
    <3> QED BY <2>1, <3>1, <3>2
  <2>11. CASE Tick \/ \E b \in backlogs : KeepBacklog(b)
    BY <2>1, <2>11 DEF Tick, KeepBacklog
  <2>12. "done" \notin {"cancelled"} /\ "done" \notin {"active"} /\ "done" \notin {}
    OBVIOUS
  <2> QED
    BY <2>2, <2>3, <2>4, <2>6, <2>7, <2>8, <2>9, <2>10, <2>11, <2>12,
       HandlersWrite, RecurrenceWrite
    DEF Next, CompleteTask, ExecuteDone
<1> HIDE DEF Schedules
<1>2. Spec => [][Schedules]_vars
  BY <1>1, TypeCorrect, OccurrencesUnique, PTL DEF Spec
<1> QED BY <1>2 DEF Schedules, CompletionSchedulesNext
=============================================================================
