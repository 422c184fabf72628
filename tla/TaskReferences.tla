--------------------------- MODULE TaskReferences ---------------------------
(***************************************************************************)
(* What the owner means by "task 2", "these tasks", "all tasks today" or a  *)
(* few words of a title: TaskReferenceResolver, the list of tasks a view    *)
(* leaves behind in task_list_contexts, and the handlers that write what    *)
(* was resolved or ask about it first.                                      *)
(*                                                                          *)
(* Updates are handled one after another, so that a message is one step.    *)
(* Which titles a text matches is data: any set of active tasks.  Time is   *)
(* in hours.                                                                *)
(***************************************************************************)
EXTENDS Integers, Sequences, FiniteSets, SequencesExt

CONSTANTS
  Task,       \* tasks, numbered in the order they were created
  Rows,       \* the status and the day of the tasks before the first message
  Views,      \* the views that are asked for
  Page,       \* tasks a view or a question lists at most
  Top,        \* tasks a briefing lists at most
  Threshold,  \* bulk_confirmation_threshold
  TTL,        \* context_ttl of lists and of the focus
  DayLen,     \* hours of a day
  End,        \* bound on the time
  MaxTitled,  \* bound on the tasks a page names by their titles only
  MaxTurns,   \* bound on the messages and buttons handled
  MaxLost     \* bound on the replies that do not arrive

Day(t) == t \div DayLen
Days == 0 .. Day(End)
Undated == Day(End) + 1    \* due_at IS NULL comes last

ASSUME SizeAssumption ==
  /\ Task \subseteq Nat /\ IsFiniteSet(Task)
  /\ Rows \subseteq [Task -> [status : {"absent", "open", "waiting"}, day : Days \cup {Undated}]]
  /\ Views \subseteq {"today", "tasks", "query_tasks", "briefing", "tomorrow"}
  /\ Page \in Nat \ {0} /\ Top \in Nat \ {0} /\ Threshold \in Nat \ {0}
  /\ TTL \in Nat /\ DayLen \in Nat \ {0} /\ End \in Nat
  /\ MaxTitled \in Nat /\ MaxTurns \in Nat /\ MaxLost \in Nat

VARIABLES
  now,
  status,  \* tasks.status
  due,     \* tasks.due_at: its day, or Undated
  list,    \* the row of task_list_contexts
  asked,   \* the pending question about tasks: what it offers to do to which
  shown,   \* history: the numbered tasks of the page the owner read last (the
           \* choices of a question have numbers of their own)
  seen,    \* history: the view that numbered them, or a "screen"
  intact,  \* history: none of them was closed, and no later list was stored
  did,     \* history: what the last message did, as an answer or not, to what
  turns, lost

taskVars == <<now, status, due, list, asked, shown, seen, intact, did, turns, lost>>

Ops == {"done", "cancel", "due", "rename", "priority", "recurrence"}
Lists == {s \in SeqOf(Task, Cardinality(Task)) : IsInjective(s)}

NoList == [ids |-> <<>>, view |-> "none", at |-> 0]
NoQuestion == [op |-> "none", every |-> FALSE, ids |-> <<>>, day |-> Undated]
Did(op, answer, to) == [op |-> op, answer |-> answer, to |-> to]
Nothing == Did("none", FALSE, {})

Active == {t \in Task : status[t] \in {"open", "waiting"}}
DueToday == {t \in Active : due[t] <= Day(now)}
DueTomorrow == {t \in Active : due[t] = Day(now) + 1 /\ due[t] # Undated}
Waiting == {t \in Active : status[t] = "waiting"}

\* list_active: ORDER BY due_at IS NULL, due_at, created_at.
Before(s, t) == due[s] < due[t] \/ (due[s] = due[t] /\ s < t)

\* The members of S by rank, the number of members that come before.
Enumerated(S, rank) ==
  [i \in 1 .. Cardinality(S) |-> CHOOSE t \in S : rank[t] = i - 1]

Ordered(S) == Enumerated(S, [t \in S |-> Cardinality({s \in S : Before(s, t)})])
First(s, n) == SubSeq(s, 1, IF Len(s) < n THEN Len(s) ELSE n)

TaskInit ==
  /\ now = 0
  /\ \E rows \in Rows :
       /\ status = [t \in Task |-> rows[t].status]
       /\ due = [t \in Task |-> rows[t].day]
  /\ list = NoList /\ asked = NoQuestion
  /\ shown = <<>> /\ seen = "none" /\ intact = FALSE
  /\ did = Nothing /\ turns = 0 /\ lost = 0

\* is_explicit_new_action, or no question at all.
Dismissed == asked' = NoQuestion

Turn == turns < MaxTurns /\ turns' = turns + 1

Tick ==
  /\ now < End /\ now' = now + 1
  /\ UNCHANGED <<status, due, list, asked, shown, seen, intact, did, turns, lost>>

Capture(t, day) ==
  /\ Turn /\ status[t] = "absent"
  /\ status' = [status EXCEPT ![t] = "open"]
  /\ due' = [due EXCEPT ![t] = day]
  /\ did' = Nothing /\ Dismissed
  /\ UNCHANGED <<now, list, shown, seen, intact, lost>>

-----------------------------------------------------------------------------
(* Views.                                                                  *)

\* Faulty variant: the waiting tasks come first.
TodayWaitingFirst == Ordered(Waiting) \o Ordered(DueToday \ Waiting)

\* Faulty variant: a task that waits and is due is there twice.
TodayTwice == Ordered(DueToday) \o Ordered(Waiting)

Today == Ordered(DueToday) \o Ordered(Waiting \ DueToday)

\* _top_priority_tasks: the scores are data.
Briefings == {s \in Lists : /\ ToSet(s) \subseteq Active
                            /\ Len(s) = Len(First(Ordered(Active), Top))}

\* ordered_task_ids_for_view.
Listed(view) ==
  CASE view = "today"    -> {Today}
    [] view \in {"tasks", "query_tasks"} -> {First(Ordered(Active), Page)}
    [] view = "briefing" -> Briefings
    [] OTHER             -> {<<>>}

\* The numbers the owner reads.  On the page of a day they start again at the
\* waiting tasks, and the first section is the one numbers are taken to mean; a
\* text that asks for the tasks numbers all of them, the command /tasks does not.
Numbered(view, ids) ==
  CASE view = "today" /\ DueToday # {}        -> Ordered(DueToday)
    [] view = "tomorrow" /\ DueTomorrow # {}  -> Ordered(DueTomorrow)
    [] view = "tomorrow" /\ DueTomorrow = {}  -> Ordered(Waiting)
    [] view = "query_tasks"                   -> Ordered(Active)
    [] OTHER                                  -> ids

\* remember_task_list.  Without tasks for a view it looks for lines "1. title"
\* in the text: those of reminders and meetings on the page of a day, and which
\* tasks have such a title is data.
Remembers(view, ids) ==
  IF ids # <<>> THEN {ids}
  ELSE IF view \in {"today", "tomorrow"}
       THEN {s \in Lists : ToSet(s) \subseteq Active /\ Len(s) <= MaxTitled}
  ELSE {<<>>}

\* Nothing to remember leaves the list before it in force.
Stored(view, kept) ==
  IF kept = <<>> THEN list ELSE [ids |-> kept, view |-> view, at |-> now]

Reads(tasks, view) == shown' = tasks /\ seen' = view /\ intact' = TRUE

\* A command or a text shows a view.  Its tasks are remembered before the
\* reply is sent.
Show(view, ids, kept, arrives) ==
  LET tasks == Numbered(view, ids) IN
  /\ list' = Stored(view, kept)
  /\ Dismissed
  /\ IF arrives THEN UNCHANGED lost ELSE lost < MaxLost /\ lost' = lost + 1
  /\ IF arrives /\ tasks # <<>> THEN Reads(tasks, view)
     ELSE intact' = (intact /\ kept = <<>>) /\ UNCHANGED <<shown, seen>>
  /\ did' = Nothing
  /\ UNCHANGED <<now, status, due>>

\* The other pages that number tasks remember nothing: /waiting, /work, the
\* tasks of a project, texts that ask for tomorrow or for what is due, and the
\* navigation buttons, which also leave a question pending.
Screens == {Ordered(Active), First(Ordered(Active), Page), Ordered(Waiting)}

Screen(tasks) ==
  /\ tasks # <<>>
  /\ Reads(tasks, "screen")
  /\ Dismissed \/ UNCHANGED asked
  /\ did' = Nothing
  /\ UNCHANGED <<now, status, due, list, lost>>

-----------------------------------------------------------------------------
(* TaskReferenceResolver.resolve.  A reference is how a text names tasks:   *)
(* by a number or a count (n), a scope, or words of their titles.  It is    *)
(* not "sure" if the classifier had doubts, or the title lacks a word.      *)
(* A number that is too high, and a scope without a list, are read as words *)
(* of titles: the same as naming by title.                                  *)

Ref(by, n, title, sure) == [by |-> by, n |-> n, title |-> title, sure |-> sure]

References ==
  {Ref(by, n, {}, sure) : by \in {"number", "count"}, n \in 1 .. Cardinality(Task), sure \in BOOLEAN}
    \cup {Ref(by, 0, {}, sure) : by \in {"today", "these", "vague"}, sure \in BOOLEAN}
    \cup {Ref("title", 0, title, sure) : title \in SUBSET Active, sure \in BOOLEAN}

Selection(tasks, ambiguous, confirm) ==
  [tasks |-> tasks, ambiguous |-> ambiguous, confirm |-> confirm]

\* get_context with max_age.
InForce == list # NoList /\ list.at + TTL >= now

\* _context_selection: the tasks of the list that are still active.
ContextTasks ==
  LET kept == {i \in DOMAIN list.ids : list.ids[i] \in Active}
      order == Enumerated(kept, [i \in kept |-> Cardinality({j \in kept : j < i})])
  IN  IF InForce THEN [k \in DOMAIN order |-> list.ids[order[k]]] ELSE <<>>

TooMany(tasks) == Len(tasks) > Threshold

ByTitle(r) ==
  Selection(Ordered(r.title), Cardinality(r.title) > 1,
            Cardinality(r.title) > 1 \/ ~r.sure)

\* Faulty variant: the tasks due today are taken without a question.
AllTodayUnasked(r) ==
  IF InForce /\ list.view = "today"
  THEN Selection(ContextTasks, FALSE, ~r.sure \/ TooMany(ContextTasks))
  ELSE Selection(Ordered(DueToday), FALSE, ~r.sure)

\* "All tasks today": those of the view of today if that is the list in
\* force, else those due by the end of the day, and then with a question.
AllToday(r) ==
  IF InForce /\ list.view = "today"
  THEN Selection(ContextTasks, FALSE, ~r.sure \/ TooMany(ContextTasks))
  ELSE Selection(Ordered(DueToday), FALSE, TRUE)

Resolve(r) ==
  LET context == ContextTasks IN
  CASE r.by = "count" /\ r.n <= Len(context)
         -> LET tasks == First(context, r.n)
            IN  Selection(tasks, FALSE, ~r.sure \/ TooMany(tasks))
    [] r.by = "number" /\ r.n <= Len(context)
         -> Selection(<<context[r.n]>>, FALSE, ~r.sure)
    [] r.by = "today" -> AllToday(r)
    [] r.by = "these" /\ context # <<>>
         -> Selection(context, FALSE, ~r.sure \/ TooMany(context))
    [] r.by = "vague" /\ context # <<>> -> Selection(context, FALSE, TRUE)
    [] OTHER -> ByTitle(r)

-----------------------------------------------------------------------------
(* The handlers.  A text that asks for a change is a new action: a pending  *)
(* question is cancelled before the text is read.  What a new title, a new  *)
(* priority and a new recurrence rule write is not looked at here.          *)

Closing == {"done", "cancel", "all"}
Closed(op) == IF op = "done" THEN "done" ELSE "cancelled"

Write(op, answer, S, day) ==
  /\ status' = [t \in Task |-> IF t \in S /\ op \in Closing THEN Closed(op) ELSE status[t]]
  /\ due' = [t \in Task |-> IF t \in S /\ op = "due" THEN day ELSE due[t]]
  /\ intact' = (intact /\ (op \in Closing => S \cap ToSet(shown) = {}))
  /\ did' = Did(op, answer, S)

Do(op, sel, day) ==
  Write(op, FALSE, ToSet(sel.tasks), day) /\ Dismissed

Refuse == Dismissed /\ did' = Nothing /\ UNCHANGED <<status, due, intact>>

Ask(op, every, ids, day) ==
  /\ asked' = [op |-> op, every |-> every, ids |-> ids, day |-> day]
  /\ did' = Nothing
  /\ UNCHANGED <<status, due, intact>>

AskWhich(op, sel, day) == Ask(op, FALSE, First(sel.tasks, Page), day)
AskWhether(op, sel, day) == Ask(op, TRUE, sel.tasks, day)

Elsewhere == UNCHANGED <<now, list, shown, seen, lost>>

None(sel) == sel.tasks = <<>>
One(sel) == Len(sel.tasks) = 1
Many(sel) == Len(sel.tasks) > 1

\* _mark_task_done: the only handler that takes several tasks at once.
Complete(sel) ==
  /\ Elsewhere
  /\ \/ None(sel) /\ Refuse
     \/ sel.ambiguous /\ AskWhich("done", sel, Undated)
     \/ ~None(sel) /\ ~sel.ambiguous /\ sel.confirm /\ AskWhether("done", sel, Undated)
     \/ ~None(sel) /\ ~sel.ambiguous /\ ~sel.confirm /\ Do("done", sel, Undated)

\* _cancel_task does not look at requires_confirmation, ...
Cancel(sel) ==
  /\ Elsewhere
  /\ \/ None(sel) /\ Refuse
     \/ Many(sel) /\ AskWhich("cancel", sel, Undated)
     \/ One(sel) /\ Do("cancel", sel, Undated)

\* ... nor does _rename_task, whose reply may list all active tasks, ...
Rename(sel) ==
  \/ Elsewhere /\ None(sel) /\ Refuse
  \/ Elsewhere /\ Many(sel) /\ AskWhich("rename", sel, Undated)
  \/ Elsewhere /\ One(sel) /\ Do("rename", sel, Undated)
  \/ /\ One(sel) /\ Do("rename", sel, Undated)
     /\ shown' = Ordered(Active) /\ seen' = "screen"
     /\ UNCHANGED <<now, list, lost>>

\* ... and these two refuse more than one task.
ChangePriority(sel) ==
  /\ Elsewhere
  /\ IF One(sel) THEN Do("priority", sel, Undated) ELSE Refuse

ChangeRecurrence(sel) ==
  /\ Elsewhere
  /\ IF One(sel) THEN Do("recurrence", sel, Undated) ELSE Refuse

\* _update_task_due.  A task that recurs is asked about in any case.
ChangeDue(sel, day, recurs) ==
  LET confirm == sel.confirm \/ recurs IN
  /\ Elsewhere
  /\ \/ None(sel) /\ Refuse
     \/ Many(sel) /\ AskWhich("due", sel, day)
     \/ One(sel) /\ confirm /\ AskWhether("due", sel, day)
     \/ One(sel) /\ ~confirm /\ Do("due", sel, day)

\* A text without a time: the time is asked for, if need be that of the task
\* created last.  The day is the one the answer will give.
ChangeDueLater(sel, day) ==
  LET last == {t \in Active : \A o \in Active : o <= t} IN
  /\ Elsewhere
  /\ \/ One(sel) /\ AskWhether("due", sel, day)
     \/ ~One(sel) /\ last # {} /\ AskWhether("due", Selection(Ordered(last), FALSE, TRUE), day)
     \/ ~One(sel) /\ last = {} /\ Refuse

\* "Clear all open tasks": one after another, as far as the process comes.
DeleteAll(n) ==
  /\ Turn /\ Elsewhere
  /\ n \in 0 .. Cardinality(Active)
  /\ Write("all", FALSE, ToSet(First(Ordered(Active), n)), Undated)
  /\ Dismissed

\* "Yes" to a question about every task it lists: of several, those that
\* were closed since the preview are left out.
AnswerYes ==
  /\ Turn /\ Elsewhere
  /\ asked # NoQuestion /\ asked.every
  /\ LET ids == ToSet(asked.ids)
         S == IF Len(asked.ids) = 1 THEN ids ELSE ids \cap Active
     IN  Write(asked.op, TRUE, S, asked.day)
  /\ asked' = NoQuestion

\* A number answers a question which task is meant.
AnswerNumber(n) ==
  /\ Turn /\ Elsewhere
  /\ asked # NoQuestion /\ ~asked.every /\ n \in DOMAIN asked.ids
  /\ Write(asked.op, TRUE, {asked.ids[n]}, asked.day)
  /\ asked' = NoQuestion

AnswerNo ==
  /\ Turn /\ Elsewhere
  /\ asked # NoQuestion
  /\ Refuse

\* A button under a view, however old, closes its task: no list is looked at,
\* and a question stays pending.
Button(op, t) ==
  /\ Turn /\ Elsewhere
  /\ status[t] # "absent"
  /\ Write(op, FALSE, {t}, Undated)
  /\ UNCHANGED asked

Text(sel) ==
  \/ Complete(sel)
  \/ Cancel(sel)
  \/ Rename(sel)
  \/ ChangePriority(sel)
  \/ ChangeRecurrence(sel)
  \/ \E day \in Days, recurs \in BOOLEAN : ChangeDue(sel, day, recurs)
  \/ \E day \in Days : ChangeDueLater(sel, day)

TaskNext ==
  \/ Tick
  \/ \E t \in Task, day \in Days \cup {Undated} : Capture(t, day)
  \/ Turn /\ \E view \in Views : \E ids \in Listed(view) :
       \E kept \in Remembers(view, ids), arrives \in BOOLEAN : Show(view, ids, kept, arrives)
  \/ Turn /\ \E tasks \in Screens : Screen(tasks)
  \/ Turn /\ \E sel \in {Resolve(r) : r \in References} : Text(sel)
  \/ \E n \in 0 .. Cardinality(Task) : DeleteAll(n)
  \/ AnswerYes
  \/ \E n \in 1 .. Page : AnswerNumber(n)
  \/ AnswerNo
  \/ \E op \in {"done", "cancel"}, t \in Task : Button(op, t)

-----------------------------------------------------------------------------
TaskTypeOK ==
  /\ now \in 0 .. End
  /\ status \in [Task -> {"absent", "open", "waiting", "done", "cancelled"}]
  /\ due \in [Task -> Days \cup {Undated}]
  /\ list \in [ids : Lists, view : Views \cup {"none"}, at : 0 .. now]
  /\ asked \in [op : Ops \cup {"none"}, every : BOOLEAN, ids : Lists,
                day : Days \cup {Undated}]
  /\ shown \in Lists /\ seen \in Views \cup {"none", "screen"} /\ intact \in BOOLEAN
  /\ did.op \in Ops \cup {"none", "all"}
  /\ turns \in 0 .. MaxTurns /\ lost \in 0 .. MaxLost

\* More than one task is written by one message only if the owner said "all
\* open tasks", said yes to a question that listed them, or they are on the
\* list of a view that was asked for within the TTL, and few: dynamic and vague
\* scopes and large batches show a preview first.
UnaskedRemembered ==
  [][turns' # turns /\ Cardinality(did'.to) > 1 =>
       \/ did'.op = "all"
       \/ did'.answer /\ did'.to \subseteq ToSet(asked.ids)
       \/ /\ did'.op = "done" /\ Cardinality(did'.to) <= Threshold
          /\ did'.to \subseteq ToSet(list.ids) /\ list.at + TTL >= now]_taskVars

Means(n) == Resolve(Ref("number", n, {}, TRUE)).tasks

\* After /today, /tasks, /briefing, or a text that asks for today or the tasks,
\* "task n" is the task the owner reads at n, until the list is too old, while
\* nothing on it was closed and no later list was stored that the owner did not
\* read.  A text that asks for the tasks numbers more than are remembered: a
\* number past them stands for none of the list.  It is read as words of a
\* title, here as words that no title has, so that it does not mean the task the
\* owner reads there either.  (The tasks are resolved in the list that was
\* stored, from another query, before the reply was sent.)
NumberMeansShown ==
  intact /\ InForce =>
    /\ seen \in {"today", "tasks", "briefing"} =>
         \A n \in DOMAIN shown : Means(n) = <<shown[n]>>
    /\ seen = "query_tasks" =>
         \A n \in DOMAIN shown : Means(n) = IF n <= Page THEN <<shown[n]>> ELSE <<>>

\* The same of every page that numbers tasks.  The code does not keep it:
\* "task 2" after /waiting, /tomorrow or a navigation button means the second
\* task of an older list.
NumberMeansRead ==
  intact /\ InForce => \A n \in DOMAIN shown : Means(n) = <<shown[n]>>
=============================================================================
