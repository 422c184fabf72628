----------------------------- MODULE Activities -----------------------------
(***************************************************************************)
(* One real-world activity may be a task and a meeting: both are derived    *)
(* from one note and tied by a row of activity_links.  A rename of the task *)
(* reaches the meetings linked to it, a merge of two tasks carries their    *)
(* links to the new one, and "undo" takes back either, as far as the record *)
(* of the last turn says what it was.  ActivityReconciliationService, with  *)
(* _merge_tasks and _undo_last_action of the conversation service.          *)
(*                                                                          *)
(* project_id is written wherever person_id is, and is left out.  Whom a    *)
(* title mentions, and which titles have most words in common, is data.     *)
(***************************************************************************)
EXTENDS Integers, Sequences, FiniteSets

CONSTANTS
  TaskId,          \* ids of tasks, captured or made by a merge
  Meeting,
  Person,
  Title,
  Note,            \* the notes tasks and meetings are derived from
  NoPerson,        \* person_id IS NULL
  Mentions(_),     \* _single_mentioned_entity_id of a title
  Joined(_, _),    \* the title of a merged task
  Alike(_, _),     \* two titles share at least 0.6 of the shorter one's words
  Covers(_, _),    \* they share all the words of the shorter one
  FirstRows,       \* tasks and meetings when the process is first started
  Unset,           \* due_at, starts_at IS NULL
  Times,
  Merges,          \* the note of a merge request: no meeting comes from it
  MaxHandled,      \* bound on the messages and buttons handled
  MaxCrashes       \* bound on the ends of the process

\* Rows of tasks and of meetings.
TaskRow ==
  [open : BOOLEAN, title : Title, person : Person \cup {NoPerson},
   note : Note \cup {Merges}, due : Times \cup {Unset}]
MeetingRow ==
  [title : Title, person : Person \cup {NoPerson}, people : SUBSET Person,
   note : Note, starts : Times \cup {Unset}]

ASSUME DataAssumption ==
  /\ NoPerson \notin Person /\ Times \subseteq Int /\ Unset \notin Times /\ Merges \notin Note
  /\ \A x \in Title : Mentions(x) \in Person \cup {NoPerson}
  /\ \A x, y \in Title :
       Joined(x, y) \in Title /\ Alike(x, y) \in BOOLEAN /\ Covers(x, y) \in BOOLEAN
  /\ \A rows \in FirstRows : /\ DOMAIN rows.tasks \subseteq TaskId
                             /\ rows.tasks \in [DOMAIN rows.tasks -> TaskRow]
                             /\ rows.meetings \in [Meeting -> MeetingRow]
  /\ MaxHandled \in Nat /\ MaxCrashes \in Nat

VARIABLES
  tasks,     \* the rows of tasks, by id
  meetings,  \* the rows of meetings, people: those of meeting_people
  links,     \* activity_links
  log,       \* event_logs: renames and merges of tasks
  undone,    \* those with a WORK_ITEM_UNDONE
  fresh,     \* history: renames none of whose rows was renamed since
  last,      \* last_result_entity_ids of chat_contexts
  turn,      \* the result of the latest row of conversation_turns
  phase,     \* "up", "down", or "repair" while it starts
  todo,      \* tasks repair_legacy_renames has yet to look at
  read,      \* all_meetings, as it read them first
  handled, crashes

activityVars == <<tasks, meetings, links, log, undone, fresh, last, turn, phase, todo,
                  read, handled, crashes>>

NoRows == <<>>    \* nothing is read

Live == DOMAIN tasks
Open == {t \in Live : tasks[t].open}
\* No id is used again.
Unused == TaskId \ (Live \cup {log[i].task : i \in DOMAIN log})

Linked(t) == {m \in Meeting : <<t, m>> \in links}

ActivityInit ==
  /\ \E rows \in FirstRows : tasks = rows.tasks /\ meetings = rows.meetings
  /\ links = {} /\ log = <<>> /\ undone = {} /\ fresh = {}
  /\ last = {} /\ turn = {}
  /\ phase = "down" /\ todo = {} /\ read = NoRows /\ handled = 0 /\ crashes = 0

-----------------------------------------------------------------------------
(* link_note_artifacts: each task of a note, closed or not, takes a meeting *)
(* of the note that no task before it took, if there is one like it.        *)

TasksOf(note) == {t \in Live : tasks[t].note = note}
MeetingsOf(note) == {m \in Meeting : meetings[m].note = note}

\* _same_activity_candidate.
Candidate(t, m) ==
  LET task == tasks[t]
      meeting == meetings[m]
  IN  IF task.due # Unset /\ meeting.starts # Unset
      THEN /\ task.due = meeting.starts
           /\ task.person = NoPerson \/ meeting.person = NoPerson \/ task.person = meeting.person
      ELSE /\ TasksOf(task.note) = {t} /\ MeetingsOf(task.note) = {m}
           /\ Alike(task.title, meeting.title)

\* In which order the tasks come, and of two meetings at one time which is
\* taken, is not said: any pairing that leaves no candidate unpaired.
Pairings(note) ==
  LET pairs == {p \in TasksOf(note) \X MeetingsOf(note) : Candidate(p[1], p[2])}
      Apart(p, q) == p[1] # q[1] /\ p[2] # q[2]
  IN  {f \in SUBSET pairs :
         /\ \A p, q \in f : p # q => Apart(p, q)
         /\ \A p \in pairs \ f : \E q \in f : ~Apart(p, q)}

-----------------------------------------------------------------------------
(* The rows.                                                               *)

Named(row, title, person) == [row EXCEPT !.title = title, !.person = person]

\* update_activity: whoever else took part is deleted.
Updated(row, title, person) ==
  [Named(row, title, person) EXCEPT !.people = {person} \ {NoPerson}]

Renamed(ms, title, person) ==
  [m \in Meeting |-> IF m \in ms THEN Updated(meetings[m], title, person) ELSE meetings[m]]

\* The events whose rows a write to these leaves alone.
Untouched(t, ms) ==
  {i \in fresh : log[i].task # t /\ DOMAIN log[i].meetings \cap ms = {}}

-----------------------------------------------------------------------------
(* The process.  A text is a turn: what it was about is recorded when its   *)
(* handler is done, first in chat_contexts, then in conversation_turns.     *)

Up == phase = "up" /\ handled < MaxHandled /\ handled' = handled + 1 /\ UNCHANGED <<todo, read>>

Ends == crashes < MaxCrashes /\ crashes' = crashes + 1 /\ phase' = "down"
Goes == UNCHANGED <<phase, crashes>>

\* Each link of a pairing is a commit.
EndsLinking(pairs) == Ends /\ \E some \in SUBSET pairs : links' = links \cup some

\* ChatContextRepository.save and append_turn, each a commit.
Saved(result) == last' = result
Appended(result) == turn' = result

\* _record_conversation_outcome, and an end of the process before or within.
Recorded(result) ==
  \/ Goes /\ Saved(result) /\ Appended(result)
  \/ Ends /\ (Saved(result) \/ UNCHANGED last) /\ UNCHANGED turn

\* A button is not a turn.
Unrecorded == Goes /\ UNCHANGED <<last, turn>>

\* What a turn is said to be about: tasks it opened, else those it was planned
\* to be about.
Outcome(planned) == IF Open' \ Open # {} THEN Open' \ Open ELSE planned

Crash ==
  /\ phase \in {"up", "repair"} /\ Ends
  /\ todo' = {} /\ read' = NoRows
  /\ UNCHANGED <<tasks, meetings, links, log, undone, fresh, last, turn, handled>>

\* Tasks with a rename that a selection confirmed pass for renamed by an old
\* version, undone or not.
ByOldVersion(t) ==
  \E i \in DOMAIN log : log[i].kind = "rename" /\ log[i].task = t /\ log[i].selected

\* repair_legacy_renames reads the meetings, then links the notes of the active
\* tasks.
Start ==
  /\ phase = "down"
  /\ \E f \in [{tasks[t].note : t \in Open} -> UNION {Pairings(tasks[t].note) : t \in Open}] :
       LET pairs == UNION {f[note] : note \in DOMAIN f} IN
       /\ \A note \in DOMAIN f : f[note] \in Pairings(note)
       /\ \/ EndsLinking(pairs) /\ UNCHANGED <<todo, read>>
          \/ /\ links' = links \cup pairs
             /\ todo' = {t \in Open : ByOldVersion(t)} /\ read' = meetings
             /\ phase' = "repair" /\ UNCHANGED crashes
  /\ UNCHANGED <<tasks, meetings, log, undone, fresh, last, turn, handled>>

\* _legacy_activity_score is at least 2 (of a project it would take less), of
\* one meeting more than of others.  An event without an old_title is looked up
\* by the title the task has now.
Resembling(t) ==
  {m \in Meeting : /\ tasks[t].due # Unset /\ tasks[t].due = read[m].starts
                   /\ \/ tasks[t].person # NoPerson /\ tasks[t].person = read[m].person
                      \/ Covers(tasks[t].title, read[m].title)}
Legacy(t) ==
  IF Linked(t) # {} THEN {{}}
  ELSE IF Cardinality(Resembling(t)) <= 1 THEN {Resembling(t)}
  ELSE {{}} \cup {{m} : m \in Resembling(t)}

\* The link to a meeting that resembles the task is committed first.
Repair(t) ==
  /\ phase = "repair" /\ t \in todo
  /\ \E more \in Legacy(t) :
       LET ms == Linked(t) \cup more
           title == tasks[t].title
           person == Mentions(title)
           Right(row) == row.title = title /\ row.person = person
           rows == IF more = {} THEN meetings ELSE read
       IN  /\ links' = links \cup {<<t, m>> : m \in more}
           /\ \/ /\ Ends /\ todo' = {} /\ read' = NoRows
                 /\ UNCHANGED <<tasks, meetings, fresh>>
              \/ /\ Goes /\ todo' = todo \ {t} /\ UNCHANGED read
                 /\ ms = {} \/ (Right(tasks[t]) /\ \A m \in ms : Right(rows[m]))
                 /\ UNCHANGED <<tasks, meetings, fresh>>
              \/ /\ Goes /\ todo' = todo \ {t} /\ UNCHANGED read
                 /\ ms # {} /\ ~(Right(tasks[t]) /\ \A m \in ms : Right(rows[m]))
                 /\ tasks' = [tasks EXCEPT ![t] = Named(@, title, person)]
                 /\ meetings' = Renamed(ms, title, person)
                 /\ fresh' = Untouched(t, ms)
  /\ UNCHANGED <<log, undone, last, turn, handled>>

Started ==
  /\ phase = "repair" /\ todo = {} /\ phase' = "up" /\ read' = NoRows
  /\ UNCHANGED <<tasks, meetings, links, log, undone, fresh, last, turn, todo, handled, crashes>>

-----------------------------------------------------------------------------
(* Messages and buttons.                                                   *)

\* Any other turn: a view, a capture, another change.
OtherTurn(result) ==
  /\ Recorded(result)
  /\ UNCHANGED <<tasks, meetings, links, log, undone, fresh>>

\* A button closes a task, moves it, or takes such a change back.
ChangeByButton(t, open, due) ==
  /\ Unrecorded
  /\ tasks' = [tasks EXCEPT ![t].open = open, ![t].due = due]
  /\ UNCHANGED <<meetings, links, log, undone, fresh>>

\* rename_task, of an active task that a text named or of one that the owner
\* selected when asked.  The links of its note are committed first.
RenameTask(t, title, selected) ==
  /\ tasks[t].open \/ selected
  /\ \E f \in Pairings(tasks[t].note) :
       LET ms == {m \in Meeting : <<t, m>> \in links \cup f}
           person == IF ms # {} \/ Mentions(title) # NoPerson
                     THEN Mentions(title) ELSE tasks[t].person
       IN  \/ /\ EndsLinking(f)
              /\ UNCHANGED <<tasks, meetings, log, fresh, last, turn>>
           \/ /\ links' = links \cup f
              /\ tasks' = [tasks EXCEPT ![t] = Named(@, title, person)]
              /\ meetings' = Renamed(ms, title, person)
              /\ log' = Append(log, [kind |-> "rename", task |-> t, selected |-> selected,
                                     before |-> tasks[t],
                                     after |-> Named(tasks[t], title, person),
                                     meetings |-> [m \in ms |-> meetings[m]]])
              /\ fresh' = Untouched(t, ms) \cup {Len(log) + 1}
              /\ Recorded(IF selected THEN {} ELSE {t})
  /\ UNCHANGED undone

\* Faulty variant: the meetings keep their new names.
RestoredTaskOnly(e) == meetings

\* The meetings as undo_event writes them.
Restored(e) ==
  [m \in Meeting |-> IF m \in DOMAIN e.meetings
                     THEN Updated(meetings[m], e.meetings[m].title, e.meetings[m].person)
                     ELSE meetings[m]]

\* undo_event of a rename: whatever was written since is overwritten.
UndoRename(i) ==
  /\ tasks' = [t \in Live |-> IF t = log[i].task
                              THEN Named(tasks[t], log[i].before.title, log[i].before.person)
                              ELSE tasks[t]]
  /\ meetings' = Restored(log[i])
  /\ undone' = undone \cup {i}
  /\ fresh' = Untouched(log[i].task, DOMAIN log[i].meetings)
  /\ UNCHANGED links

\* The button under the reply to a rename, however old.
UndoButton(i) ==
  /\ Unrecorded
  /\ log[i].kind = "rename" /\ i \notin undone
  /\ UndoRename(i)
  /\ UNCHANGED log

\* _recent_merge_targets: the two tasks the last turns were about, if active.
Recent ==
  IF Cardinality(last \cap Open) = 2 THEN last \cap Open
  ELSE IF Cardinality(turn \cap Open) = 2 THEN turn \cap Open
  ELSE {}

\* Faulty variant: the links are moved.
TransferredAway(parts, t) ==
  {l \in links : l[1] \notin parts} \cup {<<t, m>> : m \in UNION {Linked(p) : p \in parts}}

\* transfer_task_links.
Transferred(parts, t) == links \cup {<<t, m>> : m \in UNION {Linked(p) : p \in parts}}

MergedRow(a, b) ==
  [open |-> TRUE, title |-> Joined(tasks[a].title, tasks[b].title),
   person |-> IF tasks[a].person = tasks[b].person THEN tasks[a].person ELSE NoPerson,
   note |-> Merges,
   due |-> LET dues == {tasks[a].due, tasks[b].due} \ {Unset}
           IN  IF dues = {} THEN Unset ELSE CHOOSE d \in dues : \A o \in dues : d <= o]

\* _merge_tasks.  The text names two tasks or says "these two": in either case
\* the two tasks of the last turn are merged if it was about two.
Merge(named, a, b, t) ==
  LET parts == {a, b} IN
  /\ parts = IF Recent # {} THEN Recent ELSE named
  /\ tasks' = [x \in Live \cup {t} |->
                 IF x = t THEN MergedRow(a, b)
                 ELSE IF x \in parts THEN [tasks[x] EXCEPT !.open = FALSE] ELSE tasks[x]]
  /\ links' = Transferred(parts, t)
  /\ log' = Append(log, [kind |-> "merge", task |-> t, parts |-> parts, named |-> named,
                         links |-> links])
  /\ Recorded({t})
  /\ UNCHANGED <<meetings, undone, fresh>>

\* Faulty variant: the links of a deleted task are left.
LinksLeft(t) == links

\* ON DELETE CASCADE.
Without(t) == {l \in links : l[1] # t}

\* The parts are active again; nothing says what was done to them since.
UndoMerge(i) ==
  /\ tasks' = [x \in Live \ {log[i].task} |->
                 IF x \in log[i].parts THEN [tasks[x] EXCEPT !.open = TRUE] ELSE tasks[x]]
  /\ links' = Without(log[i].task)
  /\ undone' = undone \cup {i}
  /\ UNCHANGED <<meetings, fresh>>

\* The newest event of a kind about a task, if it is not undone.
Newest(kind, t, i) ==
  /\ log[i].kind = kind /\ log[i].task = t
  /\ \A j \in DOMAIN log : log[j].kind = kind /\ log[j].task = t => j <= i
ToUndo(kind, t) == {i \in DOMAIN log \ undone : Newest(kind, t, i)}

\* _undo_last_action on the one task of the last turn: its newest rename, or if
\* that is undone its merge.
UndoText(t) ==
  /\ last = {t}
  /\ \/ \E i \in ToUndo("rename", t) : UndoRename(i)
     \/ /\ ToUndo("rename", t) = {}
        /\ \E i \in ToUndo("merge", t) : UndoMerge(i)
  /\ Recorded(Outcome({t}))
  /\ UNCHANGED log

Message ==
  /\ Up
  /\ \/ \E result \in SUBSET Open : Cardinality(result) <= 2 /\ OtherTurn(result)
     \/ \E t \in Live : \/ \E open \in BOOLEAN, due \in Times \cup {Unset} : ChangeByButton(t, open, due)
                        \/ \E title \in Title, selected \in BOOLEAN : RenameTask(t, title, selected)
     \/ \E i \in DOMAIN log : UndoButton(i)
     \/ \E a, b \in Open, t \in Unused : a # b /\ \E named \in SUBSET Open :
          Cardinality(named) \in {0, 2} /\ Merge(named, a, b, t)
     \/ \E t \in TaskId : UndoText(t)

ActivityNext == Message \/ Crash \/ Start \/ Started \/ \E t \in TaskId : Repair(t)

ActivitySpec == ActivityInit /\ [][ActivityNext]_activityVars

-----------------------------------------------------------------------------
ActivityTypeOK ==
  /\ Live \subseteq TaskId /\ tasks \in [Live -> TaskRow]
  /\ meetings \in [Meeting -> MeetingRow]
  /\ links \subseteq Live \X Meeting
  /\ \A i \in DOMAIN log : log[i].kind \in {"rename", "merge"} /\ log[i].task \in TaskId
  /\ undone \subseteq DOMAIN log /\ fresh \subseteq DOMAIN log
  /\ last \subseteq TaskId /\ turn \subseteq TaskId /\ todo \subseteq Open
  /\ phase \in {"up", "down", "repair"}
  /\ read \in IF phase = "repair" THEN [Meeting -> MeetingRow] ELSE {NoRows}
  /\ handled \in 0 .. MaxHandled /\ crashes \in 0 .. MaxCrashes

\* A merge never loses a meeting: one that a part was linked to is linked to
\* the merged task as long as it exists, so that a rename still reaches it, and
\* to the part as well, which the undo of the merge brings back.
MergeKeepsMeetings ==
  \A i \in DOMAIN log : log[i].kind = "merge" =>
    \A l \in log[i].links : l[1] \in log[i].parts =>
      /\ i \notin undone => <<log[i].task, l[2]>> \in links
      /\ l[1] \in Live => l \in links

\* Two rows agree in what a rename writes.
SameName(row, other) == row.title = other.title /\ row.person = other.person

\* Undoing a rename, by its button or by a text and however much later, takes
\* back that rename and nothing else: if no other rename, undo or repair wrote
\* one of its rows since, the task and the meetings it reached still have the
\* title and the person it gave them, whatever was merged, closed or linked, and
\* get back those they had before.
UndoRestores ==
  [][\A i \in fresh \cap (undone' \ undone) :
       LET e == log[i] IN
       /\ e.task \in Live => SameName(tasks[e.task], e.after)
       /\ e.task \in Live' => SameName(tasks'[e.task], e.before)
       /\ \A m \in DOMAIN e.meetings : /\ SameName(meetings[m], e.after)
                                        /\ SameName(meetings'[m], e.meetings[m])]_activityVars

\* "Mutating one projection of an activity must reconcile linked task/meeting/
\* entity state and be undoable from one event snapshot": the meetings are as
\* they were, those who take part in them included.
UndoRestoresPeople ==
  [][\A i \in fresh \cap (undone' \ undone) :
       \A m \in DOMAIN log[i].meetings : meetings'[m] = log[i].meetings[m]]_activityVars

\* "Wrong entity write: 0": who names the two tasks to merge gets these merged.
MergesNamed ==
  \A i \in DOMAIN log : log[i].kind = "merge" /\ log[i].named # {} =>
                          log[i].parts = log[i].named
=============================================================================
