# MemoCore: TLA+ models, model checking and proofs

MemoCore is a personal secretary for one owner: a Telegram bot that turns messages into notes,
tasks, reminders, memories, people and projects, kept in one SQLite database. It is one asyncio
process. The owner's updates are handled one after another; four background loops (reminders,
morning briefing, nudges, weekly review) run beside them on the same event loop and the same
connection. PM2 restarts the process when it ends (`ecosystem.config.cjs`).

This directory holds TLA+ modules translated from `src/memocore/`, the TLC configurations that
check them on small instances, and TLAPS proofs of the theorems that hold for every instance.
`PROJECT.json` maps each definition to the lines it stands for and lists runs, mutants, hazards,
findings and theorems. Paths below are relative to `src/memocore/`.

## 1. The system

| Component | State it keeps | Operations | What is hard | What makes it correct |
|---|---|---|---|---|
| Storage (`adapters/storage/sqlite.py`, `BaseRepository`) | one connection, `_transaction_depth`, SQLite's own transaction | `_execute` + `commit_if_needed`, nested `transaction()` | statements of all coroutines interleave on one transaction; refused statements; exceptions through nested contexts; crash | a block's writes become durable together; what returned is durable; nothing stays uncommitted |
| Tasks and recurrence (`services/task_operation_service.py`, `work_action_service.py`, `domain/recurrence.py`, `TaskRepository`) | rows of `tasks`, events with undo data, pending backlog questions | capture, complete (one, many, by note), buttons, recurrence changes, merge, three kinds of undo | any order of legal calls; stale buttons and stale answers; handlers of several commits cut short | one row per occurrence; undo deletes only what was generated and does not overwrite later work |
| Reminders (`services/reminder_service.py`, `app.py`, `ReminderRepository`) | rows of `reminders` with a lease | claim, send, mark; create, answer, done, reschedule, undo | loop and handlers write the same row between awaits; a send that arrives although it raises; crash while a claim is held | each schedule is heard once, or once more per crash and a lease later; nothing due is stranded |
| Note capture (`services/capture_service.py`, `task_extraction_service.py`) | rows of `notes` (captured, processed, failed), derived rows | capture, scoped knowledge, tag buttons, rollback | redelivered updates; model errors; failure inside or between the transactions | a message is processed at most once; failed notes keep nothing and can be retried |
| Clarifications (`services/clarification_service.py`) | pending questions per chat | request, answer, cancel, expire | answer to another question; stale lists; answer applied in several commits | an answer changes what its question asked, once |
| Memory (`services/memory_service.py`, `memory_lifecycle_executor.py`) | `memory_items` with status, revision, canonical and conflict links | persist, supersede, merge, delete, resolve conflict | links between rows under any order of operations; a capture, choice or rollback cut off between two statements | no dangling link, no circle of canonical claims; two contradicting claims never both answer unreviewed; a rolled back batch is gone |
| Scheduled jobs (`app.py`, `services/secretary_service.py`) | events `BRIEFING_SENT`, `WEEKLY_REVIEW_SENT`, `NUDGE_SENT` | look for the event, send, append it | crash or error between send and event; quiet hours around midnight | once a day but for what could not be recorded; cooldown and quiet hours kept |
| Projects, people, organizations, decisions (`knowledge_repositories.py`, `repositories.py`) | rows, aliases, `parent_project_id` | find or create, taxonomy, alias confirmation | a check over several awaits before a write | the hierarchy is acyclic |
| Activity links (`services/activity_reconciliation_service.py`) | links between tasks and meetings | link, rename together, merge, undo, repair at the start | undo long after later renames and merges; the process ends between commits | a merge loses no meeting; an undo gives names and persons back, unless they were renamed since |
| Start (`sqlite.py`, `migrations/sqlite/*.sql`) | `schema_migrations` | apply script, record it | crash between two statements, or before the record is committed | what is recorded took effect; the bot serves with every migration only |
| Conversation (`services/conversation_*.py`, resolvers) | recent turns, last list, active frame | routes a sentence to a handler | numbers, counts and "this" resolved against a stale list, question or focus | several tasks are written only if they were listed or confirmed; a number means what the owner reads; the focus is what was named last |
| Views, Telegram adapter, model providers, configuration | none that lasts | formatting, dispatch, network calls | fallback chain | see section 7 |

How they meet: an update goes from the Telegram adapter to a pending clarification, else to the
conversation, else to capture; each ends in repository writes. Derived objects of a note are
written in one `transaction()`; single writes commit themselves through `commit_if_needed`. The
loops read the same tables, and the reminder loop writes them. Buttons carry an event or row id and
arrive any time later. The events table is the history that undo and the scheduled jobs read.

## 2. Modules

| Module | Models | Proofs |
|---|---|---|
| `TaskLifecycle` | life of a task row, every mutation of it | `TaskLifecycleProofs` |
| `ReminderDispatch` | dispatch loop, handlers of reminders, crashes; every await of the loop a step | `ReminderDispatchProofs` |
| `NoteCapture` | a message from delivery to its derived objects | `NoteCaptureProofs` |
| `Clarification` | pending questions and their answers | `ClarificationProofs` |
| `MemoryLifecycle` | claims, contradictions, reviews, deletion, rollback of batches | `MemoryLifecycleProofs` |
| `Startup` | schema and migrations, statement by statement, and the restarts of PM2 | `ScheduledJobsProofs` |
| `ScheduledJobs` | the three loops that write unasked; EXTENDS `Startup` | `ScheduledJobsProofs` |
| `TaskReferences` | what "task 2", "these", "all today" or a title stands for, and the handlers that write it | `ConversationProofs` |
| `Conversation` | the focus of a chat and who "this project" is; EXTENDS `TaskReferences` | `ConversationProofs` |
| `Activities` | tasks and meetings that are one activity: links, renames, merges, undo, repair | `ConversationProofs` |
| `SharedConnection` | `Database` and `_execute` under concurrency | `SharedConnectionProofs` |
| `AtomicStore` | what a caller of `Database` expects | abstract specification implemented by `SharedConnection` |
| `MC*` | small instances, one per checked module | |

Two pairs are composed by EXTENDS: the loops of `ScheduledJobs` live and die with the process of
`Startup`, and every turn of `Conversation` about tasks is a step of `TaskReferences` followed by the
record of the turn. The others share no variable and compose by assumption: a `transaction()` is one
step, or one that is taken back whole, which is what `SharedConnection` implementing `AtomicStore`
justifies; `ReminderDispatch` assumes that a write of the loop that returned is kept, which
`SharedConnection` shows to fail in one case (further configurations, section 3).

### TaskLifecycle

`tasks` is the table by id (candidate, open, waiting and blocked are one status, `active`, because
every guard treats them alike). `updated_at` is a count of writes: the code compares it only for
equality. `log` holds the events that carry undo data (`WORK_ITEM_CHANGED`, `TASK_BATCH_COMPLETED`,
the merge event), `undone` the ones with a `WORK_ITEM_UNDONE`, `backlogs` the pending questions about
missed occurrences. No loop writes tasks and updates are sequential, so a handler is one step. A
handler with several commits has a parameter for how many it performed (`recorded`, `committed`,
`commits`): the process may end after any of them. Dates are days; "daily" is 1 and "weekly"
`WeekLen`. `Choices` lets a completion create any unused id for a missing successor, as `new_id()`
does, and `Missing` is the look-up `find_recurrence_occurrence`.

### ReminderDispatch

`phase`, `scan`, `current`, `batch` and `due` are the local state of the loop between two awaits
(`claim_due`: first SELECT, SELECT of one row, conditional UPDATE, commit; then send, and the read and
the write of `mark_sent`). `rows` is the table. `told` is a history variable: what the owner received
of the present schedule of a reminder. `Send(arrives, raises)` allows a message that arrives although
the call raises. A button handler has two steps because its "before" snapshot is read awaits before
the write. The answer to the question about a time has three, one for each commit (`AnswerTime`,
`AnswerSchedule`, `AnswerResolve`); the loop runs between them, and a handler may raise at any
(`HandlerRaises`). Handlers do not overlap (`NoHandler`): updates are processed one after another.
`reminder_dispatch_loop` has no `try` (`app.py:240`): what `claim_due` or `mark_failed` raises ends it
(`ClaimRaises`, `MarkFailedRaises`, `phase = "ended"`) until the process is restarted. `Crash` drops every
local variable and may drop claims that were not committed.

### NoteCapture

`note` is the status of the row of each source message (absent: no row), `order` the rows by
`created_at`. `at`, `msg` and `route` are the position of the handler: `capture`, `capture_scoped_knowledge`
or `_record_interaction`. Each commit is a step, and between two of them the handler may raise
(`Raise`, the error handler answers) or the process may end (`Crash`); Telegram then delivers again
any of the updates this process was given, and the others are lost. A message may take another route
when it is delivered again. `derived` and `stated` count the batches of objects a message led to; `kept`,
`tags` and `forgotten` follow the memories of scoped updates through rollback and deletion: a rollback
takes the last note tagged `knowledge_update` and not `rolled_back`. An update of blank statements is
tagged too (`services/capture_service.py:739`) and has nothing to roll back; a rollback that meets it is refused, and
every earlier update is out of reach until a later one. The only caller passes no blank statement
(`services/conversation_service.py:849`), so `RollbackHasObject` excepts that tag.
`Queries` and `Recurring` are the texts that leave `capture` before the model is asked.
Simplifications: a batch of derived objects is one unit; "capture the previous message" is a text of
the message's own kind; an exception before the note exists writes nothing and is left out; the
rollback's window of 20 notes is not reached.

### Clarification

`questions` is the table `clarification_requests` in the order of `created_at`; a text or a button
answers the oldest pending one (`Oldest`). A kind stands for the entity types with the same course:
`done`, `write` and `cancel` change a task and close the question in separate commits, `scope` and the
skip of a backlog in one transaction, `reminder` has its effect in another table. `resolved` says
whether the handler reached the second commit; if not, the process ended (`Crash`) and the question
stays. The words of an answer are left out: each branch of `answer_pending` is an action.
`Change` and `Capture` stand for every other handler that writes tasks. `applied`, `batched` and
`preview` are history. A closed row keeps its status only, because nothing reads the rest.
`Asked` stores the status with the `updated_at` of a backlog question as well; the code stores only the
latter, which decides the former, because every write moves it.

### MemoryLifecycle

`rows` is `memory_items` by order of creation, with the two links `revision` (`revision_of_id`) and
`canonical` (`canonical_memory_id`); `age` is the place of a row in `ORDER BY updated_at DESC`, which
decides what a claim is compared with. A claim is its bucket, project, topic and text, and two of one
topic with different texts contradict each other. `work` is the position of the handler between two
statements and `todo` what it still has to change. A capture and a rollback run in a transaction, so
that `saved` is the table they go back to; the statements of a deletion and of a choice commit one by
one: `Interrupt` (an exception, or the end of the process) may come between any two of a choice or
between two deletions, and `DeleteCut` between the two commits of one deletion (the links to the row are
cleared, the row is still there).
`DeleteRefused` is the foreign key of `canonical_memory_id` (`PRAGMA foreign_keys = ON`), which
`MemoryItemRepository.delete` does not clear. An update without rows is
tagged like any other and stays the latest until the next (`Undoable`). `batches` and `rolled` are the processed knowledge updates and the ones tagged as rolled
back. A claim can be looked up by a project it is not stored with (`Stored`): the code compares by the
project of the new claim but keeps it in the project bucket only.

### Startup and ScheduledJobs

`done` says how many statements of each migration have taken effect, `ledger` which migrations are
recorded and `pending` whose row is not committed. `executescript` commits what is pending and then
each statement by itself, so the row of one migration is committed by the first statement of the next.
`Scripts` gives for each statement whether it may be run again (`CREATE ... IF NOT EXISTS`) or is
refused (`ALTER TABLE ... ADD COLUMN`). A refusal ends the process. PM2 starts a process that ended
again until it counted `MaxRestarts` ends in a row that came within `min_uptime` (`Ended`,
`ecosystem.config.cjs`); whether an end came that early is left open. Then the process is "errored", and
nothing but the owner starts it again. (The crashes of the other modules are followed by a start: the
limit is a matter of this one.)

A loop is asleep, sending, appending its event, or dead; `Look`, `Send` and `AppendEvent` are the three
awaits, with a crash, an error (`StatementRaises`) and the owner (`Close`) possible between any two.
A send that raises is caught and leaves no event (the daily loops try again, the nudges go on to the
next item); any other exception ends the loop until the next start. `Send(l, arrives, raises)` may
arrive although it raises. `told` and `cut` are histories:
the messages that arrived on a day, and those of them that left no event.

### TaskReferences and Conversation

`list` is the row of `task_list_contexts` (the numbered tasks of the last view), `asked` the pending
question about tasks, `status` and `due` the tasks. `Resolve` is `TaskReferenceResolver.resolve`: a
number in the list in force, a count, "these", "all today" or a title, with its answer "ambiguous" or
"confirm first"; `Complete`, `Cancel`, `ChangeDue` and the others are the handlers, which write, ask
which one, or ask whether. Which titles a text matches is data: any set of active tasks. A number past
the list is read as words of a title.

A page shows numbers (`Numbered`) and leaves a list behind (`Stored`), and the two are not the same.
`Show(view, ids, kept, arrives)` is a page that is remembered: the list is stored before the reply is
sent, from a query of its own (`ids`), and the reply may be lost. The commands /today, /tasks and
/briefing and a text that asks for today number what they store. A text that asks for the tasks numbers
all active ones and stores the first five (`view = "query_tasks"`). On the page of a day the numbers
start again at the waiting tasks; a number is taken to mean the first section. If `ids` is empty,
`remember_task_list` looks for lines "1. title" in the text (`Remembers`): on the page of a day those of
reminders and meetings, so that it stores tasks which happen to have such a title. `Screen` is a page
that numbers tasks and is not remembered: /waiting, /work, a project, texts that ask for tomorrow or
for what is due, the navigation buttons, and the reply to some renames.

`shown`, `seen`, `intact` and `did` are histories: what the owner read last and on which page (the choices
of a question are no page: `asked` has their numbers, and they are not stored in `list`), whether
nothing on it was closed and no later list was stored that the owner did not read, what the last message
did. `NumberMeansShown` speaks of the pages whose numbers are remembered: /today, /tasks, /briefing and
both texts, of the second as far as its numbers are stored. After the others a number means a task of an
older list: `NumberMeansRead` (section 3, further configurations).

`focus` is the focused entity of `chat_contexts` with its expiry. `Resolved` follows
`ReferenceResolver.resolve` (the focus if the type agrees, then the one name found, then the focus
again); `Remembered` renews it, and the record of the turn (`Record`) writes it again.

### Activities

`tasks`, `meetings` and `links` are the tables; `log` the events of renames and merges with their
snapshots, `undone` those taken back. `Pairings` is `link_note_artifacts`, `RenameTask` the selected or
unselected rename with the reach to linked meetings, `Merge` and `UndoMerge` the merge of the
conversation service, `UndoButton` and `UndoText` the two ways to undo. `turn` and `last` are the record of
the last turn, written in two commits after the handler (`Recorded`), from which an undo by text and a
merge without names find what they are about. `Start`, `Repair` and `Started` are
`repair_legacy_renames` task by task at the start; `read` is the snapshot of the meetings it scores and
tests against (`all_meetings`). Each link of a pairing is a commit (`EndsLinking`), and the process may
end between two of them, after the link of a repair, or between two repairs. `fresh` is a history: the renames none
of whose rows was renamed since (a merge, a button or a new link does not count); the events keep what
the rename wrote (`after`) for the same purpose. `project_id` is written wherever `person_id` is and is left out; which titles are alike (`Alike`), which have all words of the shorter one in common (`Covers`) and whom
they mention are operators given as constants. The .5 a common project adds to the score of a repair is
left out with the project.

### SharedConnection

`open` and `pending` are SQLite's transaction, `durable` the committed writes, `depth` and `levels`
`Database._transaction_depth` and the `outermost` flags of the nested contexts. A statement is
executed when its coroutine awaits it (the connection's thread takes them in order), so `Begin` and
the increment of depth (`Enter`) are two steps with background statements between them. A refused
statement (`ExecuteFails`) leaves an implicit transaction open, as Python's `sqlite3` does; `BEGIN`
inside an open transaction is refused (`BeginFails`). The handler runs one block at a time; exceptions
from inner contexts are never swallowed in an outer block in this code, so `Raise` unwinds all.

## 3. Runs

| Run | Result | Question |
|---|---|---|
| `task_lifecycle` | passes | do occurrences stay unique, does undo delete only generated rows, does a batch undo spare later work, does every recorded completion leave exactly one successor? |
| `task_completion_note` | violated | does every completion of a recurring task schedule the next one? (finding 1) |
| `reminder_dispatch` | passes | how often is a schedule delivered, and is every due reminder dealt with? |
| `reminder_owner_write` | violated | does the loop respect what the owner wrote after the claim? (finding 2) |
| `note_capture` | passes | are the objects of a message derived at most once, does a failed note keep nothing, does every note that a rollback looks for have what it would remove, and no memories outlive it? |
| `clarification` | passes | does an answer take effect once, does a batch complete each task once, and never one that changed since the preview? |
| `connection` | passes | does the shared connection implement an atomic store? |
| `memory_lifecycle` | passes | do links hold, do contradicting claims wait for a review, is a rolled back batch gone, wherever a handler is cut off? |
| `memory_rollback` | violated | can the latest knowledge update always be rolled back? (finding 3) |
| `scheduled_jobs` | passes | is the ledger true, does a briefing come once a day, do nudges keep their distance, does the process get to serve? |
| `conversation` | passes | are several tasks written only if listed or confirmed, does a number mean what the owner reads on a page that is remembered, is the focus what was named last? |
| `activities` | passes | does a merge lose a meeting, does the undo of a rename none of whose rows was renamed since take back what it wrote and nothing else? |

Bounds, and why they suffice:

* `task_lifecycle`: three ids (two occurrences and a stranger, or two tasks sharing a third as
  successor), one asked date, daily and weekly, a clock of 0..2, `WeekLen = 2` so that weekly and
  daily coincide within the clock, two writes per row, one undoable event, ids symmetric.
  959,034 states. A completion, a change in between and a stale undo or answer fit.
* `reminder_dispatch`: a one-shot and a repeating reminder, lease 2, period 2, clock to 4, three
  owner writes, one crash. `Crash` requires `now + Lease <= End`, so that the lease can run out within
  the bound; otherwise the bound, not the code, would strand a reminder.
* `note_capture`: three messages (an ordinary one, a recurring reminder, a question), each may be
  delivered twice, one press per message, one restart. 8,153,337 states. Two presses or two
  restarts add repetitions of the same steps; the theorems hold for any number.
* `clarification`: two tasks, two questions of any kind, three writes per task, one crash, a time to
  live of 1 and a clock to 2. 565,608 states. A batch, its crash, the undo of what it did, an edited
  selection and a second confirmation fit; one question after another shows supersession and order.
* `connection`: two loops and the handler, three single writes, two blocks of two writes, contexts
  nested two deep, one crash.

* `memory_lifecycle`: three claims that contradict each other and one stored without its project, three
  rows, two knowledge updates, two presses. 3,258,597 states. Two choices in a row, a correction of a
  chosen claim, and a rollback of a batch that others refer to fit.
* `scheduled_jobs`: three migrations (one to repeat, one that adds its column last, one first), a
  briefing every day and a review on the second, one item, days of 4 hours, a clock to 5, quiet hours
  3..1 around midnight, a cooldown of 2, two crashes, two restarts and one error. A lost record, the second message
  it causes and a start cut off at each statement fit, and PM2 gives up after two kills, after two refusals and after one
  of each. 875,660 states.
* `conversation`: three tasks in two initial situations, five views of two tasks (a briefing of one),
  pages that name one task by its title only, batches of two, a TTL of 1, two days, three turns and one
  lost reply; a project and a person. A view, an intervening message and a reference fit; the third task is
  the one too many of each limit. 888,984 states.
* `activities`: four task ids (two tasks, two merges), two meetings, two persons, two titles, five
  turns and one crash, in a turn or in the repair at the start. 5,107,311 states. Two renames, a merge, and the undos of two of them in any order fit.

`CHECK_DEADLOCK FALSE` is stated everywhere because the bounds on writes, clock and crashes let every
model stop. Each property has a mutant, a plausible bug in one definition (named "Faulty variant" in
the module), that TLC must catch.

Fairness is used twice. `FairSpec` of `ReminderDispatch`: `WF(Dispatch)`, because a
`reminder_dispatch_loop` that has not ended polls on and a send returns or raises (an exception outside
the one `try` may still take any step, and ends the loop: `DueHandled` excepts only that), and `WF(Tick)`, because time
passes. `FairSpec` of `ScheduledJobs`: `WF(StartStep)`, because PM2 starts a process that is "down" and
`initialize` runs on; no step is assumed of a process that PM2 has given up ("errored"). Nothing is assumed of the owner, of crashes or of the outcome of a send.
`Recovers` excepts a process that is lost (`Lost`): it ended where the schema is torn (`Torn`: a statement
that cannot be repeated took effect and the row of its migration is not committed), or it was killed
`max_restarts` times and given up. A start under way that is torn for a moment is no exception: it has to
get through. The first kind is refused for ever; the run says that nothing else is.

Further configurations check single statements that the code does not keep. They are beside the runs
above, and TLC finds each violated in seconds (`tlc -config <cfg> <module>`):

| Configuration | Statement | What happens |
|---|---|---|
| `MCTaskOneOccurrence` (`MCTaskLifecycle`) | `OneActiveOccurrence`: README, "Recurring completion preserves one occurrence at a time" | the first of two completions is undone (`services/work_action_service.py:309`): two occurrences are active |
| `MCReminderAnswer` (`MCReminderDispatch`) | `AnsweredOnce` | the loop delivers a reminder after `update_remind_at`; `schedule_reminder` (`services/clarification_service.py:843`) then puts it back to scheduled, and a lease later it is delivered again |
| `MCReminderClaim` (`MCReminderDispatch`) | `ClaimedWhenDue` | `claim_due` (`adapters/storage/repositories.py:764`) tests `remind_at` of a row it read awaits before: a reminder just moved is sent early |
| `MCConnectionReturned` (`MCSharedConnection`) | `ReturnedIsKept` | `commit_if_needed` (`adapters/storage/sqlite.py:122`) leaves a loop's write in the handler's open block; if the block raises, it is undone after its call returned |
| `MCNoteRetry` (`MCNoteCapture`) | `FailureCanRetry`: "Failed transactional derived writes can be retried using the same source message id" | `capture_scoped_knowledge` (`services/capture_service.py:747`) has no `except`: after a rollback the note stays captured and the message is a duplicate for ever |
| `MCMemoryLosers` (`MCMemoryLifecycle`) | `LosersSuperseded`: `docs/architecture.md` on the review | `select_canonical` settles claims one revision link away: of three, one stays current |
| `MCConversationTyped` (`MCConversation`) | `TypedMeansType` | "this person" without a person in focus resolves to whatever name stands in what is told, a project for instance (`services/reference_resolver.py`) |
| `MCConversationNumbers` (`MCConversation`) | `NumberMeansRead`: README, "After `/briefing`, `/today`, `/tasks`, or a task-choice list, MemoCore stores the ordered task IDs" | pages that number tasks and store nothing (/waiting, /tomorrow, the navigation buttons) leave the list of an older page in force: "task 1" is another task than the one read there. A task-choice list is not stored either |
| `MCActivitiesUndo` (`MCActivities`) | `UndoRestoresPeople`: "undoable from one event snapshot" | the undo of a rename leaves the other participants of a meeting removed (`adapters/storage/repositories.py:1166`) |
| `MCActivitiesMerge` (`MCActivities`) | `MergesNamed`: "Wrong entity write: 0" | after a turn about two tasks these are merged, whatever two the text names (`services/conversation_planner.py:209`) |

## 4. Proofs

`TaskLifecycleProofs`, for any set of ids, dates, rules and bounds:

* `TypeCorrect`; `OccurrencesUnique` (at most one row per occurrence of a series) by the inductive
  invariant `OccurrenceInv`: type correctness, uniqueness, and that every series is named after an id
  handed out before. The last is needed for the steps that add a row: a capture or a merge starts a
  series named after a fresh id, which no row can belong to yet. One lemma treats the handlers that
  keep series and occurrence, one the change of recurrence, one the backlog answer, one the
  completions, whose created rows are successors that were missing.
* `RecordedNextCorrect`: the `next_task_id` of an event never names a captured task or one of
  another series; `CapturedNeverDeleted` follows from it; `BatchUndoGuarded` is an action property.
* `CompletionScheduled`: a button or a batch that completes recurring tasks leaves each one's next
  occurrence in the table exactly once, also where several completed tasks share it. Each handler
  either finds the occurrence (`Missing`) or creates it, and `OccurrencesUnique` gives "exactly".
* `CompletionsSchedule` says it of every step (`CompletionSchedulesNext`, stated in the proof module
  only) and so names the exceptions: a completion by note (finding 1) and one more, the undo of a
  change made when the task was done already. Two changes of a task, undone in the order they were
  made, end with the older "done" row and no next occurrence: `_undo` (`services/work_action_service.py:309`)
  writes the snapshot back whatever was undone before. The instance of the run has one undoable event
  and cannot show this; with two events TLC finds it.
* `VersionMoves`: every write of a row, by any handler, moves `updated_at` by exactly one. The guards of
  batches, undo and the backlog compare it for equality, and this is what makes the comparison mean
  "not written since".
* `BacklogInvariant` (`BacklogSound`): as long as a row still has the version a pending backlog question recorded,
  it repeats and the day the question offers is later in its rhythm and past today. It is inductive
  because of `VersionMoves`: any write takes the row out of its hypothesis.
  `SkipMovesForward` is the action property it gives: "skip" writes only missed, active occurrences
  and only to such a day. `FutureIsFirst` is the arithmetic beneath: the closed form of the model is
  where the loop of `future_recurrence_occurrence` (`domain/recurrence.py:17`) ends.

`SharedConnectionProofs`, for any number of loops, operations, writes per block and nesting:

* `ConnectionInvariant` (`Inv`: types, the shape of `levels`, what each coroutine is doing, whose
  writes are uncommitted, where finished writes are), and from it `TypeCorrect`, `DurableWhenDone`,
  `CleanWhenIdle`.
* `ImplementsStore`: `Spec => AtomicStore!Spec` with `store <- durable`. The step that commits at depth
  0 commits no partial block, because the invariant ties every uncommitted write of a block to the
  handler being in its body, where depth is positive.

`NoteCaptureProofs`, for any number of messages, presses and restarts:

* `CaptureInvariant`: a message nobody pressed a button of has at most one batch of objects, and none
  while it is `Pending`, that is while its note is absent or failed or the handler is on its way to
  derive. The second part is what makes the first inductive: the step that derives starts from none.
  It needs that a recurring reminder's note never fails (its reminder exists before the note is
  processed) and that a reopened note was pressed.
* `CapturedOnce`, `FailedIsSafe`, `TypeCorrect` follow; `RollbackComplete` adds (`UpdateInv`) that a note whose
  memories are there is processed and is not at work again, unless its buttons were shown.

`ClarificationProofs`, for any number of tasks, questions, writes and crashes:

* `ClarificationInvariant`: while a question is pending, its answer was applied at most as often as
  the process ended (`Counted`), and each task its batch completed has an `updated_at` past the preview
  (`Moved`), so that the batch cannot match it again. It needs that a batch offers only tasks that were
  active in the preview, otherwise a completion would leave the row as it was, and that no handler
  changes the preview of a pending question (`Follows`).
* `EffectOnce`, `BatchCompletesOnce`, `TypeCorrect` follow from it; `BatchSparesChanged` is the action
  property.

`ReminderDispatchProofs`, for any number of reminders, owner's writes and crashes and any lease:

* `DispatchInvariant` (`DispatchInv`): types, the shape of a pass (`PassInv`: no reminder twice), and
  for each row `Claims`: its claim is not older than the pass that delivered it last, and a row that
  may still be sent (unclaimed, or in the batch under this pass's claim) has rested a lease since its
  deliveries and was delivered at most as often as the process ended. `Rested` is what makes the
  property inductive: an expired claim is the only way to a second send, and it needs a crash.
* `TypeCorrect`, `DeliveredOnce`, `LeaseHolds` follow.

`MemoryLifecycleProofs`, for any claims and any number of rows, updates and presses:

* `MemoryInvariant` (`MemoryInv`): the four properties hold of the table and of `saved.rows`, because a
  rollback goes back to the latter, and `WorkInv` says what a handler relies on between two
  statements. A captured row links to existing ones and is canonical of none; a choice writes the
  losers' canonical link only, to a target that has none (acyclic); a deletion removes a row no
  canonical link names and clears the revision links to it.
* `TypeCorrect`, `NoDanglingLink`, `NoCircle`, `Consistent`, `Gone`.

`ScheduledJobsProofs`, for any migrations, loops, items, hours and bounds:

* `JobsInvariant` (`JobsInv`): `StartInv` (a start has recorded every migration before the one it is
  at, and what it ran has taken effect) and `JobInv`, of which the count is the core: the messages of a
  loop on a day are the ones cut off, plus one if there is an event of that day or one has arrived that
  is about to be recorded. For nudges it says that all events of an item under way are
  more than the cooldown before its round. A lemma shows `InQuietHours`, two
  comparisons joined by "or" around midnight, equal to the hours met when walking from start to end.
* `TypeCorrect`, `LedgerIsTrue`, `BriefingOnce`, `RecordsAreTrue`, `NudgesKeepDistance`.

* `QuietIs` states that lemma for any clock, start and end. `RefusalsAreTorn`: a start fails by itself
  only if an earlier one was killed and left the schema torn. `TornNeverServes`: once a process ended
  with the schema torn, none ever serves again. `GivesUpForCause`: PM2 gives up only a process that is
  lost, because an end it counted was a kill or a refusal, and the starts after a refusal are all
  refused. Together they say that the exception `Recovers` makes is exact. Their invariants: before the first kill a start finds nothing of the migrations
  it has not come to (`RefusalInv`), and a statement that cannot be repeated stays ahead of every
  start (`Stuck`).

`ConversationProofs`, for any tasks, entities, rows, limits and bounds. Its two parts share no variable.

* `ConversationInvariant` (`ConversationInv`): types; the focus is what was named last; and, as long as
  nothing on it was closed and no later list was stored unread, the promised numbers of what the owner
  read are active and start the stored list (`ShownStarts`). `Promised` is what a page says about later
  numbers: all of /today, /tasks and /briefing, the first `Page` of a text that asks for the tasks (and the list
  holds no more), nothing of the other pages. This is what makes `NumberMeansShown` inductive, which by itself
  says nothing about what a later closing or view leaves. It needs that the section whose numbers the owner
  reads comes first in what is stored, and that a task is listed once: the lemmas on `Enumerated` and
  `Ordered` show that they list each task of a finite set exactly once.
* `ConversationTyped`, `FocusFollowsNames`, `NumbersMeanShown` follow. `NothingUnasked` is the action
  property: a write of several tasks is "all", the answer to a pending question about these tasks, or
  few enough of a list in force.
* `ActivitiesInvariant`: links join existing rows; a part of a merge exists or was the task of an event,
  so that its id is never given to a new task; no two merges made the same task, so that the undo of
  one, which removes the links of its task, cannot remove another's. `MeetingsKept` is part of it.
* `NamesInvariant` (`NamesInv`) adds the types of rows and events and `FreshInv`: the rows of a rename
  that no later write of a name touched are as it wrote them. Merges, buttons and links keep names;
  a rename, undo or repair takes the events whose rows it writes out of `fresh`, which is why the
  inductive step is about sets of rows that do not meet. `ActivitiesTyped` and `UndoTakesBack` follow.
  The latter is about fresh renames only: `undo_event` looks at nothing but its event, and the undo of an
  older rename does write over later names.

Assumptions are the named `ASSUME`s of the modules only. `VersionMoves`, `FutureIsFirst`,
`BacklogInvariant`, `SkipMovesForward`, `CompletionsSchedule`, `QuietIs`, `RefusalsAreTorn`,
`GivesUpForCause` and `TornNeverServes` state properties that are defined in the proof modules and that no run checks
permanently.

Model-checked and not proved: the liveness properties `DueHandled` and `Recovers` (liveness and ENABLED
are beyond the prover). All other properties of the passing runs are theorems.

## 5. Findings

1. `CaptureService._complete_matching_tasks` (`services/capture_service.py:1048`) completes by
   `update_status`: a note that completes a recurring task ends its series. The repository's README
   says that completing creates exactly one next occurrence.
2. `mark_sent` and `mark_failed` (`services/reminder_service.py:61`) write over what the owner decided
   after the claim; a cancelled repeating reminder is scheduled again.
3. `rollback_recent_knowledge_update` (`services/capture_service.py:825`) deletes the memories of the
   last update in one transaction. Once the owner chose one of them as canonical over an older claim, the
   foreign key of `canonical_memory_id` refuses the deletion and every rollback of that update fails.
   `docs/architecture.md` says that the rollback removes exactly that batch.

The further configurations of section 3 are disagreements of the same kind with a narrower scope.

## 6. Hazards

`PROJECT.json` lists the places where this code is hard to test, with the properties that cover them.
Those without a property of a run, and what the properties of the others leave out:

* the ones a further configuration of section 3 shows to happen (`repositories.py:764`,
  `work_action_service.py:309`, `memory_view_service.py:280`, `conversation_planner.py:209`);
* an exception of `claim_due` or `mark_failed` leaves `send_due_reminders` and ends the loop until the
  process is restarted (`app.py:241`). `ReminderDispatch` has these steps; `DueHandled` says that every
  due reminder is dealt with or the loop has ended, and no property forbids that it ends;
* a scoped knowledge update whose transaction fails can never be tried again
  (`capture_service.py:747`): `FailedKeepsNothing` says what such a failure leaves behind, and only
  `MCNoteRetry` that the message stays a duplicate;
* a nudge that arrived although its send raised is sent again at the next round (`app.py:400`):
  `NudgesSpaced` counts recorded nudges;
* an older undo of a rename writes over later names (`activity_reconciliation_service.py:143`), which
  `UndoRestores` excepts;
* a number after a page that is not remembered means a task of an older list
  (`task_reference_resolver.py:211`; `MCConversationNumbers`);
* an old clarification button answers the oldest question, whichever it was shown for
  (`clarification_service.py:183`). `Clarification` behaves so, but which question the owner meant is
  not part of its state;
* two undos of one task in the order of the changes (`work_action_service.py:309`): what
  `CompletionsSchedule` excepts.

## 7. Not modelled

* Views and queries, and what a briefing says: they read and format. The selection and order of the
  tasks a view numbers is in `TaskReferences`, because later texts refer to it.
* Which sentence is which intent: rules and a language model over natural language. The modules let any
  intent follow any other.
* Projects, people, organizations and decisions: find-or-create writes inside a capture or a turn.
  `update_taxonomy`, which walks the parents of a project over several awaits before it writes, has no
  caller in the program; alias confirmation is one write.
* Menus, formatting and the dispatch of the Telegram adapter. That updates are handled one after another
  is assumed by every module (`Application` without `concurrent_updates`).
* Model providers and their fallback: calls without state. `NoteCapture` lets the model answer or raise.
* Full-text search, prompts, configuration and the command line.

What could come next: abstract specifications of further components, with the refinement proved step by
step as for `AtomicStore`: a schedule that is delivered at least once for `ReminderDispatch`, and a
register of applied answers for `Clarification`.
