----------------------------- MODULE NoteCapture -----------------------------
(***************************************************************************)
(* The note of a message of the owner, from the delivery of the update to   *)
(* the objects derived from it.  Updates are handled one after another; the *)
(* note is committed before its text is interpreted, so that an exception   *)
(* or the end of the process may leave it at any point, and Telegram may    *)
(* deliver an update again after a restart.                                 *)
(***************************************************************************)
EXTENDS Integers, Sequences

CONSTANTS
  Message,    \* source messages of the owner's chat
  Queries,    \* messages whose text asks for, or deletes, what is stored
  Recurring,  \* messages whose text is a recurring reminder
  NoMessage,  \* no update is being handled
  MaxPresses, \* bound on the presses of the buttons under one message
  MaxCrashes  \* bound on the restarts

ASSUME MessageAssumption ==
  /\ NoMessage \notin Message
  /\ Queries \subseteq Message /\ Recurring \subseteq Message \ Queries
ASSUME BoundAssumption == MaxPresses \in Nat /\ MaxCrashes \in Nat

VARIABLES
  note,      \* the row of notes of each message
  order,     \* messages in the order their notes were created
  derived,   \* batches of objects derived from each note by capture
  stated,    \* batches of memories stored by capture_scoped_knowledge
  kept,      \* notes with a memory of such a batch
  tags,      \* the tags of each note that a rollback looks at
  failures,  \* history: notes whose last transaction was rolled back
  forgotten, \* history: notes whose stated memories the owner asked to delete
  prompts,   \* notes the owner was shown the tag buttons of
  presses,   \* how often a tag button of each note was pressed
  inbox,     \* updates Telegram has not delivered
  seen,      \* updates this process was given
  at, msg, route,  \* where the handler is, with which message, on which route
  crashes    \* how often the process was restarted

handler  == <<at, msg, route>>
memories == <<stated, kept, forgotten>>
objects  == <<derived, memories, tags>>
chat     == <<prompts, presses>>
world    == <<inbox, seen, crashes>>
vars     == <<note, order, objects, failures, chat, handler, world>>

Status == {"absent", "captured", "processed", "failed"}
Route  == {"capture", "scoped", "interaction"}
Place  == {"idle", "created", "reopened", "open", "recorded", "reminded",
           "derive", "failing"}
Tag    == {"knowledge_update", "empty", "rolled_back"}

TypeOK ==
  /\ note \in [Message -> Status]
  /\ order \in Seq(Message)
  /\ \A m \in Message : note[m] # "absent" <=> \E i \in DOMAIN order : order[i] = m
  /\ derived \in [Message -> Nat] /\ stated \in [Message -> Nat]
  /\ kept \subseteq Message /\ forgotten \subseteq Message /\ tags \in [Message -> SUBSET Tag]
  /\ failures \subseteq Message /\ prompts \subseteq Message
  /\ presses \in [Message -> Nat]
  /\ inbox \subseteq Message /\ seen \subseteq Message
  /\ at \in Place /\ route \in Route
  /\ msg \in Message \cup {NoMessage} /\ (msg = NoMessage <=> at = "idle")
  /\ crashes \in Nat

Init ==
  /\ note = [m \in Message |-> "absent"] /\ order = <<>>
  /\ derived = [m \in Message |-> 0] /\ stated = [m \in Message |-> 0]
  /\ kept = {} /\ forgotten = {} /\ tags = [m \in Message |-> {}] /\ failures = {}
  /\ prompts = {} /\ presses = [m \in Message |-> 0]
  /\ inbox = Message /\ seen = {}
  /\ at = "idle" /\ msg = NoMessage /\ route = "capture" /\ crashes = 0

-----------------------------------------------------------------------------
(* NoteRepository and the position of the handler.                         *)

GoTo(place)  == at' = place /\ UNCHANGED <<msg, route>>
\* Faulty variant of Stop.
StopHolding  == at' = "idle" /\ UNCHANGED <<msg, route>>
Stop         == at' = "idle" /\ msg' = NoMessage /\ route' = "capture"

Capturing(place) == at = place /\ route = "capture"
Scoped == at = "open" /\ route = "scoped"

UpdateStatus(m, status) == note' = [note EXCEPT ![m] = status]

\* update_processed replaces the tags.
UpdateProcessed(m, given) ==
  /\ UpdateStatus(m, "processed")
  /\ tags' = [tags EXCEPT ![m] = given]

\* Faulty variant of Unfinished: only a processed note is a duplicate.
UnfinishedOrCaptured(m) == note[m] # "processed"

\* A message is captured when it has no note, or one that failed.
Unfinished(m) == note[m] \in {"absent", "failed"}

-----------------------------------------------------------------------------
(* An update is delivered and routed.                                      *)

Receive(m) ==
  /\ at = "idle" /\ m \in inbox
  /\ inbox' = inbox \ {m} /\ seen' = seen \cup {m}

\* The look-up by source message, and the note of a message seen first.
Begin(m, r) ==
  /\ Receive(m)
  /\ IF r = "interaction" THEN note[m] = "absent" ELSE Unfinished(m)
  /\ IF note[m] = "absent"
       THEN UpdateStatus(m, "captured") /\ order' = Append(order, m) /\ at' = "created"
       ELSE at' = "open" /\ UNCHANGED <<note, order>>
  /\ msg' = m /\ route' = r
  /\ failures' = failures \ {m}
  /\ UNCHANGED <<objects, chat, crashes>>

\* Nothing is written when a message was captured before.
Duplicate(m) ==
  /\ Receive(m) /\ ~Unfinished(m)
  /\ UNCHANGED <<note, order, objects, failures, chat, handler, crashes>>

\* _record_interaction finds the note of a message delivered again, and what
\* the message asks for is done again.
Repeat(m) ==
  /\ Receive(m) /\ note[m] # "absent"
  /\ at' = "recorded" /\ msg' = m /\ route' = "interaction"
  /\ UNCHANGED <<note, order, objects, failures, chat, crashes>>

\* NOTE_CAPTURED is a commit of its own.
AppendCaptured ==
  /\ at = "created"
  /\ GoTo("open")
  /\ UNCHANGED <<note, order, objects, failures, chat, world>>

\* _record_interaction processes the note before its effect.
Record ==
  /\ at = "open" /\ route = "interaction"
  /\ UpdateProcessed(msg, {})
  /\ GoTo("recorded")
  /\ UNCHANGED <<order, derived, memories, failures, chat, world>>

\* The reply; a statement of unclear use is answered with the tag buttons.
Reply(shown) ==
  /\ at = "recorded"
  /\ prompts' = IF shown THEN prompts \cup {msg} ELSE prompts
  /\ Stop
  /\ UNCHANGED <<note, order, objects, failures, presses, world>>

-----------------------------------------------------------------------------
(* capture.                                                                *)

\* delete_matching: the last memory of an earlier statement is deleted.
Forget(m) ==
  /\ at = "recorded" \/ (Capturing("open") /\ msg \in Queries)
  /\ m \in kept
  /\ kept' = kept \ {m} /\ forgotten' = forgotten \cup {m}
  /\ UNCHANGED <<note, order, derived, stated, tags, failures, chat, handler, world>>

Answer ==
  /\ Capturing("open") /\ msg \in Queries
  /\ UpdateProcessed(msg, {})
  /\ Stop
  /\ UNCHANGED <<order, derived, memories, failures, chat, world>>

\* A recurring reminder is created, scheduled and recorded by several commits.
CreateRecurring ==
  /\ Capturing("open") /\ msg \in Recurring
  /\ derived' = [derived EXCEPT ![msg] = @ + 1]
  /\ GoTo("reminded")
  /\ UNCHANGED <<note, order, memories, tags, failures, chat, world>>

FinishRecurring ==
  /\ at = "reminded"
  /\ UpdateProcessed(msg, {})
  /\ Stop
  /\ UNCHANGED <<order, derived, memories, failures, chat, world>>

\* The model answers, or a text with a tag needs no answer.
Extract ==
  /\ Capturing("open") /\ msg \notin Queries \cup Recurring
  /\ GoTo("derive")
  /\ UNCHANGED <<note, order, objects, failures, chat, world>>

ExtractFails ==
  /\ Capturing("open") /\ msg \notin Queries \cup Recurring
  /\ UpdateStatus(msg, "failed")
  /\ Stop
  /\ UNCHANGED <<order, objects, failures, chat, world>>

\* Faulty variant of Derive: the note is processed by a commit of its own.
DeriveAlone ==
  /\ at = "derive"
  /\ derived' = [derived EXCEPT ![msg] = @ + 1]
  /\ GoTo("failing")
  /\ UNCHANGED <<note, order, memories, tags, failures, chat, world>>

\* The derived objects and the processed note are one transaction.
Derive ==
  /\ at = "derive"
  /\ derived' = [derived EXCEPT ![msg] = @ + 1]
  /\ UpdateProcessed(msg, {})
  /\ Stop
  /\ UNCHANGED <<order, memories, failures, chat, world>>

DeriveRaises ==
  /\ at = "derive"
  /\ failures' = failures \cup {msg}
  /\ GoTo("failing")
  /\ UNCHANGED <<note, order, objects, chat, world>>

MarkFailed ==
  /\ at = "failing"
  /\ UpdateStatus(msg, "failed")
  /\ Stop
  /\ UNCHANGED <<order, objects, failures, chat, world>>

-----------------------------------------------------------------------------
(* capture_scoped_knowledge and its rollback.                              *)

\* Statements that are all blank: the note is tagged as an update without
\* memories.  (conversation_service.py:849-862, the one caller, passes none.)
StateNothing ==
  /\ Scoped
  /\ UpdateProcessed(msg, {"knowledge_update", "empty"})
  /\ Stop
  /\ UNCHANGED <<order, derived, memories, failures, chat, world>>

State ==
  /\ Scoped
  /\ stated' = [stated EXCEPT ![msg] = @ + 1] /\ kept' = kept \cup {msg}
  /\ UpdateProcessed(msg, {"knowledge_update"})
  /\ Stop
  /\ UNCHANGED <<order, derived, forgotten, failures, chat, world>>

\* There is no except clause: the note keeps its status.
StateRaises ==
  /\ Scoped
  /\ failures' = failures \cup {msg}
  /\ Stop
  /\ UNCHANGED <<note, order, objects, chat, world>>

\* The tags of an update that was not rolled back.
Offered(m) == "knowledge_update" \in tags[m] /\ "rolled_back" \notin tags[m]

\* The last such note, whatever its status and whether or not it has memories.
LastUpdate(i) ==
  /\ i \in DOMAIN order /\ Offered(order[i])
  /\ \A j \in i + 1 .. Len(order) : ~Offered(order[j])

\* Faulty variant of RollBack: the note keeps its tags.
RollBackKeepsTag(i) ==
  /\ at = "idle" /\ LastUpdate(i) /\ order[i] \in kept
  /\ kept' = kept \ {order[i]}
  /\ UpdateProcessed(order[i], tags[order[i]])
  /\ UNCHANGED <<order, derived, stated, forgotten, failures, chat, handler, world>>

\* "Undo the update": refused when the last update has no memories, because it
\* was empty or the owner deleted them already.
RollBack(i) ==
  /\ at = "idle" /\ LastUpdate(i) /\ order[i] \in kept
  /\ kept' = kept \ {order[i]}
  /\ UpdateProcessed(order[i], tags[order[i]] \cup {"rolled_back"})
  /\ UNCHANGED <<order, derived, stated, forgotten, failures, chat, handler, world>>

-----------------------------------------------------------------------------
(* The tag buttons.                                                        *)

PressIgnore(m) ==
  /\ at = "idle" /\ m \in prompts
  /\ UpdateProcessed(m, {})
  /\ UNCHANGED <<order, derived, memories, failures, chat, handler, world>>

\* The note is marked failed, a commit of its own, to be captured again.
PressTag(m) ==
  /\ at = "idle" /\ m \in prompts /\ presses[m] < MaxPresses
  /\ presses' = [presses EXCEPT ![m] = @ + 1]
  /\ UpdateStatus(m, "failed")
  /\ at' = "reopened" /\ msg' = m /\ route' = "capture"
  /\ UNCHANGED <<order, objects, failures, prompts, world>>

CaptureAgain ==
  /\ at = "reopened"
  /\ GoTo("open")
  /\ failures' = failures \ {msg}
  /\ UNCHANGED <<note, order, objects, chat, world>>

-----------------------------------------------------------------------------

\* A statement outside the try raises; the error handler answers the owner.
Raise ==
  /\ at # "idle"
  /\ Stop
  /\ UNCHANGED <<note, order, objects, failures, chat, world>>

\* After a restart Telegram delivers the updates that were not confirmed; the
\* ones that were confirmed and not handled are lost.
Crash(again) ==
  /\ crashes < MaxCrashes /\ crashes' = crashes + 1
  /\ again \subseteq inbox \cup seen
  /\ inbox' = again /\ seen' = {}
  /\ Stop
  /\ UNCHANGED <<note, order, objects, failures, chat>>

Handle ==
  \/ AppendCaptured \/ Record \/ (\E shown \in BOOLEAN : Reply(shown))
  \/ (\E m \in kept : Forget(m)) \/ Answer \/ CreateRecurring \/ FinishRecurring
  \/ Extract \/ ExtractFails \/ Derive \/ DeriveRaises \/ MarkFailed
  \/ StateNothing \/ State \/ StateRaises \/ CaptureAgain \/ Raise

Next ==
  \/ \E m \in Message, r \in Route : Begin(m, r)
  \/ \E m \in Message : Duplicate(m) \/ Repeat(m)
  \/ Handle
  \/ \E i \in DOMAIN order : RollBack(i)
  \/ \E m \in Message : PressIgnore(m) \/ PressTag(m)
  \/ \E again \in SUBSET Message : Crash(again)

Spec == Init /\ [][Next]_vars

-----------------------------------------------------------------------------
(* Properties.                                                             *)

\* However often an update is delivered, and wherever the handler was cut
\* short, its objects are derived at most once, unless the owner pressed a tag
\* button to have the note processed again.
OncePerSource == \A m \in Message : presses[m] = 0 => derived[m] + stated[m] <= 1

\* A note that failed has left nothing behind: to try it again is safe.
FailedKeepsNothing ==
  \A m \in Message : note[m] = "failed" /\ presses[m] = 0 => derived[m] + stated[m] = 0

\* A note that is found by the search for a rollback still has the memories of
\* its update, unless the owner had them deleted or there were none; and memories
\* of an update never outlive the offer to roll them back, except by the tag
\* buttons of their note, which replace its tags.
RollbackHasObject ==
  /\ \A m \in Message : Offered(m) /\ "empty" \notin tags[m] => m \in kept \cup forgotten
  /\ \A m \in kept \ prompts : Offered(m)

\* "Failed transactional derived writes can be retried using the same source
\* message id", when the process did not end meanwhile.
FailureCanRetry ==
  at = "idle" /\ crashes = 0 => \A m \in failures : Unfinished(m)

=============================================================================
