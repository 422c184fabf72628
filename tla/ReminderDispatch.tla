-------------------------- MODULE ReminderDispatch --------------------------
(***************************************************************************)
(* The delivery of reminders.  One background loop (reminder_dispatch_loop) *)
(* claims the due rows with a lease, sends them one after another and marks *)
(* them; the handlers of the owner's messages run between any two awaits of *)
(* the loop and write the same rows; the process may end at any await and   *)
(* is started again by its supervisor with what the database holds.         *)
(***************************************************************************)
EXTENDS Integers, Sequences

CONSTANTS
  Reminder,    \* identifiers of reminders
  Repeating,   \* the reminders with a recurrence rule
  NoTime,      \* the NULL of a time column
  NoReminder,  \* no row is being claimed, no button is being handled
  Times,       \* the times the owner may ask for
  Period,      \* time between two occurrences of a repeating reminder
  Lease,       \* lease_seconds
  End,         \* bound on the clock
  MaxWrites,   \* bound on the writes of the owner
  MaxCrashes   \* bound on the restarts

ASSUME ReminderAssumption == Repeating \subseteq Reminder /\ NoReminder \notin Reminder
ASSUME TimeAssumption     == NoTime \notin Int /\ Times \subseteq Int
ASSUME PeriodAssumption   == Period \in Nat \ {0} /\ Lease \in Nat \ {0}
ASSUME BoundAssumption    == End \in Nat /\ MaxWrites \in Nat /\ MaxCrashes \in Nat

VARIABLES
  rows,     \* the table reminders: status, remind_at and claimed_at
  asked,    \* reminders with a pending question about their time
  before,   \* snapshot a button handler took before it writes
  answer,   \* the reminder whose time is being answered, and the commit to come
  log,      \* the snapshots an undo button can restore, [at |-> position]
  undone,   \* positions of log that were undone
  now,      \* the clock
  phase,    \* where the loop is
  stamp,    \* the "now" of the pass of the loop
  scan,     \* what the first SELECT of claim_due returned and is not handled yet
  current,  \* the row claim_due has read and is about to claim
  batch,    \* claimed rows that are not finished, in order
  due,      \* the next occurrence mark_sent computed from the row it read
  told,     \* history: the deliveries of the present schedule of each reminder
  writes, crashes  \* how much of the bounds is used

loop == <<phase, stamp, scan, current, batch, due>>
hand == <<asked, before, answer, log, undone, writes>>
vars == <<rows, now, told, crashes, loop, hand>>

OptTime  == Int \cup {NoTime}
Status   == {"absent", "candidate", "scheduled", "sent", "failed", "cancelled"}
Row      == [status : Status, at : OptTime, claimed : OptTime]
Snapshot == [id : Reminder, status : Status, at : OptTime]
Delivery == [time : Int, stamp : Int]
Phase    == {"idle", "claim", "update", "send", "mark", "write", "fail", "ended"}

TypeOK ==
  /\ rows \in [Reminder -> Row]
  /\ asked \subseteq Reminder
  /\ before \in Snapshot \cup {NoReminder}
  /\ answer \in [id : Reminder, next : {"schedule", "resolve"}] \cup {NoReminder}
  /\ log \in Seq(Snapshot) /\ undone \subseteq DOMAIN log
  /\ now \in Int /\ stamp \in Int /\ stamp <= now
  /\ phase \in Phase
  /\ scan \subseteq [id : Reminder, at : Int]
  /\ current \in Reminder \cup {NoReminder}
  /\ phase = "update" <=> current # NoReminder
  /\ batch \in Seq(Reminder)
  /\ phase \in {"mark", "write", "fail"} => batch # <<>>
  /\ due \in OptTime
  /\ told \in [Reminder -> Seq(Delivery)]
  /\ writes \in Nat /\ crashes \in Nat

Init ==
  /\ rows = [r \in Reminder |-> [status |-> "absent", at |-> NoTime, claimed |-> NoTime]]
  /\ asked = {} /\ before = NoReminder /\ answer = NoReminder /\ log = <<>> /\ undone = {}
  /\ now = 0 /\ phase = "idle" /\ stamp = 0 /\ scan = {} /\ current = NoReminder
  /\ batch = <<>> /\ due = NoTime
  /\ told = [r \in Reminder |-> <<>>]
  /\ writes = 0 /\ crashes = 0

-----------------------------------------------------------------------------
(* The writes of ReminderRepository.                                       *)

SetStatus(r, status) == rows' = [rows EXCEPT ![r].status = status]

\* update_schedule gives the row a new schedule and ends its claim.
SetSchedule(r, at, status) ==
  /\ rows' = [rows EXCEPT ![r] = [status |-> status, at |-> at, claimed |-> NoTime]]
  /\ told' = [told EXCEPT ![r] = <<>>]

-----------------------------------------------------------------------------
(* The loop: claim_due, send_message, mark_sent and mark_failed.           *)

\* Faulty variant of Claimable: the lease is not looked at.
ClaimableAnyTime(r) == rows[r].status = "scheduled"

\* Faulty variant of Claimable: a claim never expires.
ClaimableUnclaimed(r) == rows[r].status = "scheduled" /\ rows[r].claimed = NoTime

Claimable(r) ==
  /\ rows[r].status = "scheduled"
  /\ rows[r].claimed = NoTime \/ rows[r].claimed <= stamp' - Lease

\* The first SELECT of a pass; a pass that finds no row changes nothing.
Scan ==
  /\ phase = "idle"
  /\ stamp' = now
  /\ scan' = {[id |-> r, at |-> rows[r].at] :
                r \in {x \in Reminder : Claimable(x) /\ rows[x].at # NoTime}}
  /\ scan' # {}
  /\ phase' = "claim"
  /\ UNCHANGED <<rows, now, told, crashes, current, batch, due, hand>>

\* The SELECT of one row, in the order of remind_at: it may have moved since.
ReadRow(item) ==
  /\ phase = "claim" /\ item \in scan
  /\ \A other \in scan : item.at <= other.at
  /\ scan' = scan \ {item}
  /\ IF rows[item.id].at = NoTime \/ rows[item.id].at > stamp
       THEN UNCHANGED <<phase, current>>
       ELSE phase' = "update" /\ current' = item.id
  /\ UNCHANGED <<rows, now, told, crashes, stamp, batch, due, hand>>

\* The conditional UPDATE; only a row it changed joins the batch.
ClaimRow ==
  /\ phase = "update"
  /\ UNCHANGED stamp
  /\ IF Claimable(current)
       THEN /\ rows' = [rows EXCEPT ![current].claimed = stamp]
            /\ batch' = Append(batch, current)
       ELSE UNCHANGED <<rows, batch>>
  /\ phase' = "claim" /\ current' = NoReminder
  /\ UNCHANGED <<now, told, crashes, scan, due, hand>>

CommitClaims ==
  /\ phase = "claim" /\ scan = {}
  /\ phase' = IF batch = <<>> THEN "idle" ELSE "send"
  /\ UNCHANGED <<rows, now, told, crashes, stamp, scan, current, batch, due, hand>>

\* send_message: the message may arrive although the call raises (a timeout).
\* The history credits it to the schedule this pass claimed, if it still holds.
Send(arrives, raises) ==
  /\ phase = "send"
  /\ arrives \/ raises
  /\ phase' = IF raises THEN "fail" ELSE "mark"
  /\ told' = IF arrives /\ rows[Head(batch)].claimed = stamp
       THEN [told EXCEPT ![Head(batch)] = Append(@, [time |-> now, stamp |-> stamp])]
       ELSE told
  /\ UNCHANGED <<rows, now, crashes, stamp, scan, current, batch, due, hand>>

NextInBatch ==
  /\ batch' = Tail(batch)
  /\ phase' = IF Tail(batch) = <<>> THEN "idle" ELSE "send"

\* mark_sent reads the row, then appends REMINDER_SENT.
MarkRead ==
  /\ phase = "mark"
  /\ LET r == Head(batch)
     IN  due' = IF r \in Repeating /\ rows[r].at # NoTime THEN rows[r].at + Period ELSE NoTime
  /\ phase' = "write"
  /\ UNCHANGED <<rows, now, told, crashes, stamp, scan, current, batch, hand>>

\* ... and writes it whatever happened to it meanwhile.
MarkWrite ==
  /\ phase = "write"
  /\ IF due = NoTime
       THEN SetStatus(Head(batch), "sent") /\ UNCHANGED told
       ELSE SetSchedule(Head(batch), due, "scheduled")
  /\ due' = NoTime
  /\ NextInBatch
  /\ UNCHANGED <<now, crashes, stamp, scan, current, hand>>

\* An error in mark_sent ends in the same except clause as one of the send;
\* the event after update_schedule may be what raised.
MarkRaises(written) ==
  /\ phase \in {"mark", "write"}
  /\ written => due # NoTime
  /\ IF written THEN SetSchedule(Head(batch), due, "scheduled")
                ELSE UNCHANGED <<rows, told>>
  /\ phase' = "fail" /\ due' = NoTime
  /\ UNCHANGED <<now, crashes, stamp, scan, current, batch, hand>>

\* Faulty variant of MarkFailed: the delivery that raised is tried again.
MarkFailedRetry ==
  /\ phase = "fail"
  /\ SetStatus(Head(batch), "scheduled")
  /\ NextInBatch
  /\ UNCHANGED <<now, told, crashes, stamp, scan, current, due, hand>>

\* mark_failed: a delivery that raised is never tried again.
MarkFailed ==
  /\ phase = "fail"
  /\ SetStatus(Head(batch), "failed")
  /\ NextInBatch
  /\ UNCHANGED <<now, told, crashes, stamp, scan, current, due, hand>>

\* reminder_dispatch_loop has no try: what raises outside the one around the
\* send ends the loop for good.
EndLoop ==
  /\ phase' = "ended"
  /\ scan' = {} /\ current' = NoReminder /\ batch' = <<>> /\ due' = NoTime

\* Claims that are not committed yet; whatever undoes them, they may be lost.
Uncommitted ==
  {r \in Reminder : /\ phase \in {"claim", "update"} /\ rows[r].claimed = stamp
                    /\ \E i \in DOMAIN batch : batch[i] = r}

LoseClaims(lost) ==
  /\ lost \subseteq Uncommitted
  /\ rows' = [r \in Reminder |-> IF r \in lost THEN [rows[r] EXCEPT !.claimed = NoTime]
                                 ELSE rows[r]]

ClaimRaises(lost) ==
  /\ phase \in {"idle", "claim", "update"}
  /\ LoseClaims(lost)
  /\ EndLoop
  /\ UNCHANGED <<now, told, crashes, stamp, hand>>

\* mark_failed is called in the except clause: its status, or the event after it.
MarkFailedRaises(written) ==
  /\ phase = "fail"
  /\ IF written THEN SetStatus(Head(batch), "failed") ELSE UNCHANGED rows
  /\ EndLoop
  /\ UNCHANGED <<now, told, crashes, stamp, hand>>

LoopRaises ==
  \/ \E lost \in SUBSET Reminder : ClaimRaises(lost)
  \/ \E written \in BOOLEAN : MarkFailedRaises(written)

Dispatch ==
  \/ Scan \/ (\E item \in scan : ReadRow(item)) \/ ClaimRow \/ CommitClaims
  \/ (\E arrives, raises \in BOOLEAN : Send(arrives, raises))
  \/ MarkRead \/ MarkWrite \/ (\E written \in BOOLEAN : MarkRaises(written)) \/ MarkFailed

-----------------------------------------------------------------------------
(* The handlers of the owner's messages.                                   *)

Exists(r) == rows[r].status # "absent"
OwnerWrites == writes < MaxWrites /\ writes' = writes + 1

\* Bound: a claim that stays behind can run out before the clock stops.
LeaseFits == now + Lease <= End

\* Updates are handled one after another.
NoHandler == before = NoReminder /\ answer = NoReminder

\* A new reminder: the row is a candidate until a second commit schedules it,
\* so a crash, a past time or a missing time leave it a candidate; for the
\* first missing time of a note the owner is asked.
Create(r, at, status) ==
  /\ NoHandler /\ rows[r].status = "absent" /\ OwnerWrites
  /\ status \in {"candidate", "scheduled"}
  /\ status = "scheduled" => at # NoTime
  /\ SetSchedule(r, at, status)
  /\ asked' \in IF at = NoTime THEN {asked, asked \cup {r}} ELSE {asked}
  /\ UNCHANGED <<now, crashes, loop, before, answer, log, undone>>

\* The answer to the question: update_remind_at, ...
AnswerTime(r, at) ==
  /\ NoHandler /\ r \in asked /\ OwnerWrites
  /\ SetSchedule(r, at, rows[r].status)
  /\ answer' = [id |-> r, next |-> "schedule"]
  /\ UNCHANGED <<now, crashes, loop, asked, before, log, undone>>

\* ... schedule_reminder, which schedules anew a row that the loop has finished
\* in between, and ...
AnswerSchedule ==
  /\ answer # NoReminder /\ answer.next = "schedule"
  /\ IF rows[answer.id].status = "scheduled"
       THEN UNCHANGED <<rows, told>>
       ELSE /\ rows[answer.id].claimed = NoTime \/ LeaseFits
            /\ SetStatus(answer.id, "scheduled") /\ told' = [told EXCEPT ![answer.id] = <<>>]
  /\ answer' = [answer EXCEPT !.next = "resolve"]
  /\ UNCHANGED <<now, crashes, loop, asked, before, log, undone, writes>>

\* ... resolve.
AnswerResolve ==
  /\ answer # NoReminder /\ answer.next = "resolve"
  /\ asked' = asked \ {answer.id} /\ answer' = NoReminder
  /\ UNCHANGED <<rows, told, now, crashes, loop, before, log, undone, writes>>

\* A button reads the row for its "before" snapshot, writes it in a later
\* step and appends the event that carries the undo button.
PressButton(r) ==
  /\ NoHandler /\ Exists(r) /\ writes < MaxWrites
  /\ before' = [id |-> r, status |-> rows[r].status, at |-> rows[r].at]
  /\ UNCHANGED <<rows, now, told, crashes, loop, asked, answer, log, undone, writes>>

FinishButton == before' = NoReminder /\ log' = Append(log, before)

\* Faulty variant of ButtonDone: the status of a finished task.
ButtonDoneAsTask ==
  /\ before # NoReminder /\ OwnerWrites
  /\ SetStatus(before.id, "done")
  /\ FinishButton
  /\ UNCHANGED <<now, told, crashes, loop, asked, answer, undone>>

ButtonDone ==
  /\ before # NoReminder /\ OwnerWrites
  /\ SetStatus(before.id, "cancelled")
  /\ FinishButton
  /\ UNCHANGED <<now, told, crashes, loop, asked, answer, undone>>

ButtonDue(at) ==
  /\ before # NoReminder /\ OwnerWrites
  /\ at > now
  /\ SetSchedule(before.id, at, "scheduled")
  /\ FinishButton
  /\ UNCHANGED <<now, crashes, loop, asked, answer, undone>>

\* The undo restores the snapshot unconditionally.
UndoButton(i) ==
  /\ NoHandler /\ i \in DOMAIN log \ undone /\ OwnerWrites
  /\ IF log[i].at # NoTime
       THEN SetSchedule(log[i].id, log[i].at, log[i].status)
       ELSE SetStatus(log[i].id, log[i].status) /\ UNCHANGED told
  /\ undone' = undone \cup {i}
  /\ UNCHANGED <<now, crashes, loop, asked, before, answer, log>>

\* An exception ends a handler; the owner is told, and what was committed stays.
HandlerRaises ==
  /\ ~NoHandler
  /\ before' = NoReminder /\ answer' = NoReminder
  /\ UNCHANGED <<rows, told, now, crashes, loop, asked, log, undone, writes>>

Owner ==
  \/ \E r \in Reminder, at \in Times \cup {NoTime}, status \in {"candidate", "scheduled"} :
       Create(r, at, status)
  \/ \E r \in Reminder, at \in Times : AnswerTime(r, at)
  \/ AnswerSchedule \/ AnswerResolve
  \/ \E r \in Reminder : PressButton(r)
  \/ ButtonDone
  \/ \E at \in Times : ButtonDue(at)
  \/ \E i \in DOMAIN log : UndoButton(i)
  \/ HandlerRaises

-----------------------------------------------------------------------------
(* Time and crashes.                                                       *)

Tick ==
  /\ now < End
  /\ now' = now + 1
  /\ UNCHANGED <<rows, told, crashes, loop, hand>>

\* The process ends and is started again, and with it the loop; a handler that
\* was running is gone.
Crash(lost) ==
  /\ crashes < MaxCrashes /\ LeaseFits
  /\ crashes' = crashes + 1
  /\ LoseClaims(lost)
  /\ phase' = "idle" /\ scan' = {} /\ current' = NoReminder /\ batch' = <<>>
  /\ due' = NoTime /\ before' = NoReminder /\ answer' = NoReminder
  /\ UNCHANGED <<now, told, stamp, asked, log, undone, writes>>

Next == Dispatch \/ LoopRaises \/ Owner \/ Tick \/ \E lost \in SUBSET Reminder : Crash(lost)

Spec == Init /\ [][Next]_vars

\* A loop that has not ended goes on, a send returns or times out, and time
\* passes.  That nothing raises is not assumed: LoopRaises may take any step.
FairSpec == Spec /\ WF_vars(Dispatch) /\ WF_vars(Tick)

-----------------------------------------------------------------------------
(* Properties.                                                             *)

\* Without a crash the owner hears each schedule of a reminder at most once,
\* and every crash costs at most one repetition.
OnePerSchedule == \A r \in Reminder : Len(told[r]) <= 1 + crashes

\* A repetition of the same schedule comes at least a lease after the pass
\* that delivered it before: the claim outlives the process.
LeaseSeparates ==
  \A r \in Reminder : \A i, j \in DOMAIN told[r] :
    i < j => told[r][j].time - told[r][i].stamp >= Lease

\* claim_due takes only rows that are due.
ClaimedWhenDue ==
  [][\A r \in Reminder :
       rows'[r].claimed # rows[r].claimed /\ rows'[r].claimed # NoTime
         => rows[r].at <= now]_vars

IsDue(r) == rows[r].status = "scheduled" /\ rows[r].at # NoTime /\ rows[r].at <= now

\* Every due reminder is eventually delivered, failed, moved or cancelled,
\* whatever pass was interrupted by a crash while it held the claim, unless an
\* exception outside its one try ended the loop (app.py:240-242).
DueHandled == \A r \in Reminder : IsDue(r) ~> (~IsDue(r) \/ phase = "ended")

\* An answer schedules no reminder that was delivered for it already.
AnsweredOnce ==
  [][(answer # NoReminder /\ answer.next = "schedule" /\ asked' = asked
        /\ answer' # NoReminder /\ answer' # answer) =>
       rows[answer.id].status # "sent" \/ told[answer.id] = <<>>]_vars

\* The loop finishes a row only while it holds the claim: it never overwrites
\* what the owner decided after the claim.
OwnerWriteKept ==
  [][(phase \in {"write", "fail"} /\ phase' \in {"idle", "send"} /\ crashes' = crashes) =>
       /\ rows[Head(batch)].status = "scheduled"
       /\ rows[Head(batch)].claimed = stamp]_vars

=============================================================================
