----------------------- MODULE ReminderDispatchProofs -----------------------
(***************************************************************************)
(* Proofs about ReminderDispatch, for any number of reminders, writes of    *)
(* the owner and restarts, and any lease.                                   *)
(***************************************************************************)
EXTENDS ReminderDispatch, TLAPS

Finishing == phase \in {"mark", "write", "fail"}

\* Reminders of the pass that are claimed and not sent yet, and the one that
\* was sent and is not marked yet.
Unsent(r)   == \E i \in DOMAIN batch : batch[i] = r /\ (Finishing => i # 1)
Finished(r) == Finishing /\ r = batch[1]

\* A pass handles no reminder twice.
PassInv ==
  /\ phase \in {"idle", "ended"} => batch = <<>> /\ scan = {}
  /\ phase \notin {"idle", "claim", "update"} => scan = {}
  /\ phase \in {"send", "mark", "write", "fail"} => batch # <<>>
  /\ \A i, j \in DOMAIN batch : batch[i] = batch[j] => i = j
  /\ \A s, t \in scan : s.id = t.id => s = t
  /\ \A s \in scan : s.id # current /\ \A i \in DOMAIN batch : batch[i] # s.id
  /\ \A i \in DOMAIN batch : batch[i] # current

\* What is scheduled has a time, and so has what an undo or an answer schedules.
Timed ==
  /\ \A r \in Reminder : rows[r].status = "scheduled" => rows[r].at # NoTime
  /\ before # NoReminder /\ before.status = "scheduled" => before.at # NoTime
  /\ answer # NoReminder => rows[answer.id].at # NoTime
  /\ \A i \in DOMAIN log : log[i].status = "scheduled" => log[i].at # NoTime

\* A lease has passed since every delivery of the present schedule.
Rested(r) == \A i \in DOMAIN told[r] : told[r][i].stamp + Lease <= now

\* The claim of a row is not older than the pass that delivered it last, and
\* only a row whose deliveries are a lease ago may be sent.
Claims(r) ==
  /\ \A i \in DOMAIN told[r] : told[r][i].stamp <= stamp
  /\ rows[r].claimed = NoTime => Rested(r)
  /\ rows[r].claimed # NoTime => \A i \in DOMAIN told[r] : told[r][i].stamp <= rows[r].claimed
  /\ Unsent(r) /\ rows[r].claimed = stamp => Rested(r)

\* A row that may still be sent was delivered at most once for each crash; a loop
\* that has ended sends nothing before the next one.
Counted(r) ==
  /\ rows[r].status = "scheduled" /\ ~Finished(r) /\ phase # "ended" => Len(told[r]) <= crashes
  /\ Unsent(r) /\ rows[r].claimed = stamp => Len(told[r]) <= crashes

\* What OnePerSchedule and LeaseSeparates say of one reminder.
Separated(r) ==
  /\ Len(told[r]) <= 1 + crashes
  /\ \A i, j \in DOMAIN told[r] : i < j => told[r][j].time - told[r][i].stamp >= Lease

DispatchInv ==
  /\ TypeOK /\ PassInv /\ Timed
  /\ \A r \in Reminder : Claims(r) /\ Counted(r) /\ Separated(r)

-----------------------------------------------------------------------------
(* What a step may do to the schedule of a reminder.                       *)

Same(r)  == rows'[r] = rows[r] /\ told'[r] = told[r]
Moved(r) == told'[r] = <<>>
Ended(r) == /\ told'[r] = told[r] /\ rows'[r].claimed = rows[r].claimed
            /\ rows'[r].status # "scheduled"
Harmless(r) == Same(r) \/ Moved(r) \/ Ended(r)

\* No time is taken away.
Timely == \A r \in Reminder : rows[r].at # NoTime => rows'[r].at # NoTime

\* SetSchedule and SetStatus in these terms.
LEMMA SetScheduleIs ==
  ASSUME TypeOK, NEW r \in Reminder, NEW at \in OptTime, NEW status \in Status,
         SetSchedule(r, at, status)
  PROVE  /\ rows' \in [Reminder -> Row] /\ told' \in [Reminder -> Seq(Delivery)]
         /\ \A x \in Reminder : Same(x) \/ (x = r /\ Moved(x))
         /\ rows'[r] = [status |-> status, at |-> at, claimed |-> NoTime]
         /\ at # NoTime => Timely
<1>1. rows \in [Reminder -> Row] /\ told \in [Reminder -> Seq(Delivery)]
  BY DEF TypeOK
<1>2. [status |-> status, at |-> at, claimed |-> NoTime] \in Row
  BY DEF Row, OptTime
<1>3. <<>> \in Seq(Delivery)
  OBVIOUS
<1>4. rows' \in [Reminder -> Row] /\ told' \in [Reminder -> Seq(Delivery)]
  BY <1>1, <1>2, <1>3 DEF SetSchedule
<1> QED BY <1>1, <1>4 DEF SetSchedule, Same, Moved, Timely

LEMMA SetStatusIs ==
  ASSUME TypeOK, NEW r \in Reminder, NEW status \in Status, SetStatus(r, status),
         UNCHANGED told
  PROVE  /\ rows' \in [Reminder -> Row] /\ told' \in [Reminder -> Seq(Delivery)]
         /\ \A x \in Reminder : Same(x) \/ (x = r /\ (status # "scheduled" => Ended(x)))
         /\ rows'[r] = [rows[r] EXCEPT !.status = status]
         /\ Timely
<1>1. rows \in [Reminder -> Row] /\ told \in [Reminder -> Seq(Delivery)]
  BY DEF TypeOK
<1>2. rows[r] \in Row /\ [rows[r] EXCEPT !.status = status] \in Row
  BY <1>1 DEF Row
<1>3. rows' = [rows EXCEPT ![r] = [rows[r] EXCEPT !.status = status]]
  BY DEF SetStatus
<1>4. [rows[r] EXCEPT !.status = status].claimed = rows[r].claimed
  BY <1>2 DEF Row
<1>5. [rows[r] EXCEPT !.status = status].status = status /\ [rows[r] EXCEPT !.status = status].at = rows[r].at
  BY <1>2 DEF Row
<1> QED BY <1>1, <1>2, <1>3, <1>4, <1>5 DEF Same, Ended, Timely

\* A step that does no more than this keeps the invariant of a reminder.
LEMMA HarmlessKeeps ==
  ASSUME TypeOK, TypeOK', NEW r \in Reminder,
         Claims(r), Counted(r), Separated(r), Harmless(r),
         now <= now', crashes <= crashes', stamp' = stamp,
         Unsent(r)' => Unsent(r),
         Finished(r) => Finished(r)' \/ Moved(r) \/ Ended(r) \/ phase' = "ended",
         phase = "ended" => phase' = "ended"
  PROVE  Claims(r)' /\ Counted(r)' /\ Separated(r)'
<1>1. /\ told[r] \in Seq(Delivery) /\ now \in Int /\ now' \in Int /\ crashes \in Nat
      /\ crashes' \in Nat /\ Lease \in Nat
  BY PeriodAssumption DEF TypeOK
<1>2. \A i \in DOMAIN told[r] : told[r][i].stamp \in Int
  <2>1. \A i \in DOMAIN told[r] : told[r][i] \in Delivery
    BY <1>1
  <2> QED BY <2>1 DEF Delivery
<1>3. CASE Moved(r)
  <2>1. told'[r] = <<>> /\ Len(<<>>) = 0 /\ \A i \in DOMAIN <<>> : FALSE
    BY <1>3 DEF Moved
  <2>2. Claims(r)'
    BY <2>1 DEF Claims, Rested
  <2>3. Counted(r)'
    BY <1>1, <2>1 DEF Counted
  <2>4. Separated(r)'
    <3>1. Len(told'[r]) <= 1 + crashes'
      <4>1. Len(told'[r]) = 0
        BY <2>1
      <4>2. crashes' \in Nat
        BY <1>1
      <4>3. \A n \in Nat : 0 <= 1 + n
        OBVIOUS
      <4>4. 0 <= 1 + crashes'
        BY <4>2, <4>3, Zenon
      <4> QED BY <4>1, <4>4, Zenon
    <3>2. \A i, j \in DOMAIN told'[r] : FALSE
      BY <2>1
    <3> QED BY <3>1, <3>2 DEF Separated
  <2> QED BY <2>2, <2>3, <2>4
<1>4. CASE ~Moved(r)
  <2>1. told'[r] = told[r] /\ rows'[r].claimed = rows[r].claimed
    BY <1>4 DEF Harmless, Same, Ended
  <2>2. Rested(r) => Rested(r)'
    BY <1>1, <1>2, <2>1 DEF Rested
  <2>3. Claims(r)'
    BY <1>1, <1>2, <2>1, <2>2 DEF Claims
  <2>4. rows'[r].status = "scheduled" /\ ~Finished(r)' /\ phase' # "ended"
          => rows[r].status = "scheduled" /\ ~Finished(r) /\ phase # "ended"
    BY <1>4 DEF Harmless, Same, Ended
  <2>5. Len(told[r]) \in Nat
    BY <1>1
  <2>6. Counted(r)'
    BY <1>1, <2>1, <2>4, <2>5 DEF Counted
  <2>7. Separated(r)'
    BY <1>1, <2>1, <2>5 DEF Separated
  <2> QED BY <2>3, <2>6, <2>7
<1> QED BY <1>3, <1>4

-----------------------------------------------------------------------------
(* The steps of the owner.                                                 *)

Kept == TypeOK' /\ Timed' /\ \A r \in Reminder : Harmless(r)

LEMMA OwnerSteps ==
  ASSUME TypeOK, Timed, Owner
  PROVE  Kept /\ UNCHANGED <<now, crashes, loop>>
<1> USE TimeAssumption, ReminderAssumption DEF OptTime
<1>0. UNCHANGED <<now, crashes, loop>>
  BY DEF Owner, Create, AnswerTime, AnswerSchedule, AnswerResolve, PressButton, ButtonDone,
     ButtonDue, UndoButton, HandlerRaises, hand, loop
<1>1. ASSUME NEW r \in Reminder, NEW at \in Times \cup {NoTime},
             NEW status \in {"candidate", "scheduled"}, Create(r, at, status)
      PROVE  Kept
  <2>1. SetSchedule(r, at, status) /\ at \in OptTime /\ status \in Status
    BY <1>1 DEF Create, Status
  <2>2. /\ rows' \in [Reminder -> Row] /\ told' \in [Reminder -> Seq(Delivery)]
        /\ \A x \in Reminder : Same(x) \/ (x = r /\ Moved(x))
        /\ rows'[r] = [status |-> status, at |-> at, claimed |-> NoTime]
    BY <2>1, SetScheduleIs
  <2>3. UNCHANGED <<before, answer, log, undone>> /\ asked' \subseteq Reminder /\ writes' \in Nat
    BY <1>1 DEF Create, OwnerWrites, TypeOK
  <2>4. TypeOK'
    BY <1>0, <2>2, <2>3 DEF TypeOK, loop
  <2>5. Timed'
    BY <1>1, <2>2, <2>3 DEF Timed, Same, Create, NoHandler
  <2> QED BY <2>2, <2>4, <2>5 DEF Kept, Harmless
<1>2. ASSUME NEW r \in Reminder, NEW at \in Times, AnswerTime(r, at) PROVE Kept
  <2>1. SetSchedule(r, at, rows[r].status) /\ rows[r].status \in Status
    BY <1>2 DEF AnswerTime, TypeOK, Row
  <2>2. /\ rows' \in [Reminder -> Row] /\ told' \in [Reminder -> Seq(Delivery)]
        /\ \A x \in Reminder : Same(x) \/ (x = r /\ Moved(x))
        /\ rows'[r] = [status |-> rows[r].status, at |-> at, claimed |-> NoTime]
    BY <2>1, SetScheduleIs
  <2>3. /\ UNCHANGED <<before, log, undone, asked>> /\ writes' \in Nat
        /\ answer' = [id |-> r, next |-> "schedule"]
    BY <1>2 DEF AnswerTime, OwnerWrites, TypeOK
  <2>4. TypeOK'
    BY <1>0, <2>2, <2>3 DEF TypeOK, loop
  <2>5. Timed'
    <3>1. rows'[r].at # NoTime /\ answer'.id = r
      BY <2>2, <2>3
    <3> QED BY <2>2, <2>3, <3>1 DEF Timed, Same
  <2> QED BY <2>2, <2>4, <2>5 DEF Kept, Harmless
<1>8. CASE AnswerSchedule
  <2>1. /\ UNCHANGED <<before, log, undone, asked, writes>>
        /\ answer # NoReminder /\ answer' = [answer EXCEPT !.next = "resolve"]
    BY <1>8 DEF AnswerSchedule
  <2>2. /\ answer.id \in Reminder
        /\ answer' \in [id : Reminder, next : {"schedule", "resolve"}] /\ answer'.id = answer.id
    BY <2>1 DEF TypeOK
  <2>3. /\ rows' \in [Reminder -> Row] /\ told' \in [Reminder -> Seq(Delivery)]
        /\ \A r \in Reminder : Same(r) \/ (r = answer.id /\ Moved(r))
        /\ \A r \in Reminder : rows'[r].at = rows[r].at
    <3>1. CASE rows[answer.id].status = "scheduled"
      BY <1>8, <3>1 DEF AnswerSchedule, Same, TypeOK
    <3>2. CASE rows[answer.id].status # "scheduled"
      <4>1. /\ rows' = [rows EXCEPT ![answer.id].status = "scheduled"]
            /\ told' = [told EXCEPT ![answer.id] = <<>>]
        BY <1>8, <3>2 DEF AnswerSchedule, SetStatus
      <4>2. /\ rows \in [Reminder -> Row] /\ told \in [Reminder -> Seq(Delivery)]
            /\ "scheduled" \in Status /\ <<>> \in Seq(Delivery)
        BY DEF TypeOK, Status
      <4> QED BY <2>2, <4>1, <4>2 DEF Row, Same, Moved
    <3> QED BY <3>1, <3>2
  <2>4. TypeOK'
    BY <1>0, <2>1, <2>2, <2>3 DEF TypeOK, loop
  <2>5. Timed'
    <3>1. rows[answer.id].at # NoTime
      BY <2>1 DEF Timed
    <3> QED BY <2>1, <2>2, <2>3, <3>1 DEF Timed, Same
  <2> QED BY <1>0, <2>3, <2>4, <2>5 DEF Kept, Harmless
<1>9. CASE AnswerResolve \/ HandlerRaises
  <2>1. /\ UNCHANGED <<rows, told, log, undone, writes>> /\ asked' \subseteq Reminder
        /\ before' \in {before, NoReminder} /\ answer' = NoReminder
    BY <1>9 DEF AnswerResolve, HandlerRaises, TypeOK
  <2>2. TypeOK'
    BY <1>0, <2>1 DEF TypeOK, loop
  <2>3. Timed'
    BY <2>1 DEF Timed
  <2> QED BY <1>0, <2>1, <2>2, <2>3 DEF Kept, Harmless, Same
<1>3. ASSUME NEW r \in Reminder, PressButton(r) PROVE Kept
  <2>1. UNCHANGED <<rows, told, asked, answer, log, undone, writes>>
    BY <1>3 DEF PressButton
  <2>2. before' = [id |-> r, status |-> rows[r].status, at |-> rows[r].at]
    BY <1>3 DEF PressButton
  <2>3. rows[r] \in Row
    BY DEF TypeOK
  <2>4. before' \in Snapshot
    BY <2>2, <2>3 DEF Snapshot, Row
  <2>5. TypeOK'
    BY <1>0, <2>1, <2>4 DEF TypeOK, loop
  <2>6. Timed'
    BY <2>1, <2>2 DEF Timed
  <2> QED BY <2>1, <2>5, <2>6 DEF Kept, Harmless, Same
<1>4. ASSUME before # NoReminder, FinishButton, UNCHANGED <<asked, answer, undone>>, OwnerWrites,
             rows' \in [Reminder -> Row], told' \in [Reminder -> Seq(Delivery)]
      PROVE  /\ TypeOK'
             /\ before' = NoReminder
             /\ \A i \in DOMAIN log' : log'[i].status = "scheduled" => log'[i].at # NoTime
  <2>1. before \in Snapshot /\ log \in Seq(Snapshot) /\ log' = Append(log, before)
    BY <1>4 DEF FinishButton, TypeOK
  <2>2. /\ log' \in Seq(Snapshot) /\ DOMAIN log \subseteq DOMAIN log'
        /\ \A i \in DOMAIN log' : log'[i] = before \/ (i \in DOMAIN log /\ log'[i] = log[i])
    BY <2>1
  <2>3. before' = NoReminder /\ writes' \in Nat /\ undone' \subseteq DOMAIN log'
    BY <1>4, <2>2 DEF FinishButton, OwnerWrites, TypeOK
  <2>4. TypeOK'
    BY <1>0, <1>4, <2>2, <2>3 DEF TypeOK, loop
  <2> QED BY <1>4, <2>2, <2>3, <2>4 DEF Timed
<1>5. CASE ButtonDone
  <2>1. /\ before # NoReminder /\ FinishButton /\ UNCHANGED <<asked, answer, undone>>
        /\ OwnerWrites /\ SetStatus(before.id, "cancelled") /\ UNCHANGED told
    BY <1>5 DEF ButtonDone
  <2>2. before.id \in Reminder /\ "cancelled" \in Status
    BY <2>1 DEF TypeOK, Snapshot, Status
  <2>3. /\ rows' \in [Reminder -> Row] /\ told' \in [Reminder -> Seq(Delivery)]
        /\ Timely /\ \A x \in Reminder : Same(x) \/ Ended(x)
    BY <2>1, <2>2, SetStatusIs
  <2>4. Timed'
    BY <1>4, <2>1, <2>2, <2>3 DEF Timed, Timely, Same, Ended, TypeOK
  <2> QED BY <1>0, <1>4, <2>1, <2>3, <2>4 DEF Kept, Harmless
<1>6. ASSUME NEW at \in Times, ButtonDue(at) PROVE Kept
  <2>1. /\ before # NoReminder /\ FinishButton /\ UNCHANGED <<asked, answer, undone>>
        /\ OwnerWrites /\ SetSchedule(before.id, at, "scheduled")
    BY <1>6 DEF ButtonDue
  <2>2. before.id \in Reminder /\ "scheduled" \in Status
    BY <2>1 DEF TypeOK, Snapshot, Status
  <2>3. /\ rows' \in [Reminder -> Row] /\ told' \in [Reminder -> Seq(Delivery)]
        /\ \A x \in Reminder : Same(x) \/ (x = before.id /\ Moved(x))
        /\ rows'[before.id] = [status |-> "scheduled", at |-> at, claimed |-> NoTime]
    BY <2>1, <2>2, SetScheduleIs
  <2>4. Timed'
    <3>1. rows'[before.id].at # NoTime
      BY <2>3
    <3> QED BY <1>4, <2>1, <2>3, <3>1 DEF Timed, Same, TypeOK
  <2> QED BY <1>4, <2>1, <2>3, <2>4 DEF Kept, Harmless
<1>7. ASSUME NEW i \in DOMAIN log, UndoButton(i) PROVE Kept
  <2>1. log[i] \in Snapshot
    BY DEF TypeOK
  <2>2. /\ UNCHANGED <<asked, before, answer, log>> /\ writes' \in Nat
        /\ undone' \subseteq DOMAIN log'
    BY <1>7 DEF UndoButton, OwnerWrites, TypeOK
  <2>3. CASE log[i].at # NoTime
    <3>1. SetSchedule(log[i].id, log[i].at, log[i].status)
      BY <1>7, <2>3 DEF UndoButton
    <3>2. /\ rows' \in [Reminder -> Row] /\ told' \in [Reminder -> Seq(Delivery)]
          /\ \A x \in Reminder : Same(x) \/ (x = log[i].id /\ Moved(x))
          /\ rows'[log[i].id] = [status |-> log[i].status, at |-> log[i].at, claimed |-> NoTime]
      BY <2>1, <3>1, SetScheduleIs DEF Snapshot
    <3>3. TypeOK'
      BY <1>0, <2>2, <3>2 DEF TypeOK, loop
    <3>4. Timed'
      <4>1. rows'[log[i].id].at # NoTime
        BY <2>3, <3>2
      <4> QED BY <1>7, <2>2, <3>2, <4>1 DEF UndoButton, NoHandler, Timed, Same
    <3> QED BY <3>2, <3>3, <3>4 DEF Kept, Harmless
  <2>4. CASE log[i].at = NoTime
    <3>1. SetStatus(log[i].id, log[i].status) /\ UNCHANGED told /\ log[i].status # "scheduled"
      BY <1>7, <2>4 DEF UndoButton, Timed
    <3>2. /\ rows' \in [Reminder -> Row] /\ told' \in [Reminder -> Seq(Delivery)]
          /\ Timely /\ \A x \in Reminder : Same(x) \/ Ended(x)
      BY <2>1, <3>1, SetStatusIs DEF Snapshot
    <3>3. TypeOK'
      BY <1>0, <2>2, <3>2 DEF TypeOK, loop
    <3>4. Timed'
      BY <2>2, <3>2 DEF Timed, Timely, Same, Ended, TypeOK
    <3> QED BY <3>2, <3>3, <3>4 DEF Kept, Harmless
  <2> QED BY <2>3, <2>4
<1> QED BY <1>0, <1>1, <1>2, <1>3, <1>5, <1>6, <1>7, <1>8, <1>9 DEF Owner

-----------------------------------------------------------------------------
(* The steps of the loop that deliver and claim nothing.                   *)

LEMMA TailIs ==
  ASSUME TypeOK, batch # <<>>
  PROVE  /\ Tail(batch) \in Seq(Reminder) /\ Head(batch) = batch[1] /\ Head(batch) \in Reminder
         /\ DOMAIN batch = 1 .. Len(batch) /\ Len(batch) \in Nat /\ Len(batch) >= 1
         /\ \A i \in DOMAIN Tail(batch) :
              i \in Nat /\ i + 1 \in DOMAIN batch /\ i + 1 # 1 /\ Tail(batch)[i] = batch[i + 1]
<1>1. batch \in Seq(Reminder)
  BY DEF TypeOK
<1> QED BY <1>1

\* A step of the loop that finishes the first reminder of the batch.
LEMMA NextInBatchIs ==
  ASSUME TypeOK, PassInv, Finishing, NextInBatch, UNCHANGED <<scan, current>>
  PROVE  /\ batch' \in Seq(Reminder) /\ phase' \in {"idle", "send"}
         /\ PassInv' /\ \A r \in Reminder : Unsent(r)' => Unsent(r)
<1>1. batch # <<>> /\ scan = {} /\ batch' = Tail(batch)
  BY DEF PassInv, Finishing, NextInBatch
<1>2. phase' = IF batch' = <<>> THEN "idle" ELSE "send"
  BY DEF NextInBatch
<1>3. /\ batch' \in Seq(Reminder)
      /\ \A i \in DOMAIN batch' :
           i \in Nat /\ i + 1 \in DOMAIN batch /\ i + 1 # 1 /\ batch'[i] = batch[i + 1]
  BY <1>1, TailIs
<1>4. ASSUME NEW i \in DOMAIN batch', NEW j \in DOMAIN batch', batch'[i] = batch'[j] PROVE i = j
  <2>1. i + 1 = j + 1
    BY <1>3, <1>4 DEF PassInv
  <2> QED BY <1>3, <2>1
<1>5. PassInv'
  BY <1>1, <1>2, <1>3, <1>4 DEF PassInv
<1>6. \A r \in Reminder : Unsent(r)' => Unsent(r)
  BY <1>3 DEF Unsent, Finishing
<1> QED BY <1>2, <1>3, <1>5, <1>6

Silent ==
  /\ TypeOK' /\ PassInv' /\ Timed' /\ UNCHANGED <<now, crashes, stamp>>
  /\ \A r \in Reminder :
       /\ Harmless(r) /\ (Unsent(r)' => Unsent(r))
       /\ Finished(r) => Finished(r)' \/ Moved(r) \/ Ended(r) \/ phase' = "ended"
  /\ phase = "ended" => phase' = "ended"

LEMMA SilentSteps ==
  ASSUME TypeOK, PassInv, Timed,
         \/ \E item \in scan : ReadRow(item)
         \/ CommitClaims \/ MarkRead \/ MarkWrite
         \/ \E written \in BOOLEAN : MarkRaises(written)
         \/ MarkFailed
         \/ \E written \in BOOLEAN : MarkFailedRaises(written)
  PROVE  Silent
<1> USE DEF OptTime
<1>1. ASSUME NEW item \in scan, ReadRow(item) PROVE Silent
  <2>1. /\ UNCHANGED <<rows, now, told, crashes, stamp, batch, due, hand>>
        /\ phase = "claim" /\ scan' = scan \ {item} /\ item.id \in Reminder
        /\ \/ phase' = phase /\ current' = current
           \/ phase' = "update" /\ current' = item.id
    BY <1>1 DEF ReadRow, TypeOK
  <2>2. TypeOK'
    BY <2>1, ReminderAssumption DEF TypeOK, Phase, hand
  <2>3. PassInv'
    <3>1. \A s \in scan' : s \in scan /\ s.id # item.id
      BY <2>1 DEF PassInv
    <3> QED BY <2>1, <3>1 DEF PassInv
  <2>4. Timed'
    BY <2>1 DEF Timed, hand
  <2>5. \A r \in Reminder : Same(r) /\ (Unsent(r)' => Unsent(r)) /\ ~Finished(r)
    BY <2>1 DEF Same, Unsent, Finished, Finishing
  <2> QED BY <2>1, <2>2, <2>3, <2>4, <2>5 DEF Silent, Harmless
<1>2. CASE CommitClaims
  <2>1. /\ UNCHANGED <<rows, now, told, crashes, stamp, scan, current, batch, due, hand>>
        /\ phase = "claim" /\ scan = {} /\ phase' = IF batch = <<>> THEN "idle" ELSE "send"
    BY <1>2 DEF CommitClaims
  <2>2. TypeOK'
    BY <2>1 DEF TypeOK, Phase, hand
  <2>3. PassInv'
    BY <2>1 DEF PassInv
  <2>4. Timed'
    BY <2>1 DEF Timed, hand
  <2>5. \A r \in Reminder : Same(r) /\ (Unsent(r)' => Unsent(r)) /\ ~Finished(r)
    BY <2>1 DEF Same, Unsent, Finished, Finishing
  <2> QED BY <2>1, <2>2, <2>3, <2>4, <2>5 DEF Silent, Harmless
<1>3. CASE MarkRead
  <2>1. /\ UNCHANGED <<rows, now, told, crashes, stamp, scan, current, batch, hand>>
        /\ phase = "mark" /\ phase' = "write" /\ batch # <<>>
    BY <1>3 DEF MarkRead, PassInv
  <2>2. due' \in OptTime
    <3>1. rows[Head(batch)] \in Row
      BY <2>1, TailIs DEF TypeOK
    <3> QED BY <1>3, <3>1, PeriodAssumption DEF MarkRead, Row
  <2>3. TypeOK'
    BY <2>1, <2>2 DEF TypeOK, Phase, hand
  <2>4. PassInv'
    BY <2>1 DEF PassInv
  <2>5. Timed'
    BY <2>1 DEF Timed, hand
  <2>6. \A r \in Reminder : Same(r) /\ (Unsent(r)' => Unsent(r)) /\ (Finished(r) => Finished(r)')
    BY <2>1 DEF Same, Unsent, Finished, Finishing
  <2> QED BY <2>1, <2>3, <2>4, <2>5, <2>6 DEF Silent, Harmless
<1>4. CASE MarkWrite
  <2>1. /\ UNCHANGED <<now, crashes, stamp, scan, current, hand>>
        /\ phase = "write" /\ NextInBatch /\ due' = NoTime /\ Finishing /\ batch # <<>>
    BY <1>4 DEF MarkWrite, PassInv, Finishing
  <2>2. Head(batch) \in Reminder /\ Head(batch) = batch[1] /\ due \in OptTime
    BY <2>1, TailIs DEF TypeOK
  <2>3. /\ rows' \in [Reminder -> Row] /\ told' \in [Reminder -> Seq(Delivery)]
        /\ \A r \in Reminder : Harmless(r)
        /\ Moved(Head(batch)) \/ Ended(Head(batch))
        /\ Timely
        /\ \A r \in Reminder : rows'[r].status = "scheduled" => rows'[r].at # NoTime
    <3>1. CASE due = NoTime
      <4>1. SetStatus(Head(batch), "sent") /\ UNCHANGED told
        BY <1>4, <3>1 DEF MarkWrite
      <4>2. /\ rows' \in [Reminder -> Row] /\ told' \in [Reminder -> Seq(Delivery)]
            /\ \A x \in Reminder : Same(x) \/ (x = Head(batch) /\ Ended(x))
            /\ Timely /\ rows'[Head(batch)] = [rows[Head(batch)] EXCEPT !.status = "sent"]
        BY <2>2, <4>1, SetStatusIs DEF Status
      <4>3. Ended(Head(batch))
        <5>1. rows[Head(batch)] \in Row
          BY <2>2 DEF TypeOK
        <5> QED BY <4>1, <4>2, <5>1 DEF Ended, Row
      <4> QED BY <4>2, <4>3 DEF Harmless, Same, Ended, Timed
    <3>2. CASE due # NoTime
      <4>1. SetSchedule(Head(batch), due, "scheduled")
        BY <1>4, <3>2 DEF MarkWrite
      <4>2. /\ rows' \in [Reminder -> Row] /\ told' \in [Reminder -> Seq(Delivery)]
            /\ \A x \in Reminder : Same(x) \/ (x = Head(batch) /\ Moved(x))
            /\ rows'[Head(batch)] = [status |-> "scheduled", at |-> due, claimed |-> NoTime]
            /\ due # NoTime => Timely
        BY <2>2, <4>1, SetScheduleIs DEF Status
      <4>3. Moved(Head(batch)) /\ rows'[Head(batch)].at # NoTime
        BY <2>2, <3>2, <4>1, <4>2 DEF SetSchedule, Moved, TypeOK
      <4> QED BY <3>2, <4>2, <4>3 DEF Harmless, Same, Timed
    <3> QED BY <3>1, <3>2
  <2>4. /\ batch' \in Seq(Reminder) /\ phase' \in {"idle", "send"}
        /\ PassInv' /\ \A r \in Reminder : Unsent(r)' => Unsent(r)
    BY <2>1, NextInBatchIs
  <2>5. TypeOK'
    BY <2>1, <2>3, <2>4 DEF TypeOK, Phase, hand
  <2>6. Timed'
    BY <2>1, <2>3 DEF Timed, Timely, TypeOK, hand
  <2>7. \A r \in Reminder : Finished(r) => Moved(r) \/ Ended(r)
    BY <2>2, <2>3 DEF Finished
  <2> QED BY <2>1, <2>3, <2>4, <2>5, <2>6, <2>7 DEF Silent
<1>5. ASSUME NEW written \in BOOLEAN, MarkRaises(written) PROVE Silent
  <2>1. /\ UNCHANGED <<now, crashes, stamp, scan, current, batch, hand>>
        /\ phase \in {"mark", "write"} /\ phase' = "fail" /\ due' = NoTime /\ batch # <<>>
    BY <1>5 DEF MarkRaises, PassInv
  <2>2. Head(batch) \in Reminder /\ due \in OptTime
    BY <2>1, TailIs DEF TypeOK
  <2>3. /\ rows' \in [Reminder -> Row] /\ told' \in [Reminder -> Seq(Delivery)]
        /\ Timely /\ \A r \in Reminder : Harmless(r)
        /\ \A r \in Reminder : rows'[r].status = "scheduled" => rows'[r].at # NoTime
    <3>1. CASE written
      <4>1. due # NoTime /\ SetSchedule(Head(batch), due, "scheduled")
        BY <1>5, <3>1 DEF MarkRaises
      <4>2. /\ rows' \in [Reminder -> Row] /\ told' \in [Reminder -> Seq(Delivery)]
            /\ \A x \in Reminder : Same(x) \/ (x = Head(batch) /\ Moved(x))
            /\ rows'[Head(batch)] = [status |-> "scheduled", at |-> due, claimed |-> NoTime]
            /\ due # NoTime => Timely
        BY <2>2, <4>1, SetScheduleIs DEF Status
      <4>3. rows'[Head(batch)].at # NoTime
        BY <4>1, <4>2
      <4> QED BY <4>1, <4>2, <4>3 DEF Harmless, Same, Timed
    <3>2. CASE ~written
      BY <1>5, <3>2 DEF MarkRaises, Harmless, Same, Timed, Timely, TypeOK
    <3> QED BY <3>1, <3>2
  <2>4. TypeOK'
    BY <2>1, <2>3 DEF TypeOK, Phase, hand
  <2>5. PassInv'
    BY <2>1 DEF PassInv
  <2>6. Timed'
    BY <2>1, <2>3 DEF Timed, Timely, TypeOK, hand
  <2>7. \A r \in Reminder : (Unsent(r)' => Unsent(r)) /\ (Finished(r) => Finished(r)')
    BY <2>1 DEF Unsent, Finished, Finishing
  <2> QED BY <2>1, <2>3, <2>4, <2>5, <2>6, <2>7 DEF Silent
<1>6. CASE MarkFailed
  <2>1. /\ UNCHANGED <<now, told, crashes, stamp, scan, current, due, hand>>
        /\ phase = "fail" /\ NextInBatch /\ Finishing /\ batch # <<>>
        /\ SetStatus(Head(batch), "failed")
    BY <1>6 DEF MarkFailed, PassInv, Finishing
  <2>2. Head(batch) \in Reminder /\ Head(batch) = batch[1]
    BY <2>1, TailIs
  <2>3. /\ rows' \in [Reminder -> Row] /\ told' \in [Reminder -> Seq(Delivery)]
        /\ \A x \in Reminder : Same(x) \/ (x = Head(batch) /\ Ended(x))
        /\ Timely /\ rows'[Head(batch)] = [rows[Head(batch)] EXCEPT !.status = "failed"]
    BY <2>1, <2>2, SetStatusIs DEF Status
  <2>4. Ended(Head(batch))
    <3>1. rows[Head(batch)] \in Row
      BY <2>2 DEF TypeOK
    <3> QED BY <2>1, <2>3, <3>1 DEF Ended, Row
  <2>5. /\ batch' \in Seq(Reminder) /\ phase' \in {"idle", "send"}
        /\ PassInv' /\ \A r \in Reminder : Unsent(r)' => Unsent(r)
    BY <2>1, NextInBatchIs
  <2>6. TypeOK'
    BY <2>1, <2>3, <2>5 DEF TypeOK, Phase, hand
  <2>7. Timed'
    BY <2>1, <2>3, <2>4 DEF Timed, Timely, Same, Ended, TypeOK, hand
  <2>8. \A r \in Reminder : Harmless(r) /\ (Finished(r) => Ended(r))
    BY <2>2, <2>3, <2>4 DEF Finished, Harmless
  <2> QED BY <2>1, <2>5, <2>6, <2>7, <2>8 DEF Silent
<1>7. ASSUME NEW written \in BOOLEAN, MarkFailedRaises(written) PROVE Silent
  <2>1. /\ UNCHANGED <<now, told, crashes, stamp, hand>> /\ phase = "fail" /\ batch # <<>>
        /\ phase' = "ended" /\ scan' = {} /\ current' = NoReminder /\ batch' = <<>>
        /\ due' = NoTime
    BY <1>7 DEF MarkFailedRaises, EndLoop, PassInv
  <2>2. Head(batch) \in Reminder
    BY <2>1, TailIs
  <2>3. /\ rows' \in [Reminder -> Row] /\ Timely
        /\ \A x \in Reminder : Same(x) \/ Ended(x)
    <3>1. CASE written
      BY <1>7, <2>1, <2>2, <3>1, SetStatusIs DEF MarkFailedRaises, Status
    <3>2. CASE ~written
      BY <1>7, <2>1, <3>2 DEF MarkFailedRaises, Same, Timely, TypeOK
    <3> QED BY <3>1, <3>2
  <2>4. \A i \in DOMAIN batch' : FALSE
    BY <2>1
  <2>5. TypeOK'
    BY <2>1, <2>3 DEF TypeOK, Phase, hand
  <2>6. PassInv'
    BY <2>1, <2>4 DEF PassInv
  <2>7. Timed'
    BY <2>1, <2>3 DEF Timed, Timely, Same, Ended, TypeOK, hand
  <2>8. \A r \in Reminder : Harmless(r) /\ ~Unsent(r)'
    BY <2>3, <2>4 DEF Harmless, Unsent
  <2> QED BY <2>1, <2>5, <2>6, <2>7, <2>8 DEF Silent
<1> QED BY <1>1, <1>2, <1>3, <1>4, <1>5, <1>6, <1>7

-----------------------------------------------------------------------------
(* The steps that claim and deliver, and the end of the process.           *)

\* What the schedule of one reminder is known to hold.
LEMMA ToldIs ==
  ASSUME TypeOK, NEW r \in Reminder
  PROVE  /\ told[r] \in Seq(Delivery) /\ Len(told[r]) \in Nat /\ rows[r] \in Row
         /\ \A i \in DOMAIN told[r] : told[r][i].stamp \in Int /\ told[r][i].time \in Int
<1>1. told[r] \in Seq(Delivery) /\ rows[r] \in Row
  BY DEF TypeOK
<1>2. \A i \in DOMAIN told[r] : told[r][i] \in Delivery
  BY <1>1
<1> QED BY <1>1, <1>2 DEF Delivery

LEMMA ScanStep == ASSUME DispatchInv, Scan PROVE DispatchInv'
<1>1. /\ UNCHANGED <<rows, now, told, crashes, current, batch, due, hand>>
      /\ stamp' = now /\ phase = "idle" /\ phase' = "claim" /\ batch = <<>> /\ stamp <= now
      /\ scan' = {[id |-> r, at |-> rows[r].at] :
                     r \in {x \in Reminder : Claimable(x) /\ rows[x].at # NoTime}}
  BY DEF Scan, DispatchInv, PassInv, TypeOK
<1>2. TypeOK'
  <2>1. scan' \subseteq [id : Reminder, at : Int]
    BY <1>1 DEF DispatchInv, TypeOK, Row, OptTime
  <2> QED BY <1>1, <2>1 DEF DispatchInv, TypeOK, Phase, hand
<1>3. PassInv'
  <2>1. current = NoReminder /\ DOMAIN batch = {}
    BY <1>1 DEF DispatchInv, TypeOK
  <2>2. \A s \in scan' : s.id \in Reminder /\ s = [id |-> s.id, at |-> rows[s.id].at]
    BY <1>1
  <2> QED BY <1>1, <2>1, <2>2, ReminderAssumption DEF PassInv
<1>4. Timed'
  BY <1>1 DEF DispatchInv, Timed, hand
<1>5. ASSUME NEW r \in Reminder PROVE Claims(r)' /\ Counted(r)' /\ Separated(r)'
  <2>1. Claims(r) /\ Counted(r) /\ Separated(r) /\ ~Unsent(r)' /\ ~Finished(r)
    BY <1>1 DEF DispatchInv, Unsent, Finished, Finishing
  <2>2. Claims(r)'
    BY <1>1, <2>1, ToldIs DEF Claims, Rested, DispatchInv, TypeOK
  <2> QED BY <1>1, <2>1, <2>2 DEF Counted, Separated
<1> QED BY <1>2, <1>3, <1>4, <1>5 DEF DispatchInv

LEMMA ClaimStep == ASSUME DispatchInv, ClaimRow PROVE DispatchInv'
<1>1. /\ UNCHANGED <<now, told, crashes, stamp, scan, due, hand>>
      /\ phase = "update" /\ phase' = "claim" /\ current' = NoReminder
      /\ current \in Reminder
  BY DEF ClaimRow, DispatchInv, TypeOK
<1>2. CASE ~Claimable(current)
  <2>1. UNCHANGED <<rows, batch>>
    BY <1>2 DEF ClaimRow
  <2>2. TypeOK' /\ PassInv' /\ Timed'
    <3>1. TypeOK'
      BY <1>1, <2>1 DEF DispatchInv, TypeOK, Phase, hand
    <3>2. PassInv'
      BY <1>1, <2>1, ReminderAssumption DEF DispatchInv, PassInv, TypeOK
    <3>3. Timed'
      BY <1>1, <2>1 DEF DispatchInv, Timed, hand
    <3> QED BY <3>1, <3>2, <3>3
  <2>3. \A r \in Reminder : Same(r) /\ (Unsent(r)' => Unsent(r)) /\ ~Finished(r)
    BY <1>1, <2>1 DEF Same, Unsent, Finished, Finishing
  <2>4. now \in Int /\ crashes \in Nat
    BY DEF DispatchInv, TypeOK
  <2> QED BY <1>1, <2>2, <2>3, <2>4, HarmlessKeeps DEF DispatchInv, Harmless
<1>3. CASE Claimable(current)
  <2>1. /\ rows' = [rows EXCEPT ![current].claimed = stamp] /\ batch' = Append(batch, current)
        /\ rows[current].status = "scheduled"
        /\ rows[current].claimed = NoTime \/ rows[current].claimed <= stamp - Lease
    BY <1>1, <1>3 DEF ClaimRow, Claimable
  <2>2. /\ rows \in [Reminder -> Row] /\ rows[current] \in Row /\ stamp \in Int /\ stamp <= now
        /\ batch \in Seq(Reminder) /\ now \in Int /\ Lease \in Nat /\ Lease > 0
        /\ stamp # NoTime
    BY <1>1, PeriodAssumption, TimeAssumption DEF DispatchInv, TypeOK
  <2>3. /\ rows' \in [Reminder -> Row]
        /\ \A r \in Reminder : rows'[r].status = rows[r].status /\ rows'[r].at = rows[r].at
        /\ \A r \in Reminder : r # current => rows'[r] = rows[r]
        /\ rows'[current].claimed = stamp
    BY <1>1, <2>1, <2>2 DEF Row, OptTime
  <2>4. /\ batch' \in Seq(Reminder)
        /\ \A i \in DOMAIN batch' : \/ i \in DOMAIN batch /\ batch'[i] = batch[i]
                                    \/ i = Len(batch) + 1 /\ batch'[i] = current
        /\ \A i \in DOMAIN batch : i # Len(batch) + 1
    BY <1>1, <2>1, <2>2
  <2>5. TypeOK'
    BY <1>1, <2>3, <2>4 DEF DispatchInv, TypeOK, Phase, hand
  <2>6. PassInv'
    <3>1. ASSUME NEW i \in DOMAIN batch', NEW j \in DOMAIN batch', batch'[i] = batch'[j]
          PROVE  i = j
      BY <2>4, <3>1 DEF DispatchInv, PassInv
    <3>2. \A s \in scan' : s.id # current' /\ \A i \in DOMAIN batch' : batch'[i] # s.id
      BY <1>1, <2>4, ReminderAssumption DEF DispatchInv, PassInv, TypeOK
    <3>3. \A i \in DOMAIN batch' : batch'[i] # current'
      BY <1>1, <2>4, ReminderAssumption
    <3> QED BY <1>1, <3>1, <3>2, <3>3 DEF DispatchInv, PassInv
  <2>7. Timed'
    BY <1>1, <2>3 DEF DispatchInv, Timed, TypeOK, hand
  <2>8. ASSUME NEW r \in Reminder, r # current
        PROVE  Claims(r)' /\ Counted(r)' /\ Separated(r)'
    <3>1. Same(r) /\ (Unsent(r)' => Unsent(r)) /\ ~Finished(r)
      BY <1>1, <2>3, <2>4, <2>8 DEF Same, Unsent, Finished, Finishing
    <3>2. now \in Int /\ crashes \in Nat
      BY DEF DispatchInv, TypeOK
    <3> QED BY <1>1, <2>5, <3>1, <3>2, HarmlessKeeps DEF DispatchInv, Harmless
  <2>9. ASSUME NEW r \in Reminder, r = current
        PROVE  Claims(r)' /\ Counted(r)' /\ Separated(r)'
    <3>1. /\ Claims(r) /\ Counted(r) /\ Separated(r) /\ ~Finished(r)
          /\ \A i \in DOMAIN told[r] : told[r][i].stamp \in Int
      BY <1>1, <2>9, ToldIs DEF DispatchInv, Finished, Finishing
    <3>2. Rested(r)
      <4>1. CASE rows[r].claimed = NoTime
        BY <3>1, <4>1 DEF Claims
      <4>2. CASE rows[r].claimed # NoTime
        <5>1. rows[r].claimed \in Int
          BY <2>2, <2>9, <4>2 DEF Row, OptTime
        <5> QED BY <2>1, <2>2, <2>9, <3>1, <4>2, <5>1 DEF Claims, Rested
      <4> QED BY <4>1, <4>2
    <3>3. Claims(r)'
      BY <1>1, <2>2, <2>3, <2>9, <3>1, <3>2 DEF Claims, Rested
    <3>4. Counted(r)' /\ Separated(r)'
      BY <1>1, <2>1, <2>9, <3>1 DEF Counted, Separated
    <3> QED BY <1>1, <3>3, <3>4
  <2> QED BY <1>1, <2>5, <2>6, <2>7, <2>8, <2>9 DEF DispatchInv
<1> QED BY <1>2, <1>3

LEMMA SendStep ==
  ASSUME DispatchInv, NEW arrives \in BOOLEAN, NEW raises \in BOOLEAN, Send(arrives, raises)
  PROVE  DispatchInv'
<1> DEFINE head == Head(batch)
<1>1. /\ UNCHANGED <<rows, now, crashes, stamp, scan, current, batch, due, hand>>
      /\ phase = "send" /\ phase' \in {"mark", "fail"} /\ batch # <<>>
  BY DEF Send, DispatchInv, PassInv
<1>2. /\ head \in Reminder /\ head = batch[1] /\ 1 \in DOMAIN batch
  BY <1>1, TailIs DEF DispatchInv
<1>3. \A r \in Reminder : (Unsent(r)' => Unsent(r)) /\ ~Finished(r)
  BY <1>1 DEF Unsent, Finished, Finishing
<1>4. PassInv' /\ Timed'
  BY <1>1 DEF DispatchInv, PassInv, Timed, hand
<1>5. now \in Int /\ crashes \in Nat /\ stamp \in Int /\ Lease \in Nat /\ stamp # NoTime
  BY PeriodAssumption, TimeAssumption DEF DispatchInv, TypeOK
<1>6. CASE told' = told
  <2>1. TypeOK'
    BY <1>1, <1>6 DEF DispatchInv, TypeOK, Phase, hand
  <2>2. \A r \in Reminder : Same(r)
    BY <1>1, <1>6 DEF Same
  <2> QED BY <1>1, <1>3, <1>4, <1>5, <2>1, <2>2, HarmlessKeeps DEF DispatchInv, Harmless
<1>7. ASSUME rows[head].claimed = stamp,
             told' = [told EXCEPT ![head] = Append(@, [time |-> now, stamp |-> stamp])]
      PROVE  DispatchInv'
  <2>1. /\ told[head] \in Seq(Delivery) /\ [time |-> now, stamp |-> stamp] \in Delivery
        /\ told \in [Reminder -> Seq(Delivery)]
        /\ \A i \in DOMAIN told[head] : told[head][i].stamp \in Int
    BY <1>2, <1>5, ToldIs DEF Delivery, DispatchInv, TypeOK
  <2>2. /\ told' \in [Reminder -> Seq(Delivery)]
        /\ told'[head] = Append(told[head], [time |-> now, stamp |-> stamp])
        /\ \A r \in Reminder : r # head => told'[r] = told[r]
    BY <1>2, <1>7, <2>1
  <2>3. /\ Len(told'[head]) = Len(told[head]) + 1
        /\ \A i \in DOMAIN told'[head] :
             \/ i \in DOMAIN told[head] /\ told'[head][i] = told[head][i]
             \/ i = Len(told[head]) + 1 /\ told'[head][i] = [time |-> now, stamp |-> stamp]
        /\ DOMAIN told[head] = 1 .. Len(told[head]) /\ Len(told[head]) \in Nat
    BY <2>1, <2>2
  <2>4. TypeOK'
    BY <1>1, <2>2 DEF DispatchInv, TypeOK, Phase, hand
  <2>5. ASSUME NEW r \in Reminder, r # head
        PROVE  Claims(r)' /\ Counted(r)' /\ Separated(r)'
    <3>1. Same(r)
      BY <1>1, <2>2, <2>5 DEF Same
    <3> QED BY <1>1, <1>3, <1>5, <2>4, <3>1, HarmlessKeeps DEF DispatchInv, Harmless
  <2>6. ASSUME NEW r \in Reminder, r = head
        PROVE  Claims(r)' /\ Counted(r)' /\ Separated(r)'
    <3>1. Unsent(r) /\ ~Unsent(r)' /\ Finished(r)'
      <4>1. Unsent(r)
        BY <2>6, <1>1, <1>2 DEF Unsent, Finishing
      <4>2. \A i \in DOMAIN batch : batch[i] = r => i = 1
        BY <2>6, <1>2 DEF DispatchInv, PassInv
      <4>3. Finishing' /\ batch' = batch
        BY <2>6, <1>1 DEF Finishing
      <4> QED BY <2>6, <1>2, <4>1, <4>2, <4>3 DEF Unsent, Finished
    <3>2. Rested(r) /\ Len(told[r]) <= crashes /\ Claims(r) /\ Separated(r)
      BY <2>6, <1>2, <1>7, <3>1 DEF DispatchInv, Claims, Counted
    <3>3. Claims(r)'
      <4>1. rows'[r].claimed = stamp
        BY <2>6, <1>1, <1>7
      <4>2. \A i \in DOMAIN told'[r] : told'[r][i].stamp <= stamp
        BY <2>6, <1>5, <2>3, <3>2 DEF Claims
      <4> QED BY <2>6, <1>1, <1>5, <3>1, <4>1, <4>2 DEF Claims
    <3>4. Counted(r)'
      BY <3>1 DEF Counted
    <3>5. Separated(r)'
      <4>1. Len(told'[r]) <= 1 + crashes'
        BY <2>6, <1>1, <1>5, <2>3, <3>2
      <4>2. ASSUME NEW i \in DOMAIN told'[r], NEW j \in DOMAIN told'[r], i < j
            PROVE  told'[r][j].time - told'[r][i].stamp >= Lease
        <5>1. i \in DOMAIN told[r] /\ told'[r][i] = told[r][i]
          BY <2>6, <2>3, <4>2
        <5>2. CASE j \in DOMAIN told[r] /\ told'[r][j] = told[r][j]
          BY <3>2, <4>2, <5>1, <5>2 DEF Separated
        <5>3. CASE told'[r][j] = [time |-> now, stamp |-> stamp]
          <6>1. told[r][i].stamp + Lease <= now /\ told[r][i].stamp \in Int
            BY <2>6, <2>1, <3>2, <5>1 DEF Rested
          <6> QED BY <2>6, <1>5, <5>1, <5>3, <6>1
        <5> QED BY <2>6, <2>3, <5>2, <5>3
      <4> QED BY <4>1, <4>2 DEF Separated
    <3> QED BY <3>3, <3>4, <3>5
  <2> QED BY <1>1, <1>4, <2>4, <2>5, <2>6 DEF DispatchInv
<1> QED BY <1>6, <1>7 DEF Send

\* The loop ends, by an exception or with the process, and loses claims that were
\* not committed.
LEMMA LoopEnds ==
  ASSUME DispatchInv, NEW lost \in SUBSET Reminder, LoseClaims(lost),
         UNCHANGED <<now, told, stamp, asked, log, undone, writes>>,
         scan' = {}, current' = NoReminder, batch' = <<>>, due' = NoTime,
         before' \in {before, NoReminder}, answer' \in {answer, NoReminder},
         \/ phase' = "idle" /\ crashes' = crashes + 1
         \/ phase' = "ended" /\ crashes' = crashes
  PROVE  DispatchInv'
<1>1. /\ rows' = [r \in Reminder |-> IF r \in lost THEN [rows[r] EXCEPT !.claimed = NoTime]
                                     ELSE rows[r]]
      /\ \A r \in lost : /\ phase \in {"claim", "update"} /\ rows[r].claimed = stamp
                         /\ \E i \in DOMAIN batch : batch[i] = r
  BY DEF LoseClaims, Uncommitted
<1>2. /\ now \in Int /\ stamp \in Int /\ crashes \in Nat /\ Lease \in Nat
      /\ \A r \in Reminder : rows[r] \in Row
  BY PeriodAssumption DEF DispatchInv, TypeOK
<1>3. /\ rows' \in [Reminder -> Row]
      /\ \A r \in Reminder : rows'[r].status = rows[r].status /\ rows'[r].at = rows[r].at
      /\ \A r \in Reminder :
           rows'[r].claimed = IF r \in lost THEN NoTime ELSE rows[r].claimed
  BY <1>1, <1>2 DEF Row, OptTime
<1>4. TypeOK'
  <2>1. batch' \in Seq(Reminder)
    BY <1>1
  <2> QED BY <1>1, <1>2, <1>3, <2>1 DEF DispatchInv, TypeOK, Phase, OptTime
<1>5. PassInv'
  <2>1. \A i \in DOMAIN batch' : FALSE
    BY <1>1
  <2> QED BY <1>1, <2>1 DEF PassInv
<1>6. Timed'
  BY <1>1, <1>3 DEF DispatchInv, Timed, TypeOK
<1>7. ASSUME NEW r \in Reminder PROVE Claims(r)' /\ Counted(r)' /\ Separated(r)'
  <2>1. /\ Claims(r) /\ Counted(r) /\ Separated(r) /\ Len(told[r]) \in Nat
        /\ \A i \in DOMAIN told[r] : told[r][i].stamp \in Int /\ told[r][i].time \in Int
    BY ToldIs DEF DispatchInv
  <2>2. ~Unsent(r)' /\ ~Finished(r)'
    <3>1. \A i \in DOMAIN batch' : FALSE
      BY <1>1
    <3> QED BY <1>1, <3>1 DEF Unsent, Finished, Finishing
  <2>3. rows'[r].claimed = NoTime => Rested(r)
    <3>1. CASE r \in lost
      <4>1. Unsent(r) /\ rows[r].claimed = stamp
        BY <1>1, <3>1 DEF Unsent, Finishing
      <4> QED BY <2>1, <4>1 DEF Claims
    <3>2. CASE r \notin lost
      BY <1>3, <2>1, <3>2 DEF Claims
    <3> QED BY <3>1, <3>2
  <2>4. Claims(r)'
    BY <1>1, <1>2, <1>3, <2>1, <2>2, <2>3 DEF Claims, Rested
  <2>5. Counted(r)' /\ Separated(r)'
    BY <1>1, <1>2, <2>1, <2>2 DEF Counted, Separated
  <2> QED BY <2>4, <2>5
<1> QED BY <1>4, <1>5, <1>6, <1>7 DEF DispatchInv

LEMMA CrashStep ==
  ASSUME DispatchInv, NEW lost \in SUBSET Reminder, Crash(lost) \/ ClaimRaises(lost)
  PROVE  DispatchInv'
BY LoopEnds DEF Crash, ClaimRaises, EndLoop, hand

\* A step that leaves the loop where it is, and harms nothing, keeps it all.
LEMMA LoopUnchanged ==
  ASSUME DispatchInv, Kept, UNCHANGED <<crashes, loop>>, now <= now'
  PROVE  DispatchInv'
<1>1. PassInv'
  BY DEF DispatchInv, PassInv, loop
<1>2. \A r \in Reminder : (Unsent(r)' => Unsent(r)) /\ (Finished(r) => Finished(r)')
  BY DEF Unsent, Finished, Finishing, loop
<1>3. stamp' = stamp /\ crashes \in Nat /\ crashes' = crashes /\ phase' = phase
  BY DEF loop, DispatchInv, TypeOK
<1> QED BY <1>1, <1>2, <1>3, HarmlessKeeps DEF DispatchInv, Kept

\* Initially there is nothing to deliver.
LEMMA InitInv == Init => DispatchInv
<1> SUFFICES ASSUME Init PROVE DispatchInv
  OBVIOUS
<1>1. \A r \in Reminder : told[r] = <<>> /\ rows[r].status = "absent"
  BY DEF Init
<1>2. TypeOK
  <2>1. told \in [Reminder -> Seq(Delivery)] /\ rows \in [Reminder -> Row]
    BY DEF Init, Row, Status, OptTime
  <2> QED BY <2>1 DEF Init, TypeOK, Phase, OptTime
<1>3. PassInv /\ Timed
  <2>1. \A i \in DOMAIN <<>> : FALSE
    OBVIOUS
  <2> QED BY <2>1 DEF Init, PassInv, Timed
<1>4. ASSUME NEW r \in Reminder PROVE Claims(r) /\ Counted(r) /\ Separated(r)
  <2>1. Len(<<>>) = 0 /\ \A i \in DOMAIN <<>> : FALSE
    OBVIOUS
  <2>2. ~Unsent(r)
    BY DEF Init, Unsent
  <2>3. Claims(r)
    BY <1>1, <2>1 DEF Claims, Rested
  <2>4. Counted(r)
    BY <1>1, <2>2 DEF Counted
  <2>5. Separated(r)
    BY <1>1, <2>1 DEF Init, Separated
  <2> QED BY <2>3, <2>4, <2>5
<1> QED BY <1>2, <1>3, <1>4 DEF DispatchInv

\* Every step preserves the invariant.
LEMMA StepInv == DispatchInv /\ [Next]_vars => DispatchInv'
<1> SUFFICES ASSUME DispatchInv, [Next]_vars PROVE DispatchInv'
  OBVIOUS
<1>0. now \in Int /\ crashes \in Nat
  BY DEF DispatchInv, TypeOK
<1>1. CASE Scan
  BY <1>1, ScanStep
<1>2. CASE ClaimRow
  BY <1>2, ClaimStep
<1>3. CASE \E arrives, raises \in BOOLEAN : Send(arrives, raises)
  BY <1>3, SendStep
<1>4. CASE \/ \E item \in scan : ReadRow(item)
           \/ CommitClaims \/ MarkRead \/ MarkWrite
           \/ \E written \in BOOLEAN : MarkRaises(written)
           \/ MarkFailed
           \/ \E written \in BOOLEAN : MarkFailedRaises(written)
  <2>1. Silent
    BY <1>4, SilentSteps DEF DispatchInv
  <2> QED BY <1>0, <2>1, HarmlessKeeps DEF DispatchInv, Silent
<1>5. CASE Owner
  <2>1. Kept /\ UNCHANGED <<now, crashes, loop>>
    BY <1>5, OwnerSteps DEF DispatchInv
  <2> QED BY <1>0, <2>1, LoopUnchanged
<1>6. CASE Tick
  <2>1. UNCHANGED <<rows, told, crashes, loop, hand>> /\ now' = now + 1
    BY <1>6 DEF Tick
  <2>2. Kept
    <3>1. TypeOK'
      BY <1>0, <2>1 DEF DispatchInv, TypeOK, loop, hand
    <3>2. Timed'
      BY <2>1 DEF DispatchInv, Timed, hand
    <3> QED BY <2>1, <3>1, <3>2 DEF Kept, Harmless, Same
  <2> QED BY <1>0, <2>1, <2>2, LoopUnchanged
<1>7. CASE \E lost \in SUBSET Reminder : Crash(lost) \/ ClaimRaises(lost)
  BY <1>7, CrashStep
<1>8. CASE UNCHANGED vars
  <2>1. UNCHANGED <<rows, now, told, crashes, loop, hand>>
    BY <1>8 DEF vars
  <2>2. Kept
    <3>1. TypeOK'
      BY <2>1 DEF DispatchInv, TypeOK, loop, hand
    <3>2. Timed'
      BY <2>1 DEF DispatchInv, Timed, hand
    <3> QED BY <2>1, <3>1, <3>2 DEF Kept, Harmless, Same
  <2> QED BY <1>0, <2>1, <2>2, LoopUnchanged
<1> QED BY <1>1, <1>2, <1>3, <1>4, <1>5, <1>6, <1>7, <1>8 DEF Next, Dispatch, LoopRaises

-----------------------------------------------------------------------------

\* However the loop, the owner's writes and restarts interleave, a row that may
\* still be sent has rested a lease since its deliveries, and was delivered at
\* most once for each restart.
THEOREM DispatchInvariant == Spec => []DispatchInv
BY InitInv, StepInv, PTL DEF Spec

\* Every reachable state of the table, the loop and the undo log is well typed.
THEOREM TypeCorrect == Spec => []TypeOK
<1>1. DispatchInv => TypeOK
  BY DEF DispatchInv
<1> QED BY DispatchInvariant, <1>1, PTL

\* send_due_reminders delivers a schedule once, and once more for each restart
\* at most.
THEOREM DeliveredOnce == Spec => []OnePerSchedule
<1>1. DispatchInv => OnePerSchedule
  BY DEF DispatchInv, Separated, OnePerSchedule
<1> QED BY DispatchInvariant, <1>1, PTL

\* Whatever claim_due read before, two deliveries of one schedule are at least
\* a lease apart.
THEOREM LeaseHolds == Spec => []LeaseSeparates
<1>1. DispatchInv => LeaseSeparates
  BY DEF DispatchInv, Separated, LeaseSeparates
<1> QED BY DispatchInvariant, <1>1, PTL
=============================================================================
