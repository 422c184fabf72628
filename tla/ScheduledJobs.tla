--------------------------- MODULE ScheduledJobs ---------------------------
(***************************************************************************)
(* The loops of app.py that write to the owner unasked: the morning        *)
(* briefing, the weekly review and the nudges about what is late.  They    *)
(* run while the process does (Startup).  Each looks for the event of what *)
(* it sent before, sends, and appends the event: three awaits, with the    *)
(* owner's handlers, a crash or an error possible between any two.         *)
(*                                                                         *)
(* Time is in hours. A round of a loop works with the time it began at     *)
(* (now); "told" and "cut" are histories of what reached the owner.        *)
(***************************************************************************)
EXTENDS Startup, FiniteSets

CONSTANTS Daily,        \* the loops that send once a day
          Items,        \* tasks and follow-ups a nudge can be about
          DayLen,       \* hours of a day
          SendHour,     \* morning_briefing_time, weekly_review_time
          SendDays(_),  \* the days on which a loop of Daily sends
          QuietStart, QuietEnd,
          Cooldown,     \* proactive_nudge_cooldown_hours
          Late(_),      \* the hour from which an item is late
          End,          \* bound on the time
          MaxErrors     \* bound on the sends and statements that fail

ASSUME TimesAssumption ==
  /\ DayLen \in Nat \ {0} /\ End \in Nat /\ Cooldown \in Nat /\ MaxErrors \in Nat
  /\ SendHour \in 0 .. DayLen - 1
  /\ QuietStart \in 0 .. DayLen - 1 /\ QuietEnd \in 0 .. DayLen - 1
  /\ "nudge" \notin Daily /\ Daily \cap Items = {}

VARIABLES now,
          loops,   \* per loop: its state between two awaits
          events,  \* BRIEFING_SENT, WEEKLY_REVIEW_SENT, NUDGE_SENT
          open,    \* the items that are not done
          told,    \* per daily loop and day: messages that arrived
          cut,     \* per daily loop and day: those that were not recorded
          errors

jobVars == <<now, loops, events, open, told, cut, errors>>
vars == <<startVars, jobVars>>

Loops == Daily \cup {"nudge"}
Times == 0 .. End
Days == 0 .. End \div DayLen
Day(t) == t \div DayLen
Hour(t) == t % DayLen

Subjects == Daily \cup Items     \* entity of an event: the chat, or an item
Event == [about : Subjects, at : Times]

\* asleep between two rounds; sending, then appending the event about
\* "about"; dead once an exception has left the loop. "at" is the time the
\* round began, "todo" what it has still to nudge about.
State(pc, from, about, todo) ==
  [pc |-> pc, from |-> from, about |-> about, todo |-> todo]
Nothing == "nothing"
Asleep == State("asleep", 0, Nothing, {})
Dead == State("dead", 0, Nothing, {})
Pcs == {"asleep", "ready", "sending", "append", "dead"}

Init == /\ StartInit
        /\ now = 0
        /\ loops = [l \in Loops |-> Dead]
        /\ events = {}
        /\ open = Items
        /\ told = [l \in Daily |-> [d \in Days |-> 0]]
        /\ cut = [l \in Daily |-> [d \in Days |-> 0]]
        /\ errors = 0

\* EventLogRepository.exists_recent
ExistsRecent(about, since) ==
  \E e \in events : e.about = about /\ e.at >= since

\* Faulty variant: no thought of midnight.
InQuietHoursSameDay(hour) == QuietStart <= hour /\ hour < QuietEnd

\* Between is the part of the day from start to end, around midnight if the
\* end is the earlier one.
InQuietHours(hour) ==
  IF QuietStart <= QuietEnd THEN QuietStart <= hour /\ hour < QuietEnd
                            ELSE hour >= QuietStart \/ hour < QuietEnd

\* The process is up: the loops are created, asleep.
StartStep ==
  /\ Starting
  /\ loops' = IF process' = "running" THEN [l \in Loops |-> Asleep] ELSE loops
  /\ UNCHANGED <<now, events, open, told, cut, errors>>

\* A message arrived and its event will never be stored.
CutOff(l) ==
  IF l \in Daily /\ loops[l].pc = "append"
  THEN [cut[l] EXCEPT ![Day(loops[l].from)] = @ + 1] ELSE cut[l]

Crash ==
  /\ Kill
  /\ cut' = [l \in Daily |-> CutOff(l)]
  /\ loops' = [l \in Loops |-> Dead]
  /\ UNCHANGED <<now, events, open, told, errors>>

Tick ==
  /\ now < End
  /\ now' = now + 1
  /\ UNCHANGED <<startVars, loops, events, open, told, cut, errors>>

\* A handler completes an item.
Close(i) ==
  /\ process = "running"
  /\ i \in open
  /\ open' = open \ {i}
  /\ UNCHANGED <<startVars, now, loops, events, told, cut, errors>>

-----------------------------------------------------------------------------
\* send_due_morning_briefings and send_due_weekly_reviews: on the day, from
\* the hour on, unless there is an event of today.
DayStart(t) == Day(t) * DayLen
\* Faulty variant: the last day's length instead of the start of the day.
DueByAge(l) == /\ Day(now) \in SendDays(l)
               /\ Hour(now) >= SendHour
               /\ ~\E e \in events : e.about = l /\ e.at + SendHour > now

Due(l) == /\ Day(now) \in SendDays(l)
          /\ Hour(now) >= SendHour
          /\ ~ExistsRecent(l, DayStart(now))

Look(l) ==
  /\ l \in Daily
  /\ loops[l].pc = "asleep"
  /\ Due(l)
  /\ loops' = [loops EXCEPT ![l] = State("sending", now, l, {})]
  /\ UNCHANGED <<startVars, now, events, open, told, cut, errors>>

\* send_due_nudges: the late items are listed once, at the start of a round.
Round ==
  /\ loops["nudge"].pc = "asleep"
  /\ ~InQuietHours(Hour(now))
  /\ LET late == {i \in open : Late(i) < now} IN
     /\ late # {}
     /\ loops' = [loops EXCEPT !["nudge"] = State("ready", now, Nothing, late)]
  /\ UNCHANGED <<startVars, now, events, open, told, cut, errors>>

\* The next item of the round, unless it was nudged about within the
\* cooldown.
Recent(i) == ExistsRecent(i, IF loops["nudge"].from >= Cooldown
                             THEN loops["nudge"].from - Cooldown ELSE 0)

Nudge(i) ==
  LET l == loops["nudge"] IN
  /\ l.pc = "ready"
  /\ i \in l.todo
  /\ loops' = [loops EXCEPT !["nudge"] =
                 IF Recent(i) THEN [l EXCEPT !.todo = @ \ {i}]
                 ELSE State("sending", l.from, i, l.todo \ {i})]
  /\ UNCHANGED <<startVars, now, events, open, told, cut, errors>>

RoundDone ==
  /\ loops["nudge"].pc = "ready"
  /\ loops["nudge"].todo = {}
  /\ loops' = [loops EXCEPT !["nudge"] = Asleep]
  /\ UNCHANGED <<startVars, now, events, open, told, cut, errors>>

\* What a loop does next.
Onwards(l) == IF l = "nudge" THEN [loops[l] EXCEPT !.pc = "ready", !.about = Nothing]
              ELSE Asleep

\* bot.send_message: it may arrive although it raises; then no event is
\* appended, and a daily loop tries again at its next round.
Send(l, arrives, raises) ==
  /\ loops[l].pc = "sending"
  /\ raises => errors < MaxErrors
  /\ ~raises => arrives
  /\ errors' = IF raises THEN errors + 1 ELSE errors
  /\ loops' = [loops EXCEPT ![l] = IF raises THEN Onwards(l)
                                   ELSE [@ EXCEPT !.pc = "append"]]
  /\ LET d == Day(loops[l].from) IN
     /\ told' = IF arrives /\ l \in Daily THEN [told EXCEPT ![l][d] = @ + 1] ELSE told
     /\ cut' = IF arrives /\ raises /\ l \in Daily
               THEN [cut EXCEPT ![l][d] = @ + 1] ELSE cut
  /\ UNCHANGED <<startVars, now, events, open>>

\* Faulty variant: the time at which the event is stored.
AppendEventNow(l) ==
  /\ loops[l].pc = "append"
  /\ events' = events \cup {[about |-> loops[l].about, at |-> now]}
  /\ loops' = [loops EXCEPT ![l] = Onwards(l)]
  /\ UNCHANGED <<startVars, now, open, told, cut, errors>>

\* append_event, at the time the round began.
AppendEvent(l) ==
  /\ loops[l].pc = "append"
  /\ events' = events \cup {[about |-> loops[l].about, at |-> loops[l].from]}
  /\ loops' = [loops EXCEPT ![l] = Onwards(l)]
  /\ UNCHANGED <<startVars, now, open, told, cut, errors>>

\* A statement outside the try raises (a locked database): the exception ends
\* the loop until the process is started again.
StatementRaises(l) ==
  /\ loops[l].pc \in {"asleep", "ready", "append"}
  /\ errors < MaxErrors
  /\ errors' = errors + 1
  /\ cut' = IF l \in Daily THEN [cut EXCEPT ![l] = CutOff(l)] ELSE cut
  /\ loops' = [loops EXCEPT ![l] = Dead]
  /\ UNCHANGED <<startVars, now, events, open, told>>

LoopStep(l) == \/ Look(l)
               \/ \E arrives, raises \in BOOLEAN : Send(l, arrives, raises)
               \/ AppendEvent(l)
NudgeStep == Round \/ RoundDone \/ \E i \in Items : Nudge(i)

Next == \/ StartStep \/ Crash \/ Tick \/ NudgeStep
        \/ \E i \in Items : Close(i)
        \/ \E l \in Loops : LoopStep(l) \/ StatementRaises(l)

Spec == Init /\ [][Next]_vars

\* PM2 starts the process again unless it has given up, and initialize runs on.
FairSpec == Spec /\ WF_vars(StartStep)

-----------------------------------------------------------------------------
\* Every variable has its type.
TypeOK == /\ StartTypeOK
          /\ now \in Times
          /\ loops \in [Loops -> [pc : Pcs, from : Times,
                                  about : Subjects \cup {Nothing},
                                  todo : SUBSET Items]]
          /\ events \in SUBSET Event
          /\ open \in SUBSET Items
          /\ told \in [Daily -> [Days -> Nat]]
          /\ cut \in [Daily -> [Days -> Nat]]
          /\ errors \in 0 .. MaxErrors

\* A briefing or a review arrives once a day, and once more for each one that
\* arrived and could not be recorded (a send that raised, a crash, a failing
\* append_event).
OncePerDay ==
  \A l \in Daily, d \in Days : told[l][d] <= 1 + cut[l][d]

\* A day is never taken as served by a message of another day: each event
\* stands for a message of its own day that arrived.
RecordIsTrue ==
  \A e \in events : e.about \in Daily => told[e.about][Day(e.at)] > cut[e.about][Day(e.at)]

\* Nudges are recorded for rounds that began outside the quiet hours (the
\* hours passed when walking from their start to their end around the clock),
\* those about one item more than the cooldown apart.
QuietHours == {h \in 0 .. DayLen - 1 :
                 (h + DayLen - QuietStart) % DayLen
                   < (QuietEnd + DayLen - QuietStart) % DayLen}
NudgesSpaced ==
  \A e \in events : e.about \in Items =>
    /\ Hour(e.at) \notin QuietHours
    /\ \A f \in events : f.about = e.about /\ e.at < f.at =>
                            f.at - e.at > Cooldown
=============================================================================
