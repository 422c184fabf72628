------------------------ MODULE ScheduledJobsProofs ------------------------
(***************************************************************************)
(* Proofs about the start of the process and the loops that write unasked, *)
(* for any migrations, loops, items, hours and bounds.                     *)
(***************************************************************************)
EXTENDS ScheduledJobs, TLAPS

-----------------------------------------------------------------------------
(* The start.                                                              *)

\* A start has recorded every migration before the one it is at, and what it
\* has run of that one has taken effect.
StartInv ==
  /\ StartTypeOK
  /\ LedgerTrue
  /\ process = "starting" =>
       /\ \A k \in Migrations : k < at => k \in ledger \cup pending
       /\ at \in Migrations => step <= done[at]

LEMMA ScriptsAre ==
  /\ Len(Scripts) \in Nat
  /\ \A k \in Migrations : k \in Nat /\ Len(Scripts[k]) \in Nat \ {0}
<1>1. Len(Scripts) \in Nat
  BY ScriptsAssumption
<1>2. ASSUME NEW k \in Migrations PROVE k \in Nat /\ Len(Scripts[k]) \in Nat \ {0}
  <2>1. Scripts[k] \in Seq(BOOLEAN) /\ Scripts[k] # <<>>
    BY ScriptsAssumption DEF Migrations
  <2>2. k \in Nat
    BY <1>1 DEF Migrations
  <2> QED BY <2>1, <2>2
<1> QED BY <1>1, <1>2

LEMMA StartInitInv == StartInit => StartInv
<1> SUFFICES ASSUME StartInit PROVE StartInv
  OBVIOUS
<1>1. /\ 0 \in 0 .. MaxCrashes /\ 1 \in 1 .. Len(Scripts) + 1
      /\ 0 \in 0 .. MaxRestarts /\ 0 # MaxRestarts
  BY CrashesAssumption, ScriptsAre
<1> QED BY <1>1, ScriptsAre DEF StartInit, StartInv, StartTypeOK, LedgerTrue, Applied

\* The steps that leave "done" alone and lose or commit what is pending.
LEMMA LedgerStays ==
  ASSUME StartInv, done' = done, ledger' \cup pending' \subseteq ledger \cup pending,
         process' # "running"
  PROVE  LedgerTrue'
BY DEF StartInv, LedgerTrue, Applied

LEMMA RunStatementInv ==
  ASSUME StartInv, RunStatement PROVE StartInv'
<1> DEFINE n == Len(Scripts[at])
<1>1. /\ process = "starting" /\ at \in Migrations /\ step < n /\ step \in Nat /\ n \in Nat
      /\ done \in [Migrations -> Nat] /\ done[at] \in Nat /\ done[at] <= n
      /\ \A k \in Migrations : k \in Nat /\ Len(Scripts[k]) \in Nat /\ done[k] <= Len(Scripts[k])
  BY ScriptsAre DEF RunStatement, StartInv, StartTypeOK
<1>2. /\ done' = [done EXCEPT ![at] = IF step + 1 > @ THEN step + 1 ELSE @]
      /\ step' = step + 1 /\ ledger' = ledger \cup pending /\ pending' = {}
      /\ UNCHANGED <<process, restarts, at, crashes>>
  BY DEF RunStatement
<1> HIDE DEF n
<1>3. /\ done'[at] \in Nat /\ done'[at] <= n /\ done'[at] >= step + 1
      /\ done[at] = n => done'[at] = n
      /\ \A k \in Migrations : k # at => done'[k] = done[k]
  BY <1>1, <1>2
<1>4. done' \in [Migrations -> Nat]
  BY <1>1, <1>2
<1>5. \A k \in Migrations : Applied(k) => Applied(k)'
  BY <1>3 DEF Applied, n
<1>6. \A j \in Migrations : j < at => Applied(j)
  BY <1>1 DEF StartInv, LedgerTrue
<1>7. ASSUME NEW k \in Migrations, done'[k] > 0, NEW j \in Migrations, j < k
      PROVE  Applied(j)'
  <2>1. CASE k = at
    BY <2>1, <1>5, <1>6, <1>7
  <2>2. CASE k # at
    BY <2>2, <1>3, <1>5, <1>7 DEF StartInv, LedgerTrue
  <2> QED BY <2>1, <2>2
<1>8. LedgerTrue'
  BY <1>1, <1>2, <1>5, <1>7 DEF StartInv, LedgerTrue
<1>9. StartTypeOK'
  BY <1>1, <1>2, <1>3, <1>4 DEF StartInv, StartTypeOK, n
<1> QED BY <1>1, <1>2, <1>3, <1>8, <1>9 DEF StartInv

LEMMA EndedIs ==
  ASSUME StartInv, Ended, process # "errored"
  PROVE  /\ process' \in {"down", "errored"}
         /\ restarts' \in 0 .. MaxRestarts
         /\ process' = "errored" <=> restarts' = MaxRestarts
<1>1. restarts \in 0 .. MaxRestarts /\ restarts # MaxRestarts /\ MaxRestarts \in Nat \ {0}
  BY CrashesAssumption DEF StartInv, StartTypeOK
<1>2. restarts + 1 \in 0 .. MaxRestarts /\ 0 \in 0 .. MaxRestarts
  BY <1>1
<1> QED BY <1>1, <1>2 DEF Ended

LEMMA StartingInv ==
  ASSUME StartInv, Starting \/ Kill PROVE StartInv'
<1>0. /\ \A k \in Migrations : k \in Nat /\ Len(Scripts[k]) \in Nat \ {0}
      /\ Len(Scripts) \in Nat /\ at \in 1 .. Len(Scripts) + 1
  BY ScriptsAre DEF StartInv, StartTypeOK
<1>1. CASE Begin
  <2>1. LedgerTrue'
    BY <1>1, LedgerStays DEF Begin
  <2>2. StartTypeOK'
    BY <1>0, <1>1 DEF StartInv, StartTypeOK, Begin
  <2>3. \A k \in Migrations : ~(k < 1)
    BY <1>0 DEF Migrations
  <2>4. \A k \in Migrations : done[k] >= 0
    BY DEF StartInv, StartTypeOK
  <2> QED BY <1>1, <2>1, <2>2, <2>3, <2>4 DEF StartInv, Begin
<1>2. CASE Skip \/ Record
  <2>1. /\ process = "starting" /\ at \in Migrations /\ at' = at + 1 /\ step' = 0
        /\ UNCHANGED <<process, restarts, done, ledger, crashes>>
        /\ pending' \in {pending, pending \cup {at}} /\ at \in ledger' \cup pending'
        /\ at \in ledger \cup pending \/ step = Len(Scripts[at])
    BY <1>2 DEF Skip, Record, Recorded
  <2>2. Applied(at)
    BY <2>1, <1>0 DEF StartInv, StartTypeOK, LedgerTrue, Applied
  <2>3. LedgerTrue'
    BY <2>1, <2>2 DEF StartInv, LedgerTrue, Applied
  <2>4. StartTypeOK'
    BY <2>1, <1>0 DEF StartInv, StartTypeOK, Migrations
  <2>5. \A k \in Migrations : k < at' => k \in ledger' \cup pending'
    <3>1. \A k \in Migrations : k < at + 1 => k < at \/ k = at
      BY <1>0
    <3> QED BY <2>1, <3>1 DEF StartInv
  <2>6. at' \in Migrations => step' <= done'[at']
    BY <2>1, <2>4 DEF StartTypeOK
  <2> QED BY <2>3, <2>4, <2>5, <2>6 DEF StartInv
<1>3. CASE RunStatement
  BY <1>3, RunStatementInv
<1>4. CASE Refused
  <2>1. Ended /\ process # "errored"
    BY <1>4 DEF Refused
  <2>2. LedgerTrue'
    BY <1>4, <2>1, EndedIs, LedgerStays DEF Refused
  <2> QED BY <1>4, <2>1, <2>2, EndedIs DEF StartInv, StartTypeOK, Refused
<1>5. CASE Serve
  <2>1. ledger' = Migrations /\ pending' = {}
    <3>1. \A k \in Migrations : k < at
      BY <1>0, <1>5 DEF Serve, Migrations
    <3>2. \A k \in Migrations : k \in ledger \cup pending
      BY <1>5, <3>1 DEF Serve, StartInv
    <3>3. ledger \subseteq Migrations /\ pending \subseteq Migrations
      BY DEF StartInv, StartTypeOK
    <3> QED BY <1>5, <3>2, <3>3 DEF Serve
  <2>2. LedgerTrue'
    <3>1. ledger \cup pending = Migrations
      BY <1>5, <2>1 DEF Serve
    <3> QED BY <1>5, <2>1, <3>1 DEF Serve, StartInv, LedgerTrue, Applied
  <2> QED BY <1>5, <2>1, <2>2 DEF StartInv, StartTypeOK, Serve
<1>6. CASE Kill
  <2>1. Ended /\ process # "errored"
    BY <1>6 DEF Kill
  <2>2. LedgerTrue'
    BY <1>6, <2>1, EndedIs, LedgerStays DEF Kill
  <2>3. crashes' \in 0 .. MaxCrashes
    BY <1>6, CrashesAssumption DEF Kill, StartInv, StartTypeOK
  <2> QED BY <1>6, <2>1, <2>2, <2>3, EndedIs DEF StartInv, StartTypeOK, Kill
<1> QED BY <1>1, <1>2, <1>3, <1>4, <1>5, <1>6 DEF Starting

LEMMA StartUnchanged ==
  ASSUME StartInv, UNCHANGED startVars PROVE StartInv'
BY DEF startVars, StartInv, StartTypeOK, LedgerTrue, Applied

-----------------------------------------------------------------------------
(* Hours and days.                                                         *)

LEMMA DayIs ==
  ASSUME NEW t \in Times
  PROVE  Day(t) \in Days /\ Hour(t) \in 0 .. DayLen - 1 /\ t >= DayStart(t)
<1>1. /\ DayLen \in Nat \ {0} /\ End \in Nat /\ t \in Nat /\ t <= End
  BY TimesAssumption DEF Times
<1>2. t \div DayLen \in Nat /\ End \div DayLen \in Nat /\ t \div DayLen <= End \div DayLen
  BY <1>1
<1>3. t >= (t \div DayLen) * DayLen
  BY <1>1
<1>4. t % DayLen \in 0 .. DayLen - 1
  BY <1>1
<1> QED BY <1>2, <1>3, <1>4 DEF Day, Days, Hour, DayStart

\* The two ways of saying that an hour is between two others around the clock.
THEOREM QuietIs ==
  ASSUME NEW h \in 0 .. DayLen - 1 PROVE h \in QuietHours <=> InQuietHours(h)
<1>1. /\ DayLen \in Nat \ {0} /\ QuietStart \in 0 .. DayLen - 1 /\ QuietEnd \in 0 .. DayLen - 1
  BY TimesAssumption
<1>2. ASSUME NEW x \in 0 .. DayLen - 1
      PROVE  (x + DayLen - QuietStart) % DayLen =
               IF x >= QuietStart THEN x - QuietStart ELSE x + DayLen - QuietStart
  <2>1. CASE x >= QuietStart
    <3>1. x - QuietStart \in 0 .. DayLen - 1 /\ x + DayLen - QuietStart = (x - QuietStart) + DayLen
      BY <1>1, <2>1
    <3>2. \A y \in 0 .. DayLen - 1 : (y + DayLen) % DayLen = y
      BY <1>1
    <3> QED BY <2>1, <3>1, <3>2
  <2>2. CASE ~(x >= QuietStart)
    <3>1. x + DayLen - QuietStart \in 0 .. DayLen - 1
      BY <1>1, <2>2
    <3>2. \A y \in 0 .. DayLen - 1 : y % DayLen = y
      BY <1>1
    <3> QED BY <2>2, <3>1, <3>2
  <2> QED BY <2>1, <2>2
<1>3. h \in QuietHours <=>
        (h + DayLen - QuietStart) % DayLen < (QuietEnd + DayLen - QuietStart) % DayLen
  BY DEF QuietHours
<1> QED BY <1>1, <1>2, <1>3 DEF InQuietHours

-----------------------------------------------------------------------------
(* The loops.                                                              *)

\* The loops exist only while the process serves.
DeadInv == process # "running" => \A l \in Loops : loops[l] = Dead

\* There is an event of the day; a message of the day is on its way; it has
\* arrived and its event is due.
Served(l, d) == \E e \in events : e.about = l /\ Day(e.at) = d
AtWork(l, d) == loops[l].pc \in {"sending", "append"} /\ Day(loops[l].from) = d
Arrived(l, d) == loops[l].pc = "append" /\ Day(loops[l].from) = d

\* Every message of a day but those that were cut off has left an event, or is
\* about to, and none is sent on a day that has one.
CountInv ==
  \A l \in Daily :
    /\ loops[l].pc # "ready"
    /\ loops[l].pc \in {"sending", "append"} => loops[l].about = l
    /\ \A d \in Days :
         /\ told[l][d] = cut[l][d] + (IF Served(l, d) \/ Arrived(l, d) THEN 1 ELSE 0)
         /\ AtWork(l, d) => ~Served(l, d)

\* A nudge on its way is about an item, in a round that began outside the quiet
\* hours, more than the cooldown after the events about the item.
NudgeInv ==
  LET n == loops["nudge"] IN
  /\ n.pc \in {"ready", "sending", "append"} => ~InQuietHours(Hour(n.from))
  /\ n.pc \in {"sending", "append"} =>
       /\ n.about \in Items
       /\ \A e \in events : e.about = n.about => e.at + Cooldown < n.from

JobTypeOK == /\ now \in Times
             /\ loops \in [Loops -> [pc : Pcs, from : Times,
                                     about : Subjects \cup {Nothing},
                                     todo : SUBSET Items]]
             /\ events \in SUBSET Event
             /\ open \in SUBSET Items
             /\ told \in [Daily -> [Days -> Nat]]
             /\ cut \in [Daily -> [Days -> Nat]]
             /\ errors \in 0 .. MaxErrors

JobInv == JobTypeOK /\ DeadInv /\ CountInv /\ NudgeInv /\ NudgesSpaced

LEMMA LoopsAre ==
  /\ Loops = Daily \cup {"nudge"} /\ "nudge" \notin Daily /\ "nudge" \in Loops
  /\ \A l \in Daily : l \in Loops /\ l # "nudge" /\ l \notin Items
  /\ 0 \in Times /\ Asleep # Dead
  /\ \A x \in Times, y \in Subjects \cup {Nothing}, z \in SUBSET Items, pc \in Pcs :
       State(pc, x, y, z) \in [pc : Pcs, from : Times, about : Subjects \cup {Nothing},
                               todo : SUBSET Items]
BY TimesAssumption DEF Loops, Times, Asleep, Dead, State

LEMMA JobUnchanged ==
  ASSUME JobInv, UNCHANGED <<loops, events, told, cut>>
  PROVE  CountInv' /\ NudgeInv' /\ NudgesSpaced'
<1>1. CountInv'
  BY DEF JobInv, CountInv, Served, AtWork, Arrived
<1>2. NudgeInv'
  BY DEF JobInv, NudgeInv
<1>3. NudgesSpaced'
  BY DEF JobInv, NudgesSpaced
<1> QED BY <1>1, <1>2, <1>3

LEMMA StartJobInv ==
  ASSUME JobInv, StartStep PROVE JobInv'
<1>1. process # "running" /\ UNCHANGED <<now, events, open, told, cut, errors>>
  BY DEF StartStep, Starting, Begin, Skip, RunStatement, Refused, Record, Serve
<1>2. \A l \in Loops : loops[l] = Dead
  BY <1>1 DEF JobInv, DeadInv
<1>3. loops' = IF process' = "running" THEN [l \in Loops |-> Asleep] ELSE loops
  BY DEF StartStep
<1>4. \A l \in Loops : loops'[l] \in {Asleep, Dead} /\ (process' # "running" => loops'[l] = Dead)
  BY <1>2, <1>3
<1>5. \A l \in Loops : /\ loops[l].pc \in {"asleep", "dead"} /\ loops'[l].pc \in {"asleep", "dead"}
  BY <1>2, <1>4 DEF Asleep, Dead, State
<1>6. JobTypeOK'
  BY <1>1, <1>3, LoopsAre DEF JobInv, JobTypeOK, Asleep, Pcs
<1>7. CountInv'
  BY <1>1, <1>5, LoopsAre DEF JobInv, CountInv, Served, AtWork, Arrived
<1>8. NudgeInv' /\ NudgesSpaced'
  BY <1>1, <1>5, LoopsAre DEF JobInv, NudgeInv, NudgesSpaced
<1> QED BY <1>4, <1>6, <1>7, <1>8 DEF JobInv, DeadInv

LEMMA LookInv ==
  ASSUME JobInv, NEW l \in Loops, Look(l) PROVE JobInv'
<1>1. /\ l \in Daily /\ loops[l].pc = "asleep" /\ Due(l)
      /\ loops' = [loops EXCEPT ![l] = State("sending", now, l, {})]
      /\ UNCHANGED <<startVars, now, events, open, told, cut, errors>>
  BY DEF Look
<1>2. JobTypeOK'
  BY <1>1, LoopsAre DEF JobInv, JobTypeOK, Pcs, Subjects
<1>3. /\ loops \in [Loops -> [pc : Pcs, from : Times, about : Subjects \cup {Nothing}, todo : SUBSET Items]]
      /\ now \in Times /\ events \in SUBSET Event
  BY DEF JobInv, JobTypeOK
<1>4. /\ loops'[l].pc = "sending" /\ loops'[l].from = now /\ loops'[l].about = l
      /\ \A k \in Loops \ {l} : loops'[k] = loops[k]
  BY <1>1, <1>3 DEF State
<1>5. DeadInv'
  BY <1>1, <1>4 DEF JobInv, DeadInv, Dead, State, startVars
<1>6. ~Served(l, Day(now))
  <2>1. ASSUME NEW e \in events, e.about = l, Day(e.at) = Day(now) PROVE FALSE
    <3>1. e.at \in Times
      BY <1>3 DEF Event
    <3>2. e.at >= DayStart(now)
      BY <2>1, <3>1, DayIs DEF DayStart
    <3> QED BY <1>1, <2>1, <3>2 DEF Due, ExistsRecent
  <2> QED BY <2>1 DEF Served
<1>7. CountInv'
  <2>1. ASSUME NEW k \in Daily
        PROVE  /\ loops'[k].pc # "ready"
               /\ loops'[k].pc \in {"sending", "append"} => loops'[k].about = k
               /\ \A d \in Days : /\ Arrived(k, d)' <=> Arrived(k, d)
                                  /\ AtWork(k, d)' => ~Served(k, d)
    BY <1>1, <1>4, <1>6, LoopsAre DEF JobInv, CountInv, AtWork, Arrived
  <2> QED BY <1>1, <2>1 DEF JobInv, CountInv, Served
<1>8. NudgeInv' /\ NudgesSpaced'
  BY <1>1, <1>4, LoopsAre DEF JobInv, NudgeInv, NudgesSpaced
<1> QED BY <1>2, <1>5, <1>7, <1>8 DEF JobInv

\* The steps of the nudges before a message.
LEMMA NudgeStepInv ==
  ASSUME JobInv, NudgeStep PROVE JobInv'
<1> DEFINE n == loops["nudge"]
           m == loops'["nudge"]
           Slot == [pc : Pcs, from : Times, about : Subjects \cup {Nothing}, todo : SUBSET Items]
<1>1. /\ loops \in [Loops -> Slot] /\ now \in Times /\ events \in SUBSET Event /\ n \in Slot
      /\ open \in SUBSET Items
  BY LoopsAre DEF JobInv, JobTypeOK
<1>2. /\ UNCHANGED <<startVars, now, events, open, told, cut, errors>>
      /\ n.pc \in {"asleep", "ready"}
      /\ loops' = [loops EXCEPT !["nudge"] = m]
      /\ m \in Slot
      /\ m.pc \in {"ready", "sending", "append"} => ~InQuietHours(Hour(m.from))
      /\ m.pc \in {"sending", "append"} =>
           m.about \in Items /\ \A e \in events : e.about = m.about => e.at + Cooldown < m.from
  <2>1. CASE Round
    <3>1. PICK late \in SUBSET Items :
            loops' = [loops EXCEPT !["nudge"] = State("ready", now, Nothing, late)]
      BY <2>1, <1>1 DEF Round
    <3>2. n.pc = "asleep" /\ ~InQuietHours(Hour(now))
          /\ UNCHANGED <<startVars, now, events, open, told, cut, errors>>
      BY <2>1 DEF Round
    <3>3. m = State("ready", now, Nothing, late) /\ m.pc = "ready" /\ m.from = now
      BY <1>1, <3>1, LoopsAre DEF State
    <3> QED BY <1>1, <3>1, <3>2, <3>3, LoopsAre DEF Pcs
  <2>2. CASE RoundDone
    <3>1. m = Asleep /\ loops' = [loops EXCEPT !["nudge"] = Asleep] /\ n.pc = "ready"
          /\ UNCHANGED <<startVars, now, events, open, told, cut, errors>>
      BY <2>2, <1>1, LoopsAre DEF RoundDone
    <3>2. m.pc = "asleep" /\ m \in Slot
      BY <3>1, LoopsAre DEF Asleep, State, Pcs
    <3> QED BY <3>1, <3>2
  <2>3. ASSUME NEW i \in Items, Nudge(i)
        PROVE  /\ UNCHANGED <<startVars, now, events, open, told, cut, errors>>
               /\ n.pc \in {"asleep", "ready"}
               /\ loops' = [loops EXCEPT !["nudge"] = m]
               /\ m \in Slot
               /\ m.pc \in {"ready", "sending", "append"} => ~InQuietHours(Hour(m.from))
               /\ m.pc \in {"sending", "append"} =>
                    /\ m.about \in Items
                    /\ \A e \in events : e.about = m.about => e.at + Cooldown < m.from
    <3>1. /\ n.pc = "ready" /\ UNCHANGED <<startVars, now, events, open, told, cut, errors>>
          /\ loops' = [loops EXCEPT !["nudge"] =
                         IF Recent(i) THEN [n EXCEPT !.todo = @ \ {i}]
                         ELSE State("sending", n.from, i, n.todo \ {i})]
      BY <2>3 DEF Nudge
    <3>2. /\ m = IF Recent(i) THEN [n EXCEPT !.todo = @ \ {i}]
                 ELSE State("sending", n.from, i, n.todo \ {i})
          /\ loops' = [loops EXCEPT !["nudge"] = m]
      BY <1>1, <3>1, LoopsAre
    <3>3. ~InQuietHours(Hour(n.from))
      BY <3>1 DEF JobInv, NudgeInv
    <3>4. CASE Recent(i)
      BY <1>1, <3>1, <3>2, <3>3, <3>4
    <3>5. CASE ~Recent(i)
      <4>1. m \in Slot /\ m.pc = "sending" /\ m.from = n.from /\ m.about = i
        BY <1>1, <3>2, <3>5, LoopsAre DEF State, Pcs, Subjects
      <4>2. ASSUME NEW e \in events, e.about = i PROVE e.at + Cooldown < n.from
        <5>1. e.at \in Nat /\ n.from \in Nat /\ Cooldown \in Nat
          BY <1>1, TimesAssumption DEF Event, Times
        <5>2. ~(e.at >= IF n.from >= Cooldown THEN n.from - Cooldown ELSE 0)
          BY <3>5, <4>2 DEF Recent, ExistsRecent
        <5> QED BY <5>1, <5>2
      <4> QED BY <3>1, <3>2, <3>3, <4>1, <4>2
    <3> QED BY <3>4, <3>5
  <2> QED BY <2>1, <2>2, <2>3 DEF NudgeStep
<1> HIDE DEF m
<1>3. \A k \in Daily : loops'[k] = loops[k]
  BY <1>1, <1>2, LoopsAre
<1>4. process = "running" /\ process' = process
  BY <1>2, LoopsAre DEF JobInv, DeadInv, Dead, State, startVars
<1>5. JobTypeOK'
  BY <1>1, <1>2 DEF JobInv, JobTypeOK
<1>6. CountInv'
  BY <1>2, <1>3 DEF JobInv, CountInv, Served, AtWork, Arrived
<1>7. NudgeInv' /\ NudgesSpaced'
  BY <1>2 DEF JobInv, NudgeInv, NudgesSpaced, m
<1> QED BY <1>4, <1>5, <1>6, <1>7 DEF JobInv, DeadInv

LEMMA OnwardsIs ==
  ASSUME JobInv, NEW l \in Loops, loops[l].pc \in {"sending", "append"}
  PROVE  /\ Onwards(l) \in [pc : Pcs, from : Times, about : Subjects \cup {Nothing},
                            todo : SUBSET Items]
         /\ Onwards(l).pc = IF l = "nudge" THEN "ready" ELSE "asleep"
         /\ l = "nudge" => Onwards(l).from = loops[l].from
<1>1. loops[l] \in [pc : Pcs, from : Times, about : Subjects \cup {Nothing}, todo : SUBSET Items]
  BY DEF JobInv, JobTypeOK
<1>2. CASE l = "nudge"
  BY <1>1, <1>2 DEF Onwards, Pcs
<1>3. CASE l # "nudge"
  BY <1>3, LoopsAre DEF Onwards, Asleep, State, Pcs
<1> QED BY <1>2, <1>3

LEMMA SendInv ==
  ASSUME JobInv, NEW l \in Loops, NEW arrives \in BOOLEAN, NEW raises \in BOOLEAN,
         Send(l, arrives, raises)
  PROVE  JobInv'
<1> DEFINE Slot == [pc : Pcs, from : Times, about : Subjects \cup {Nothing}, todo : SUBSET Items]
           s == loops'[l]
           day == Day(loops[l].from)
<1>1. /\ loops[l].pc = "sending" /\ (raises => errors < MaxErrors) /\ (~raises => arrives)
      /\ errors' = IF raises THEN errors + 1 ELSE errors
      /\ loops' = [loops EXCEPT ![l] = IF raises THEN Onwards(l) ELSE [@ EXCEPT !.pc = "append"]]
      /\ told' = IF arrives /\ l \in Daily THEN [told EXCEPT ![l][day] = @ + 1] ELSE told
      /\ cut' = IF arrives /\ raises /\ l \in Daily THEN [cut EXCEPT ![l][day] = @ + 1] ELSE cut
      /\ UNCHANGED <<startVars, now, events, open>>
  BY DEF Send
<1>2. /\ loops \in [Loops -> Slot] /\ loops[l] \in Slot /\ loops[l].from \in Times
      /\ told \in [Daily -> [Days -> Nat]] /\ cut \in [Daily -> [Days -> Nat]]
  BY DEF JobInv, JobTypeOK
<1>3. day \in Days
  BY <1>2, DayIs
<1>4. s \in Slot /\ loops' = [loops EXCEPT ![l] = s]
  <2> DEFINE new == IF raises THEN Onwards(l) ELSE [loops[l] EXCEPT !.pc = "append"]
  <2>1. "append" \in Pcs
    BY DEF Pcs
  <2>2. [loops[l] EXCEPT !.pc = "append"] \in Slot
    BY <1>2, <2>1
  <2>3. Onwards(l) \in Slot
    BY <1>1, OnwardsIs
  <2>4. new \in Slot
    BY <2>2, <2>3
  <2>5. loops' = [loops EXCEPT ![l] = new]
    BY <1>1
  <2> HIDE DEF new, Slot
  <2>6. loops'[l] = new
    BY <1>2, <2>5
  <2> QED BY <2>4, <2>5, <2>6
<1>5. /\ ~raises => s.pc = "append" /\ s.from = loops[l].from /\ s.about = loops[l].about
      /\ raises => s.pc = IF l = "nudge" THEN "ready" ELSE "asleep"
      /\ raises /\ l = "nudge" => s.from = loops[l].from
  BY <1>1, <1>2, OnwardsIs
<1>6. \A k \in Loops \ {l} : loops'[k] = loops[k]
  BY <1>2, <1>4
<1> HIDE DEF s, day
<1>7. told' \in [Daily -> [Days -> Nat]] /\ cut' \in [Daily -> [Days -> Nat]]
  BY <1>1, <1>2, <1>3
<1>8. JobTypeOK'
  <2>1. errors' \in 0 .. MaxErrors
    BY <1>1, TimesAssumption DEF JobInv, JobTypeOK
  <2>2. loops' \in [Loops -> Slot]
    BY <1>2, <1>4
  <2>3. UNCHANGED <<now, events, open>>
    BY <1>1
  <2> QED BY <1>7, <2>1, <2>2, <2>3 DEF JobInv, JobTypeOK
<1>9. DeadInv'
  BY <1>1 DEF JobInv, DeadInv, Dead, State, startVars
<1>10. CountInv'
  <2>1. SUFFICES ASSUME NEW k \in Daily
                 PROVE  /\ loops'[k].pc # "ready"
                        /\ loops'[k].pc \in {"sending", "append"} => loops'[k].about = k
                        /\ \A d \in Days :
                             /\ told'[k][d] = cut'[k][d] + (IF Served(k, d)' \/ Arrived(k, d)' THEN 1 ELSE 0)
                             /\ AtWork(k, d)' => ~Served(k, d)'
    BY DEF CountInv
  <2>2. \A d \in Days : Served(k, d)' <=> Served(k, d)
    BY <1>1 DEF Served
  <2>3. CASE k # l
    <3>1. loops'[k] = loops[k] /\ told'[k] = told[k] /\ cut'[k] = cut[k]
      BY <1>1, <1>2, <1>6, <2>3, LoopsAre
    <3> QED BY <2>2, <3>1 DEF JobInv, CountInv, AtWork, Arrived
  <2>4. CASE k = l
    <3>1. /\ loops[l].about = l /\ AtWork(l, day) /\ ~Served(l, day) /\ l # "nudge"
          /\ \A d \in Days : ~Arrived(l, d) /\ (AtWork(l, d) => ~Served(l, d))
      BY <1>1, <1>3, <2>4, LoopsAre DEF JobInv, CountInv, AtWork, Arrived, day
    <3>2. \A d \in Days : told[l][d] = cut[l][d] + (IF Served(l, d) THEN 1 ELSE 0)
      BY <2>4, <3>1 DEF JobInv, CountInv
    <3>3. CASE ~raises
      <4>1. \A d \in Days : AtWork(l, d)' <=> AtWork(l, d)
        BY <1>1, <1>5, <3>3 DEF AtWork, s
      <4>2. \A d \in Days : Arrived(l, d)' <=> d = day
        BY <1>5, <3>3 DEF Arrived, s, day
      <4>3. /\ \A d \in Days : told'[l][d] = IF d = day THEN told[l][d] + 1 ELSE told[l][d]
            /\ cut' = cut
        BY <1>1, <1>2, <1>3, <2>4, <3>3
      <4>4. \A d \in Days : told'[l][d] = cut'[l][d] + (IF Served(l, d) \/ d = day THEN 1 ELSE 0)
        BY <1>2, <2>4, <3>1, <3>2, <4>3
      <4>5. s.pc = "append" /\ s.about = l
        BY <1>5, <3>1, <3>3
      <4> QED BY <2>2, <2>4, <3>1, <4>1, <4>2, <4>4, <4>5 DEF s
    <3>4. CASE raises
      <4>1. \A d \in Days : ~AtWork(l, d)' /\ ~Arrived(l, d)'
        BY <1>5, <3>1, <3>4 DEF AtWork, Arrived, s
      <4>2. \A d \in Days : told'[l][d] - cut'[l][d] = told[l][d] - cut[l][d]
        <5>1. CASE arrives
          <6>1. /\ \A d \in Days : told'[l][d] = IF d = day THEN told[l][d] + 1 ELSE told[l][d]
                /\ \A d \in Days : cut'[l][d] = IF d = day THEN cut[l][d] + 1 ELSE cut[l][d]
            BY <1>1, <1>2, <1>3, <2>4, <3>4, <5>1
          <6>2. \A d \in Days : told[l][d] \in Nat /\ cut[l][d] \in Nat
            BY <1>2, <2>4
          <6> QED BY <6>1, <6>2
        <5>2. CASE ~arrives
          BY <1>1, <5>2
        <5> QED BY <5>1, <5>2
      <4>3. \A d \in Days : told'[l][d] = cut'[l][d] + (IF Served(l, d) THEN 1 ELSE 0)
        BY <1>2, <1>7, <2>4, <3>2, <4>2
      <4>4. s.pc = "asleep"
        BY <1>5, <3>1, <3>4
      <4> QED BY <2>2, <2>4, <4>1, <4>3, <4>4 DEF s
    <3> QED BY <3>3, <3>4
  <2> QED BY <2>3, <2>4
<1>11. NudgeInv'
  <2>1. CASE l # "nudge"
    BY <1>1, <1>6, <2>1, LoopsAre DEF JobInv, NudgeInv
  <2>2. CASE l = "nudge"
    BY <1>1, <1>5, <2>2 DEF JobInv, NudgeInv, s
  <2> QED BY <2>1, <2>2
<1>12. NudgesSpaced'
  BY <1>1 DEF JobInv, NudgesSpaced
<1> QED BY <1>8, <1>9, <1>10, <1>11, <1>12 DEF JobInv

LEMMA AppendEventInv ==
  ASSUME JobInv, NEW l \in Loops, AppendEvent(l) PROVE JobInv'
<1> DEFINE Slot == [pc : Pcs, from : Times, about : Subjects \cup {Nothing}, todo : SUBSET Items]
           s == loops'[l]
           day == Day(loops[l].from)
           new == [about |-> loops[l].about, at |-> loops[l].from]
<1>1. /\ loops[l].pc = "append" /\ events' = events \cup {new}
      /\ loops' = [loops EXCEPT ![l] = Onwards(l)]
      /\ UNCHANGED <<startVars, now, open, told, cut, errors>>
  BY DEF AppendEvent
<1>2. /\ loops \in [Loops -> Slot] /\ loops[l] \in Slot /\ loops[l].from \in Times
      /\ events \in SUBSET Event
  BY DEF JobInv, JobTypeOK
<1>3. s \in Slot /\ s.pc = (IF l = "nudge" THEN "ready" ELSE "asleep")
      /\ (l = "nudge" => s.from = loops[l].from) /\ loops' = [loops EXCEPT ![l] = s]
  BY <1>1, <1>2, OnwardsIs
<1>4. \A k \in Loops \ {l} : loops'[k] = loops[k]
  BY <1>2, <1>3
<1>5. l \in Daily \/ l = "nudge"
  BY LoopsAre
<1>6. /\ l \in Daily => loops[l].about = l
      /\ l = "nudge" => loops[l].about \in Items
  BY <1>1 DEF JobInv, CountInv, NudgeInv
<1>7. new \in Event
  BY <1>2, <1>5, <1>6 DEF Event, Subjects
<1> HIDE DEF s, new
<1>8. new.about = loops[l].about /\ new.at = loops[l].from /\ new.at \in Times
  BY <1>2 DEF new
<1>9. JobTypeOK'
  <2>1. loops' \in [Loops -> Slot] /\ events' \in SUBSET Event
    BY <1>1, <1>2, <1>3, <1>7
  <2> QED BY <1>1, <2>1 DEF JobInv, JobTypeOK
<1>10. DeadInv'
  BY <1>1 DEF JobInv, DeadInv, Dead, State, startVars
<1>11. CountInv'
  <2>1. SUFFICES ASSUME NEW k \in Daily
                 PROVE  /\ loops'[k].pc # "ready"
                        /\ loops'[k].pc \in {"sending", "append"} => loops'[k].about = k
                        /\ \A d \in Days :
                             /\ told'[k][d] = cut'[k][d] + (IF Served(k, d)' \/ Arrived(k, d)' THEN 1 ELSE 0)
                             /\ AtWork(k, d)' => ~Served(k, d)'
    BY DEF CountInv
  <2>2. \A d \in Days : Served(k, d)' <=> Served(k, d) \/ (loops[l].about = k /\ d = day)
    BY <1>1, <1>8 DEF Served
  <2> HIDE DEF day
  <2>3. CASE k # l
    <3>1. loops'[k] = loops[k] /\ loops[l].about # k
      BY <1>4, <1>5, <1>6, <2>3, LoopsAre
    <3> QED BY <1>1, <2>2, <3>1 DEF JobInv, CountInv, AtWork, Arrived
  <2>4. CASE k = l
    <3>1. loops[l].about = l /\ l # "nudge" /\ s.pc = "asleep"
      BY <1>3, <1>6, <2>4, LoopsAre
    <3>2. \A d \in Days : Arrived(l, d) <=> d = day
      BY <1>1 DEF Arrived, day
    <3>3. \A d \in Days : ~AtWork(l, d)' /\ ~Arrived(l, d)'
      BY <3>1 DEF AtWork, Arrived, s
    <3> QED BY <1>1, <2>2, <2>4, <3>1, <3>2, <3>3 DEF JobInv, CountInv, s
  <2> QED BY <2>3, <2>4
<1>12. NudgeInv'
  <2>1. CASE l = "nudge"
    BY <1>1, <1>3, <2>1 DEF JobInv, NudgeInv, s
  <2>2. CASE l # "nudge"
    <3>1. loops'["nudge"] = loops["nudge"] /\ l \in Daily /\ loops[l].about = l /\ l \notin Items
      BY <1>4, <1>5, <1>6, <2>2, LoopsAre
    <3> QED BY <1>1, <1>8, <3>1 DEF JobInv, NudgeInv
  <2> QED BY <2>1, <2>2
<1>13. NudgesSpaced'
  <2>1. CASE l # "nudge"
    <3>1. new.about \notin Items
      BY <1>5, <1>6, <1>8, <2>1, LoopsAre
    <3> QED BY <1>1, <3>1 DEF JobInv, NudgesSpaced
  <2>2. CASE l = "nudge"
    <3>1. Hour(new.at) \notin QuietHours
      BY <1>1, <1>8, <2>2, QuietIs, DayIs DEF JobInv, NudgeInv
    <3>2. \A e \in events : e.about = new.about => e.at + Cooldown < new.at
      BY <1>1, <1>8, <2>2 DEF JobInv, NudgeInv
    <3>3. \A e \in events \cup {new} : e.at \in Nat
      BY <1>2, <1>8 DEF Event, Times
    <3>4. Cooldown \in Nat
      BY TimesAssumption
    <3>5. SUFFICES ASSUME NEW e \in events \cup {new}, e.about \in Items
                   PROVE  /\ Hour(e.at) \notin QuietHours
                          /\ \A f \in events \cup {new} : f.about = e.about /\ e.at < f.at =>
                                                             f.at - e.at > Cooldown
      BY <1>1 DEF NudgesSpaced
    <3>6. Hour(e.at) \notin QuietHours
      BY <3>1, <3>5 DEF JobInv, NudgesSpaced
    <3>7. ASSUME NEW f \in events \cup {new}, f.about = e.about, e.at < f.at
          PROVE  f.at - e.at > Cooldown
      <4>1. CASE e \in events /\ f \in events
        BY <3>5, <3>7, <4>1 DEF JobInv, NudgesSpaced
      <4>2. CASE f = new /\ e \in events
        <5>1. e.at + Cooldown < f.at
          BY <3>2, <3>7, <4>2
        <5> QED BY <3>3, <3>4, <5>1
      <4>3. CASE e = new
        <5>1. f \in events /\ f.at + Cooldown < e.at
          BY <3>2, <3>3, <3>7, <4>3
        <5> QED BY <3>3, <3>4, <3>7, <5>1
      <4> QED BY <3>5, <3>7, <4>1, <4>2, <4>3
    <3> QED BY <3>6, <3>7
  <2> QED BY <2>1, <2>2
<1> QED BY <1>9, <1>10, <1>11, <1>12, <1>13 DEF JobInv

\* What is lost when a loop ends before the event of its message is stored.
LEMMA CutOffIs ==
  ASSUME JobInv, NEW l \in Daily
  PROVE  /\ CutOff(l) \in [Days -> Nat]
         /\ \A d \in Days : CutOff(l)[d] = cut[l][d] + (IF Arrived(l, d) THEN 1 ELSE 0)
<1>1. cut[l] \in [Days -> Nat] /\ loops[l].from \in Times /\ Day(loops[l].from) \in Days
  BY LoopsAre, DayIs DEF JobInv, JobTypeOK
<1>2. CASE loops[l].pc = "append"
  BY <1>1, <1>2 DEF CutOff, Arrived
<1>3. CASE loops[l].pc # "append"
  BY <1>1, <1>3 DEF CutOff, Arrived
<1> QED BY <1>2, <1>3

\* A loop that dies leaves its day counted.
LEMMA CutOffCounts ==
  ASSUME JobInv, NEW l \in Daily,
         loops'[l] = Dead, cut'[l] = CutOff(l), told' = told, events' = events
  PROVE  /\ loops'[l].pc = "dead"
         /\ \A d \in Days : told'[l][d] = cut'[l][d] + (IF Served(l, d)' THEN 1 ELSE 0)
<1>1. loops'[l].pc = "dead"
  BY DEF Dead, State
<1>2. ASSUME NEW d \in Days
      PROVE  told'[l][d] = cut'[l][d] + (IF Served(l, d)' THEN 1 ELSE 0)
  <2>1. /\ told[l][d] = cut[l][d] + (IF Served(l, d) \/ Arrived(l, d) THEN 1 ELSE 0)
        /\ Arrived(l, d) => ~Served(l, d)
    BY DEF JobInv, CountInv, Arrived, AtWork
  <2>2. CutOff(l)[d] = cut[l][d] + (IF Arrived(l, d) THEN 1 ELSE 0)
    BY CutOffIs
  <2>3. Served(l, d)' <=> Served(l, d)
    BY DEF Served
  <2>4. cut[l][d] \in Nat
    BY DEF JobInv, JobTypeOK
  <2> QED BY <2>1, <2>2, <2>3, <2>4
<1> QED BY <1>1, <1>2

LEMMA StatementRaisesInv ==
  ASSUME JobInv, NEW l \in Loops, StatementRaises(l) PROVE JobInv'
<1>1. /\ errors < MaxErrors /\ errors' = errors + 1 /\ loops' = [loops EXCEPT ![l] = Dead]
      /\ cut' = IF l \in Daily THEN [cut EXCEPT ![l] = CutOff(l)] ELSE cut
      /\ UNCHANGED <<startVars, now, events, open, told>> /\ loops[l].pc # "dead"
  BY DEF StatementRaises
<1>2. JobTypeOK'
  <2>1. errors' \in 0 .. MaxErrors
    BY <1>1, TimesAssumption DEF JobInv, JobTypeOK
  <2>2. cut' \in [Daily -> [Days -> Nat]]
    BY <1>1, CutOffIs DEF JobInv, JobTypeOK
  <2>3. loops' \in [Loops -> [pc : Pcs, from : Times, about : Subjects \cup {Nothing},
                              todo : SUBSET Items]]
    BY <1>1, LoopsAre DEF JobInv, JobTypeOK, Dead, Pcs
  <2> QED BY <1>1, <2>1, <2>2, <2>3 DEF JobInv, JobTypeOK
<1>3. loops'[l] = Dead /\ \A k \in Loops \ {l} : loops'[k] = loops[k]
  BY <1>1 DEF JobInv, JobTypeOK
<1>4. DeadInv'
  BY <1>1, <1>3 DEF JobInv, DeadInv, startVars
<1>5. CountInv'
  <2>1. SUFFICES ASSUME NEW k \in Daily
                 PROVE  /\ loops'[k].pc # "ready"
                        /\ loops'[k].pc \in {"sending", "append"} => loops'[k].about = k
                        /\ \A d \in Days :
                             /\ told'[k][d] = cut'[k][d] + (IF Served(k, d)' \/ Arrived(k, d)' THEN 1 ELSE 0)
                             /\ AtWork(k, d)' => ~Served(k, d)'
    BY DEF CountInv
  <2>2. CASE k # l
    <3>1. loops'[k] = loops[k] /\ cut'[k] = cut[k]
      BY <1>1, <1>3, <2>2, LoopsAre DEF JobInv, JobTypeOK
    <3> QED BY <1>1, <3>1 DEF JobInv, CountInv, Served, AtWork, Arrived
  <2>3. CASE k = l
    <3>1. cut'[k] = CutOff(k)
      BY <1>1, <2>3 DEF JobInv, JobTypeOK
    <3>2. /\ loops'[k].pc = "dead"
          /\ \A d \in Days : told'[k][d] = cut'[k][d] + (IF Served(k, d)' THEN 1 ELSE 0)
      BY <1>1, <1>3, <2>3, <3>1, CutOffCounts
    <3> QED BY <3>2 DEF AtWork, Arrived
  <2> QED BY <2>2, <2>3
<1>6. NudgeInv'
  <2>1. loops'["nudge"] \in {loops["nudge"], Dead}
    BY <1>3, LoopsAre
  <2> QED BY <1>1, <2>1 DEF JobInv, NudgeInv, Dead, State
<1>7. NudgesSpaced'
  BY <1>1 DEF JobInv, NudgesSpaced
<1> QED BY <1>2, <1>4, <1>5, <1>6, <1>7 DEF JobInv

LEMMA CrashInv ==
  ASSUME JobInv, Crash PROVE JobInv'
<1>1. /\ cut' = [l \in Daily |-> CutOff(l)] /\ loops' = [l \in Loops |-> Dead]
      /\ UNCHANGED <<now, events, open, told, errors>>
  BY DEF Crash
<1>2. \A l \in Loops : loops'[l] = Dead
  BY <1>1
<1>3. JobTypeOK'
  <2>1. cut' \in [Daily -> [Days -> Nat]]
    BY <1>1, CutOffIs
  <2>2. loops' \in [Loops -> [pc : Pcs, from : Times, about : Subjects \cup {Nothing},
                              todo : SUBSET Items]]
    BY <1>1, LoopsAre DEF Dead, Pcs
  <2> QED BY <1>1, <2>1, <2>2 DEF JobInv, JobTypeOK
<1>4. CountInv'
  <2>1. ASSUME NEW k \in Daily
        PROVE  /\ loops'[k].pc = "dead"
               /\ \A d \in Days : told'[k][d] = cut'[k][d] + (IF Served(k, d)' THEN 1 ELSE 0)
    BY <1>1, <1>2, LoopsAre, CutOffCounts
  <2> QED BY <2>1 DEF CountInv, AtWork, Arrived
<1>5. NudgeInv' /\ NudgesSpaced'
  BY <1>1, <1>2, LoopsAre DEF JobInv, NudgeInv, NudgesSpaced, Dead, State
<1> QED BY <1>2, <1>3, <1>4, <1>5 DEF JobInv, DeadInv

-----------------------------------------------------------------------------
(* The theorems.                                                           *)

JobsInv == StartInv /\ JobInv

LEMMA InitInv == Init => JobsInv
<1> SUFFICES ASSUME Init PROVE JobsInv
  OBVIOUS
<1>1. StartInv
  BY StartInitInv DEF Init
<1>2. /\ now = 0 /\ loops = [l \in Loops |-> Dead] /\ events = {} /\ open = Items /\ errors = 0
      /\ told = [l \in Daily |-> [d \in Days |-> 0]] /\ cut = [l \in Daily |-> [d \in Days |-> 0]]
  BY DEF Init
<1>3. JobTypeOK
  <2>1. 0 \in 0 .. MaxErrors
    BY TimesAssumption
  <2> QED BY <1>2, <2>1, LoopsAre DEF JobTypeOK, Dead, Pcs
<1>4. \A l \in Loops : loops[l] = Dead /\ loops[l].pc = "dead"
  BY <1>2 DEF Dead, State
<1>5. CountInv
  BY <1>2, <1>4, LoopsAre DEF CountInv, Served, AtWork, Arrived
<1>6. DeadInv /\ NudgeInv /\ NudgesSpaced
  BY <1>2, <1>4, LoopsAre DEF DeadInv, NudgeInv, NudgesSpaced
<1> QED BY <1>1, <1>3, <1>5, <1>6 DEF JobsInv, JobInv

LEMMA StepInv == JobsInv /\ [Next]_vars => JobsInv'
<1> SUFFICES ASSUME JobsInv, [Next]_vars PROVE JobsInv'
  OBVIOUS
<1> USE DEF JobsInv
<1>1. CASE StartStep
  BY <1>1, StartingInv, StartJobInv DEF StartStep
<1>2. CASE Crash
  BY <1>2, StartingInv, CrashInv DEF Crash
<1>3. CASE Tick \/ UNCHANGED vars \/ \E i \in Items : Close(i)
  <2>1. UNCHANGED <<startVars, loops, events, told, cut, errors>>
    BY <1>3 DEF Tick, Close, vars, jobVars
  <2>2. now' \in Times /\ open' \in SUBSET Items
    BY <1>3, TimesAssumption DEF Tick, Close, vars, jobVars, JobInv, JobTypeOK, Times
  <2>3. JobTypeOK' /\ DeadInv'
    BY <2>1, <2>2 DEF JobInv, JobTypeOK, DeadInv, startVars
  <2> QED BY <2>1, <2>3, StartUnchanged, JobUnchanged DEF JobInv
<1>4. CASE NudgeStep
  <2>1. UNCHANGED startVars
    BY <1>4 DEF NudgeStep, Round, RoundDone, Nudge
  <2> QED BY <1>4, <2>1, StartUnchanged, NudgeStepInv
<1>5. ASSUME NEW l \in Loops, LoopStep(l) \/ StatementRaises(l) PROVE JobsInv'
  <2>1. UNCHANGED startVars
    BY <1>5 DEF LoopStep, Look, Send, AppendEvent, StatementRaises
  <2>2. JobInv'
    BY <1>5, LookInv, SendInv, AppendEventInv, StatementRaisesInv DEF LoopStep
  <2> QED BY <2>1, <2>2, StartUnchanged
<1> QED BY <1>1, <1>2, <1>3, <1>4, <1>5 DEF Next

\* The inductive invariant of the start (Database._apply_migrations) and of the
\* loops of app.py between any two of their awaits.
THEOREM JobsInvariant == Spec => []JobsInv
BY InitInv, StepInv, PTL DEF Spec

\* Every variable has its type.
THEOREM TypeCorrect == Spec => []TypeOK
<1>1. JobsInv => TypeOK
  BY DEF JobsInv, JobInv, JobTypeOK, StartInv, TypeOK
<1> QED BY <1>1, JobsInvariant, PTL

\* What schema_migrations records has taken effect, in order, wherever a start
\* was cut off (Database._apply_migrations).
THEOREM LedgerIsTrue == Spec => []LedgerTrue
<1>1. JobsInv => LedgerTrue
  BY DEF JobsInv, StartInv
<1> QED BY <1>1, JobsInvariant, PTL

\* A briefing or a review comes once a day, and once more for each one that
\* arrived and left no event (send_due_morning_briefings,
\* send_due_weekly_reviews).
THEOREM BriefingOnce == Spec => []OncePerDay
<1>1. ASSUME JobsInv PROVE OncePerDay
  <2>1. ASSUME NEW l \in Daily, NEW d \in Days PROVE told[l][d] <= 1 + cut[l][d]
    <3>1. told[l][d] = cut[l][d] + (IF Served(l, d) \/ Arrived(l, d) THEN 1 ELSE 0)
      BY <1>1 DEF JobsInv, JobInv, CountInv
    <3>2. cut[l][d] \in Nat
      BY <1>1 DEF JobsInv, JobInv, JobTypeOK
    <3> QED BY <3>1, <3>2
  <2> QED BY <2>1 DEF OncePerDay
<1> QED BY <1>1, JobsInvariant, PTL

\* No day passes for served without a message of its own (the events
\* BRIEFING_SENT and WEEKLY_REVIEW_SENT).
THEOREM RecordsAreTrue == Spec => []RecordIsTrue
<1>1. ASSUME JobsInv PROVE RecordIsTrue
  <2>1. ASSUME NEW e \in events, e.about \in Daily
        PROVE  told[e.about][Day(e.at)] > cut[e.about][Day(e.at)]
    <3>1. Day(e.at) \in Days
      BY <1>1, DayIs DEF JobsInv, JobInv, JobTypeOK, Event
    <3>2. Served(e.about, Day(e.at))
      BY <2>1 DEF Served
    <3>3. told[e.about][Day(e.at)] = cut[e.about][Day(e.at)] + 1
      BY <1>1, <2>1, <3>1, <3>2 DEF JobsInv, JobInv, CountInv
    <3>4. cut[e.about][Day(e.at)] \in Nat
      BY <1>1, <2>1, <3>1 DEF JobsInv, JobInv, JobTypeOK
    <3> QED BY <3>3, <3>4
  <2> QED BY <2>1 DEF RecordIsTrue
<1> QED BY <1>1, JobsInvariant, PTL

\* Nudges keep the quiet hours and the cooldown (send_due_nudges).
THEOREM NudgesKeepDistance == Spec => []NudgesSpaced
<1>1. JobsInv => NudgesSpaced
  BY DEF JobsInv, JobInv
<1> QED BY <1>1, JobsInvariant, PTL

-----------------------------------------------------------------------------
(* Starts that are refused.                                                *)

\* Nothing is pending but while a start runs; a migration of which a statement
\* was run is not recorded; and before the first kill a start finds nothing of
\* the migrations it has not come to.
RefusalInv ==
  /\ process # "starting" => pending = {}
  /\ process = "starting" /\ step > 0 => at \notin ledger \cup pending
  /\ crashes = 0 /\ process = "down" => \A k \in Migrations : done[k] = 0
  /\ crashes = 0 /\ process = "starting" =>
       \A k \in Migrations : /\ k > at => done[k] = 0
                             /\ k = at => done[k] = step

\* A step of the start, a kill, or neither.
LEMMA StepsOfStart ==
  ASSUME [Next]_vars PROVE Starting \/ Kill \/ UNCHANGED startVars
BY DEF Next, StartStep, Crash, Tick, NudgeStep, Round, RoundDone, Nudge, Close, LoopStep,
       Look, Send, AppendEvent, StatementRaises, vars

LEMMA RefusalStep ==
  ASSUME StartInv, RefusalInv, [Next]_vars PROVE RefusalInv'
<1>1. /\ \A k \in Migrations : k \in Nat /\ Len(Scripts[k]) \in Nat \ {0} /\ done[k] \in Nat
      /\ at \in Nat /\ step \in Nat /\ crashes \in Nat
  BY ScriptsAre DEF StartInv, StartTypeOK
<1>2. CASE Begin
  <2>1. \A k \in Migrations : k = 1 \/ k > 1
    BY <1>1, ScriptsAre DEF Migrations
  <2> QED BY <1>2, <2>1 DEF Begin, RefusalInv
<1>3. CASE Skip
  <2>1. crashes # 0
    <3>1. done[at] = Len(Scripts[at])
      BY <1>3 DEF Skip, Recorded, StartInv, LedgerTrue, Applied
    <3>2. crashes = 0 => done[at] = step
      BY <1>3 DEF Skip, RefusalInv
    <3> QED BY <1>1, <1>3, <3>1, <3>2 DEF Skip
  <2> QED BY <1>3, <2>1 DEF Skip, RefusalInv
<1>4. CASE RunStatement
  <2>1. /\ process = "starting" /\ at \in Migrations
        /\ step > 0 \/ at \notin ledger \cup pending
        /\ done' = [done EXCEPT ![at] = IF step + 1 > @ THEN step + 1 ELSE @]
        /\ step' = step + 1 /\ ledger' = ledger \cup pending /\ pending' = {}
        /\ UNCHANGED <<process, restarts, at, crashes>>
    BY <1>4 DEF RunStatement, Recorded
  <2>2. at \notin ledger' \cup pending'
    BY <2>1 DEF RefusalInv
  <2>3. ASSUME crashes = 0, NEW k \in Migrations
        PROVE  (k > at => done'[k] = 0) /\ (k = at => done'[k] = step')
    <3>1. (k > at => done[k] = 0) /\ (k = at => done[k] = step)
      BY <2>1, <2>3 DEF RefusalInv
    <3>2. done \in [Migrations -> Nat]
      BY DEF StartInv, StartTypeOK
    <3> QED BY <1>1, <2>1, <3>1, <3>2
  <2> QED BY <2>1, <2>2, <2>3 DEF RefusalInv
<1>5. CASE Refused
  <2>1. crashes # 0
    <3>1. crashes = 0 => done[at] = step
      BY <1>5 DEF Refused, RefusalInv
    <3> QED BY <1>1, <1>5, <3>1 DEF Refused, Applies
  <2> QED BY <1>5, <2>1 DEF Refused, Ended, RefusalInv
<1>6. CASE Record
  <2>1. \A k \in Migrations : k >= at + 1 => k > at
    BY <1>1
  <2> QED BY <1>1, <1>6, <2>1 DEF Record, RefusalInv
<1>7. CASE Serve
  BY <1>7 DEF Serve, RefusalInv
<1>8. CASE Kill
  BY <1>1, <1>8 DEF Kill, Ended, RefusalInv
<1>9. CASE UNCHANGED startVars
  BY <1>9 DEF startVars, RefusalInv
<1> QED BY <1>2, <1>3, <1>4, <1>5, <1>6, <1>7, <1>8, <1>9, StepsOfStart DEF Starting

LEMMA RefusalInvariant == Spec => []RefusalInv
<1>1. Init => RefusalInv
  BY DEF Init, StartInit, RefusalInv
<1>2. JobsInv /\ RefusalInv /\ [Next]_vars => RefusalInv'
  BY RefusalStep DEF JobsInv
<1> QED BY <1>1, <1>2, JobsInvariant, PTL DEF Spec

\* A start fails by itself only if an earlier one was killed and left the
\* schema torn: between a statement that cannot be repeated and the commit of
\* the row of its migration (Database._apply_migrations).
RefusedOnlyTorn ==
  [][process = "starting" /\ process' \in {"down", "errored"} /\ crashes' = crashes =>
       Torn /\ crashes > 0]_vars

THEOREM RefusalsAreTorn == Spec => RefusedOnlyTorn
<1> DEFINE Fails == process = "starting" /\ process' \in {"down", "errored"}
                      /\ crashes' = crashes => Torn /\ crashes > 0
<1>1. JobsInv /\ RefusalInv /\ [Next]_vars => [Fails]_vars
  <2> SUFFICES ASSUME JobsInv, RefusalInv, [Next]_vars,
                      process = "starting", process' \in {"down", "errored"},
                      crashes' = crashes
               PROVE  Torn /\ crashes > 0
    OBVIOUS
  <2>1. /\ \A k \in Migrations : done[k] \in Nat
        /\ step \in Nat /\ crashes \in Nat
    BY DEF JobsInv, StartInv, StartTypeOK
  <2>2. Refused
    BY <2>1, StepsOfStart DEF Starting, Begin, Skip, RunStatement, Record, Serve, Kill, startVars
  <2>3. /\ at \in Migrations /\ ~(step + 1 > done[at]) /\ ~Scripts[at][step + 1]
        /\ step > 0 \/ at \notin ledger \cup pending
    BY <2>2 DEF Refused, Applies, Recorded
  <2>4. at \in Migrations \ ledger /\ step + 1 \in 1 .. done[at]
    BY <2>1, <2>3 DEF RefusalInv
  <2>5. Torn
    BY <2>3, <2>4 DEF Torn
  <2>6. crashes # 0
    BY <2>1, <2>3 DEF RefusalInv
  <2> QED BY <2>1, <2>5, <2>6
<1> HIDE DEF Fails
<1>2. Spec => [][Fails]_vars
  BY <1>1, JobsInvariant, RefusalInvariant, PTL DEF Spec
<1> QED BY <1>2 DEF Fails, RefusedOnlyTorn

\* Of a migration that is not recorded a statement took effect that cannot be
\* repeated, and the start under way has yet to come to it.
Stuck ==
  \E k \in Migrations \ (ledger \cup pending) :
    \E i \in 1 .. done[k] : /\ ~Scripts[k][i]
                            /\ process = "starting" /\ at = k => step < i

LEMMA StuckStep ==
  ASSUME StartInv, Stuck, [Next]_vars PROVE Stuck'
<1>1. PICK k \in Migrations \ (ledger \cup pending) :
        \E i \in 1 .. done[k] : ~Scripts[k][i] /\ (process = "starting" /\ at = k => step < i)
  BY DEF Stuck
<1>2. PICK i \in 1 .. done[k] :
        ~Scripts[k][i] /\ (process = "starting" /\ at = k => step < i)
  BY <1>1
<1>3. /\ done \in [Migrations -> Nat] /\ done[k] <= Len(Scripts[k]) /\ Len(Scripts[k]) \in Nat
      /\ i \in Nat /\ i > 0 /\ i <= done[k] /\ step \in Nat
  BY <1>1, <1>2, ScriptsAre DEF StartInv, StartTypeOK
<1>4. ASSUME done' = done, k \notin ledger' \cup pending',
             process' = "starting" /\ at' = k => step' < i
      PROVE  Stuck'
  BY <1>1, <1>2, <1>4 DEF Stuck
<1>5. CASE Begin \/ Skip
  BY <1>1, <1>2, <1>3, <1>4, <1>5 DEF Begin, Skip
<1>6. CASE RunStatement
  <2>1. /\ process = "starting" /\ (step + 1 > done[at] \/ Scripts[at][step + 1])
        /\ done' = [done EXCEPT ![at] = IF step + 1 > @ THEN step + 1 ELSE @]
        /\ step' = step + 1 /\ ledger' = ledger \cup pending /\ pending' = {} /\ at' = at
    BY <1>6 DEF RunStatement, Applies
  <2>2. done'[k] \in Nat /\ done'[k] >= done[k]
    BY <1>1, <1>2, <1>3, <2>1
  <2>3. at = k => step + 1 < i
    BY <1>1, <1>2, <1>3, <2>1
  <2>4. k \in Migrations \ (ledger' \cup pending') /\ i \in 1 .. done'[k]
    BY <1>1, <1>2, <1>3, <2>1, <2>2
  <2> QED BY <1>1, <1>2, <2>1, <2>3, <2>4 DEF Stuck
<1>7. CASE Refused \/ Kill
  BY <1>1, <1>2, <1>4, <1>7 DEF Refused, Kill, Ended
<1>8. CASE Record
  <2>1. at # k
    BY <1>1, <1>2, <1>3, <1>8 DEF Record
  <2> QED BY <1>1, <1>2, <1>3, <1>4, <1>8, <2>1 DEF Record
<1>9. CASE Serve
  BY <1>1, <1>2, <1>4, <1>9 DEF Serve
<1>10. CASE UNCHANGED startVars
  BY <1>1, <1>2, <1>4, <1>10 DEF startVars
<1> QED BY <1>5, <1>6, <1>7, <1>8, <1>9, <1>10, StepsOfStart DEF Starting

\* A process that ended and left the schema torn never serves again, however
\* often it is started: the exception Recovers makes is not too wide.
TornForGood == [](process \in {"down", "errored"} /\ Torn => [](process # "running"))

THEOREM TornNeverServes == Spec => TornForGood
<1> DEFINE Down == process \in {"down", "errored"} /\ Torn
           NotServing == process # "running"
<1>1. RefusalInv /\ Down => Stuck
  BY DEF RefusalInv, Torn, Stuck
<1>2. JobsInv /\ Stuck /\ [Next]_vars => Stuck'
  BY StuckStep DEF JobsInv
<1>3. JobsInv /\ Stuck => NotServing
  BY DEF JobsInv, StartInv, LedgerTrue, Stuck
<1> HIDE DEF Down, NotServing
<1>4. Spec => [](Down => []NotServing)
  BY <1>1, <1>2, <1>3, JobsInvariant, RefusalInvariant, PTL DEF Spec
<1> QED BY <1>4 DEF Down, NotServing, TornForGood

\* PM2 gives the process up only because it is torn, so that each of its starts
\* is refused, or because it was killed as often as max_restarts allows: no
\* sequence of starts that the code alone brings about is counted up to the limit.
GivenUpForCause == process = "errored" => Lost

\* PM2 has counted an end that was no kill: then the starts are being refused.
CountedInv == restarts > crashes => Stuck

THEOREM GivesUpForCause == Spec => []GivenUpForCause
<1>1. Init => CountedInv
  BY CrashesAssumption DEF Init, StartInit, CountedInv
<1>2. JobsInv /\ RefusalInv /\ CountedInv /\ [Next]_vars => CountedInv'
  <2> SUFFICES ASSUME JobsInv, RefusalInv, CountedInv, [Next]_vars, restarts' > crashes'
               PROVE  Stuck'
    BY DEF CountedInv
  <2>1. StartInv /\ restarts \in Nat /\ crashes \in Nat
    BY CrashesAssumption DEF JobsInv, StartInv, StartTypeOK
  <2>2. CASE Stuck
    BY <2>1, <2>2, StuckStep
  <2>3. CASE ~Stuck
    <3>1. ~(restarts > crashes)
      BY <2>3 DEF CountedInv
    <3>2. Refused
      BY <2>1, <3>1, StepsOfStart
         DEF Starting, Begin, Skip, RunStatement, Record, Serve, Kill, Ended, startVars
    <3>3. /\ at \in Migrations /\ ~(step + 1 > done[at]) /\ ~Scripts[at][step + 1]
          /\ at \notin ledger \cup pending
      BY <3>2 DEF Refused, Applies, Recorded, RefusalInv
    <3>4. /\ done' = done /\ pending' = {} /\ ledger' = ledger \cup pending
          /\ process' # "starting"
      BY <3>2 DEF Refused, Ended
    <3>5. step + 1 \in 1 .. done'[at] /\ at \in Migrations \ (ledger' \cup pending')
      BY <2>1, <3>3, <3>4 DEF StartInv, StartTypeOK
    <3> QED BY <3>3, <3>4, <3>5 DEF Stuck
  <2> QED BY <2>2, <2>3
<1>3. JobsInv /\ CountedInv => GivenUpForCause
  <2> SUFFICES ASSUME JobsInv, CountedInv, process = "errored", ~(crashes >= MaxRestarts)
               PROVE  Torn
    BY DEF GivenUpForCause, Lost
  <2>1. restarts = MaxRestarts /\ MaxRestarts \in Nat /\ crashes \in Nat
    BY CrashesAssumption DEF JobsInv, StartInv, StartTypeOK
  <2>2. Stuck
    BY <2>1 DEF CountedInv
  <2> QED BY <2>2 DEF Stuck, Torn
<1> QED BY <1>1, <1>2, <1>3, JobsInvariant, RefusalInvariant, PTL DEF Spec
=============================================================================
