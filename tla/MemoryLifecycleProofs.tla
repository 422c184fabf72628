----------------------- MODULE MemoryLifecycleProofs -----------------------
(***************************************************************************)
(* Proofs about MemoryLifecycle, for any claims and any number of memories, *)
(* knowledge updates and buttons.                                           *)
(***************************************************************************)
EXTENDS MemoryLifecycle, FiniteSetTheorems, TLAPS

\* The properties of a table, the one of now or the one to go back to.
Sound(t) == LinkedIn(t) /\ AcyclicIn(t) /\ ConsistentIn(t) /\ GoneIn(t)

\* What a handler at work relies on between its statements: batches are new,
\* the memories it still has to change exist, a rollback has all memories of
\* its batch before it, and a chosen claim has no canonical claim of its own
\* and is none of the losers.
WorkInv ==
  /\ work.op = "note" => work.batch = None
  /\ work.op = "update" => work.batch = batches + 1
  /\ work.op = "rollback" => work.batch \in 1 .. batches /\ OfBatch(work.batch) \subseteq work.todo
  /\ work.op = "choose" =>
       /\ work.target \in Ids \ work.todo
       /\ Exists(work.target) /\ rows[work.target].canonical = None
  /\ work.op \in {"rollback", "delete", "choose"} => \A j \in work.todo : Exists(j)

MemoryInv == TypeOK /\ WorkInv /\ Sound(rows) /\ Sound(saved.rows)

-----------------------------------------------------------------------------
(* Tables.                                                                 *)

LEMMA RowIs ==
  ASSUME NEW t \in Table, NEW i \in Ids
  PROVE  /\ In(t, i) => t[i] \in Row
         /\ ~In(t, i) => t[i] = NoRow
<1>1. t[i] \in Row \cup {NoRow}
  BY DEF Table
<1>2. \A r \in Row : r.status # "absent"
  BY DEF Row, Statuses
<1>3. NoRow.status = "absent"
  BY DEF NoRow
<1> QED BY <1>1, <1>2, <1>3 DEF In

\* A row of u that is the one of t but for its place in the order.
Alike(t, u, i) ==
  /\ In(u, i) <=> In(t, i)
  /\ In(t, i) => /\ u[i].claim = t[i].claim /\ u[i].batch = t[i].batch
                 /\ u[i].status = t[i].status /\ u[i].conflict = t[i].conflict
                 /\ u[i].confirmed = t[i].confirmed
                 /\ u[i].revision = t[i].revision /\ u[i].canonical = t[i].canonical

\* A claim that is used in answers and that nobody reviewed.
Open(t, i) == Current(t, i) /\ t[i].conflict # "conflict" /\ ~Reviewed(t, i)

\* u has the memories of t, perhaps fewer; none of them is opened again.
Keeps(t, u) ==
  \A i \in Ids : In(u, i) =>
    /\ In(t, i) /\ u[i].claim = t[i].claim /\ u[i].batch = t[i].batch
    /\ Open(u, i) => Open(t, i)

LEMMA OpenIsIn ==
  ASSUME NEW t, NEW i, Open(t, i) PROVE In(t, i)
BY DEF Open, Current, In

LEMMA KeepsSound ==
  ASSUME NEW t, NEW u, Keeps(t, u)
  PROVE  (ConsistentIn(t) => ConsistentIn(u)) /\ (GoneIn(t) => GoneIn(u))
<1>1. ASSUME ConsistentIn(t) PROVE ConsistentIn(u)
  <2>1. SUFFICES ASSUME NEW i \in Ids, NEW j \in Ids, Open(u, i), Open(u, j)
                 PROVE  ~Contradict(u[i].claim, u[j].claim)
    BY DEF ConsistentIn, Open
  <2>2. In(u, i) /\ In(u, j)
    BY <2>1, OpenIsIn
  <2>3. /\ Open(t, i) /\ u[i].claim = t[i].claim
        /\ Open(t, j) /\ u[j].claim = t[j].claim
    BY <2>1, <2>2 DEF Keeps
  <2> QED BY <1>1, <2>3 DEF ConsistentIn, Open
<1>2. ASSUME GoneIn(t) PROVE GoneIn(u)
  BY <1>2 DEF GoneIn, Keeps
<1> QED BY <1>1, <1>2

LEMMA IdsFinite == IsFiniteSet(Ids)
BY FS_Interval, BoundsAssumption DEF Ids

LEMMA OlderIs ==
  ASSUME NEW i, NEW S \in SUBSET Ids PROVE Cardinality(Older(i, S)) \in Nat
<1>1. Older(i, S) \in SUBSET Ids
  BY DEF Older
<1> QED BY <1>1, IdsFinite, FS_Subset, FS_CardinalityType

LEMMA AgeIs ==
  ASSUME TypeOK, NEW i \in Ids, Exists(i), NEW S \in SUBSET Ids, NEW ahead \in Nat
  PROVE  AgeAfter(i, S, ahead) \in Nat
<1>1. rows[i] \in Row
  BY RowIs DEF TypeOK, In, Exists
<1> QED BY <1>1, OlderIs DEF AgeAfter, Row

\* What Updated does to the table.
LEMMA UpdatedIs ==
  ASSUME TypeOK, NEW i \in Ids, Exists(i), NEW r \in Row
  PROVE  /\ Updated(i, r) \in Table
         /\ \A j \in Ids \ {i} : Alike(rows, Updated(i, r), j)
         /\ In(Updated(i, r), i)
         /\ Updated(i, r)[i] = [r EXCEPT !.age = 0]
<1>1. [r EXCEPT !.age = 0] \in Row
  BY DEF Row
<1>2. Updated(i, r)[i] = [r EXCEPT !.age = 0]
  BY DEF Updated
<1>3. ASSUME NEW j \in Ids \ {i}, Exists(j)
      PROVE  /\ Updated(i, r)[j] = [rows[j] EXCEPT !.age = AgeAfter(j, {i}, 0)]
             /\ Updated(i, r)[j] \in Row /\ Alike(rows, Updated(i, r), j)
  <2>1. rows[j] \in Row
    BY <1>3, RowIs DEF TypeOK, In, Exists
  <2>2. AgeAfter(j, {i}, 0) \in Nat
    BY <1>3, AgeIs
  <2>3. Updated(i, r)[j] = [rows[j] EXCEPT !.age = AgeAfter(j, {i}, 0)]
    BY <1>3 DEF Updated
  <2>4. Updated(i, r)[j] \in Row
    BY <2>1, <2>2, <2>3 DEF Row
  <2> QED BY <2>1, <2>3, <2>4 DEF Alike, In, Row, Statuses
<1>4. ASSUME NEW j \in Ids \ {i}, ~Exists(j)
      PROVE  Updated(i, r)[j] = rows[j] /\ rows[j] = NoRow
  BY <1>4, RowIs DEF Updated, TypeOK, In, Exists
<1>5. Updated(i, r) \in Table
  BY <1>1, <1>2, <1>3, <1>4 DEF Updated, Table
<1>6. \A j \in Ids \ {i} : Alike(rows, Updated(i, r), j)
  BY <1>3, <1>4 DEF Alike, In, Exists
<1>7. In(Updated(i, r), i)
  BY <1>1, <1>2 DEF In, Row, Statuses
<1> QED BY <1>2, <1>5, <1>6, <1>7

-----------------------------------------------------------------------------
(* A handler begins, and comes to its end.                                 *)

\* Only what is rolled back can make a sound table unsound.
LEMMA SoundStays ==
  ASSUME NEW t, Sound(t), rolled' = rolled, rows' = t
  PROVE  Sound(rows)'
BY DEF Sound, LinkedIn, AcyclicIn, ConsistentIn, GoneIn, In, Current, Reviewed

LEMMA SoundSaved ==
  ASSUME NEW t, Sound(t), rolled' = rolled, saved'.rows = t
  PROVE  Sound(saved.rows)'
BY DEF Sound, LinkedIn, AcyclicIn, ConsistentIn, GoneIn, In, Current, Reviewed

LEMMA UnsavedIs ==
  /\ Unsaved \in [rows : Table, last : 0 .. MaxRows] /\ Sound(Unsaved.rows)
<1>1. Unsaved \in [rows : Table, last : 0 .. MaxRows]
  BY BoundsAssumption DEF Unsaved, Table
<1>2. \A i \in Ids : ~In(Unsaved.rows, i)
  BY DEF Unsaved, In, NoRow
<1>3. LinkedIn(Unsaved.rows) /\ GoneIn(Unsaved.rows)
  BY <1>2 DEF LinkedIn, GoneIn
<1>5. AcyclicIn(Unsaved.rows)
  <2>1. SUFFICES ASSUME NEW S \in (SUBSET Ids) \ {{}}
                 PROVE  \E i \in S : In(Unsaved.rows, i) => Unsaved.rows[i].canonical \notin S
    BY DEF AcyclicIn
  <2>2. S # {} /\ S \subseteq Ids
    BY <2>1
  <2>3. PICK i : i \in S
    BY <2>2
  <2> QED BY <1>2, <2>2, <2>3
<1>4. ConsistentIn(Unsaved.rows)
  BY <1>2 DEF ConsistentIn, Current, In
<1> QED BY <1>1, <1>3, <1>4, <1>5 DEF Sound

LEMMA IdleWork ==
  ASSUME work' = Idle PROVE work' \in Works /\ WorkInv'
BY DEF Works, Idle, WorkInv

LEMMA WorkIs ==
  ASSUME TypeOK, work # Idle
  PROVE  /\ work.op \in Ops /\ work.batch \in 0 .. MaxBatches /\ work.target \in 0 .. MaxRows
         /\ work.correcting \in BOOLEAN /\ work.todo \subseteq Ids
         /\ \A todo \in SUBSET Ids : [work EXCEPT !.todo = todo] \in Works
BY DEF TypeOK, Works

LEMMA OpIs ==
  ASSUME TypeOK, work.op \in Ops PROVE work # Idle
BY DEF Idle, Ops

\* The steps that end a handler and leave the memories alone.
LEMMA EndSteps ==
  ASSUME MemoryInv, Commit \/ DeleteDone \/ ChooseDone \/ RollbackDone
  PROVE  MemoryInv'
<1>1. UNCHANGED <<rows, last, presses>> /\ work' = Idle /\ saved' = Unsaved
  BY DEF Commit, DeleteDone, ChooseDone, RollbackDone, End
<1>2. work' \in Works /\ WorkInv' /\ saved' \in [rows : Table, last : 0 .. MaxRows]
  BY <1>1, IdleWork, UnsavedIs
<1>3. /\ batches' \in 0 .. MaxBatches /\ batches' >= batches /\ rolled' \subseteq 1 .. batches'
      /\ \A i \in Ids : Exists(i) => rows[i].batch \notin rolled'
  <2>0. /\ batches \in 0 .. MaxBatches /\ rolled \subseteq 1 .. batches /\ MaxBatches \in Nat
        /\ \A i \in Ids : Exists(i) => rows[i].batch \notin rolled
    BY BoundsAssumption DEF MemoryInv, TypeOK, Sound, GoneIn, In, Exists
  <2>1. CASE Commit
    <3>1. work.op \in Ops
      BY <2>1 DEF Commit, Ops
    <3>2. work.batch \in 0 .. MaxBatches
      BY <3>1, OpIs, WorkIs DEF MemoryInv
    <3>3. rolled' = rolled /\ (batches' = batches \/ (batches' = work.batch /\ work.batch = batches + 1))
      BY <2>1 DEF Commit, MemoryInv, WorkInv
    <3>4. batches' \in 0 .. MaxBatches /\ batches' >= batches
      BY <2>0, <3>2, <3>3
    <3>5. 1 .. batches \subseteq 1 .. batches'
      BY <2>0, <3>4
    <3>6. rolled' \subseteq 1 .. batches'
      BY <2>0, <3>3, <3>5
    <3> QED BY <2>0, <3>3, <3>4, <3>6, Zenon
  <2>2. CASE DeleteDone \/ ChooseDone
    <3>1. batches' = batches /\ rolled' = rolled
      BY <2>2 DEF DeleteDone, ChooseDone
    <3>2. batches' >= batches
      BY <2>0, <3>1
    <3> QED BY <2>0, <3>1, <3>2, Zenon
  <2>3. CASE RollbackDone
    <3>1. /\ rolled' = rolled \cup {work.batch} /\ batches' = batches
          /\ work.batch \in 1 .. batches /\ OfBatch(work.batch) = {}
      BY <2>3 DEF RollbackDone, MemoryInv, WorkInv
    <3>2. \A i \in Ids : Exists(i) => rows[i].batch # work.batch
      BY <3>1 DEF OfBatch
    <3>3. rolled' \subseteq 1 .. batches'
      BY <2>0, <3>1
    <3> QED BY <2>0, <3>1, <3>2, <3>3
  <2> QED BY <2>1, <2>2, <2>3
<1>4. TypeOK'
  BY <1>1, <1>2, <1>3 DEF MemoryInv, TypeOK
<1>5. Sound(rows)'
  <2>1. GoneIn(rows)'
    BY <1>1, <1>3 DEF GoneIn, In, Exists
  <2> QED BY <1>1, <2>1 DEF MemoryInv, Sound, LinkedIn, AcyclicIn, ConsistentIn, In, Current, Reviewed
<1>6. Sound(saved.rows)'
  <2>1. \A i \in Ids : ~In(Unsaved.rows, i)
    BY DEF Unsaved, In, NoRow
  <2>2. GoneIn(saved.rows)'
    BY <1>1, <2>1 DEF GoneIn, In
  <2> QED BY <1>1, <2>2, UnsavedIs DEF Sound, LinkedIn, AcyclicIn, ConsistentIn, In, Current, Reviewed
<1> QED BY <1>2, <1>4, <1>5, <1>6 DEF MemoryInv

\* The steps in which a handler reads what it will change.
LEMMA BeginSteps ==
  ASSUME MemoryInv, BeginNote \/ BeginUpdate \/ BeginDelete \/ BeginRollback
  PROVE  MemoryInv'
<1>1. /\ UNCHANGED <<rows, last, batches, rolled>>
      /\ saved' = saved \/ saved' = [rows |-> rows, last |-> last]
  BY DEF BeginNote, BeginUpdate, BeginDelete, BeginRollback
<1>2. presses' \in 0 .. MaxPresses
  <2>1. presses \in 0 .. MaxPresses /\ MaxPresses \in Nat
    BY BoundsAssumption DEF MemoryInv, TypeOK
  <2>2. presses' = presses \/ (presses < MaxPresses /\ presses' = presses + 1)
    BY DEF BeginNote, BeginUpdate, BeginDelete, BeginRollback
  <2> QED BY <2>1, <2>2
<1>3. batches \in 0 .. MaxBatches /\ MaxBatches \in Nat /\ MaxRows \in Nat /\ None \in 0 .. MaxRows
      /\ None \in 0 .. MaxBatches
  BY BoundsAssumption DEF MemoryInv, TypeOK, None
<1>4. work' \in Works /\ WorkInv'
  <2>1. CASE BeginNote
    <3>1. PICK correcting \in BOOLEAN : work' = Work("note", None, None, correcting, {})
      BY <2>1 DEF BeginNote
    <3> QED BY <1>3, <3>1 DEF Work, Works, Ops, WorkInv
  <2>2. CASE BeginUpdate
    <3>1. work' = Work("update", batches + 1, None, FALSE, {}) /\ batches < MaxBatches
          /\ batches' = batches
      BY <2>2 DEF BeginUpdate
    <3> QED BY <1>3, <3>1 DEF Work, Works, Ops, WorkInv
  <2>3. CASE BeginDelete
    <3>1. PICK M \in SUBSET {i \in Ids : Exists(i)} :
            work' = Work("delete", None, None, FALSE, M)
      BY <2>3 DEF BeginDelete
    <3>2. M \in SUBSET Ids /\ \A j \in M : Exists(j)'
      BY <1>1, <3>1 DEF Exists
    <3> QED BY <1>3, <3>1, <3>2 DEF Work, Works, Ops, WorkInv
  <2>4. CASE BeginRollback
    <3>1. PICK b \in Undoable : work' = Work("rollback", b, None, FALSE, OfBatch(b))
      BY <2>4 DEF BeginRollback
    <3>2. b \in 1 .. batches /\ b \in 0 .. MaxBatches /\ OfBatch(b) \subseteq Ids
      BY <1>3 DEF Undoable, OfBatch
    <3>4. work'.op = "rollback" /\ work'.batch = b /\ work'.todo = OfBatch(b)
      BY <3>1 DEF Work
    <3>6. OfBatch(work.batch)' = OfBatch(b)
      BY <1>1, <3>4 DEF OfBatch, Exists
    <3>7. \A j \in OfBatch(b) : Exists(j)'
      BY <1>1 DEF OfBatch, Exists
    <3>5. work' \in Works
      BY <1>3, <3>1, <3>2 DEF Work, Works, Ops
    <3> QED BY <1>1, <3>2, <3>4, <3>5, <3>6, <3>7 DEF WorkInv
  <2> QED BY <2>1, <2>2, <2>3, <2>4
<1>5. TypeOK'
  BY <1>1, <1>2, <1>4 DEF MemoryInv, TypeOK
<1>6. Sound(rows)'
  BY <1>1, SoundStays DEF MemoryInv
<1>7. Sound(saved.rows)'
  <2>1. Sound(rows) /\ Sound(saved.rows) /\ rolled' = rolled
    BY <1>1 DEF MemoryInv
  <2>2. saved'.rows = saved.rows \/ saved'.rows = rows
    BY <1>1
  <2> QED BY <2>1, <2>2, SoundSaved
<1> QED BY <1>4, <1>5, <1>6, <1>7 DEF MemoryInv

-----------------------------------------------------------------------------
(* Reviews.                                                                *)

\* A row that answers use only after a review, or not at all.
Settled(r) ==
  r.status \notin {"candidate", "active"} \/ r.confirmed \/ r.conflict = "resolved"

\* A canonical claim that closes no circle when i is superseded by it.
Heads(i) == {None, rows[i].canonical} \cup
            {c \in Ids \ {i} : Exists(c) /\ rows[c].canonical = None}

LEMMA UpdatedSound ==
  ASSUME MemoryInv, NEW i \in Ids, Exists(i), NEW r \in Row, Settled(r),
         r.claim = rows[i].claim, r.batch = rows[i].batch,
         r.revision = rows[i].revision, r.canonical \in Heads(i)
  PROVE  Updated(i, r) \in Table /\ Sound(Updated(i, r))
<1> DEFINE u == Updated(i, r)
<1>1. u \in Table /\ In(u, i) /\ u[i] = [r EXCEPT !.age = 0]
  BY UpdatedIs DEF MemoryInv
<1>2. ASSUME NEW j \in Ids \ {i} PROVE Alike(rows, u, j)
  BY UpdatedIs DEF MemoryInv
<1> HIDE DEF u
<1>3. /\ u[i].claim = rows[i].claim /\ u[i].batch = rows[i].batch
      /\ u[i].revision = rows[i].revision /\ u[i].canonical = r.canonical
      /\ u[i].status = r.status /\ u[i].conflict = r.conflict /\ u[i].confirmed = r.confirmed
  BY <1>1 DEF Row
<1>4. ASSUME NEW j \in Ids PROVE In(u, j) <=> In(rows, j)
  BY <1>1, <1>2 DEF Alike, In, Exists
<1>5. ~Open(u, i)
  BY <1>3 DEF Settled, Open, Current, Reviewed
<1>6. Keeps(rows, u)
  <2>1. ASSUME NEW j \in Ids \ {i}, In(u, j)
        PROVE  /\ In(rows, j) /\ u[j].claim = rows[j].claim /\ u[j].batch = rows[j].batch
               /\ Open(u, j) => Open(rows, j)
    BY <2>1, <1>2 DEF Alike, Open, Current, Reviewed
  <2> QED BY <2>1, <1>1, <1>3, <1>4, <1>5 DEF Keeps
<1>7. LinkedIn(u)
  <2>1. SUFFICES ASSUME NEW j \in Ids, In(u, j), NEW l \in {u[j].revision, u[j].canonical}, l # None
                 PROVE  In(u, l)
    BY DEF LinkedIn
  <2>2. LinkedIn(rows) /\ In(rows, j)
    BY <2>1, <1>4 DEF MemoryInv, Sound
  <2>3. u[j] \in Row
    BY <2>1, <1>1, RowIs
  <2>4. l \in Ids
    BY <2>1, <2>3 DEF Row, Ids, None
  <2>5. In(rows, l)
    <3>1. CASE j = i
      BY <3>1, <2>1, <2>2, <1>3 DEF LinkedIn, Heads, In, Exists
    <3>2. CASE j # i
      BY <3>2, <2>1, <2>2, <1>2 DEF LinkedIn, Alike
    <3> QED BY <3>1, <3>2
  <2> QED BY <2>4, <2>5, <1>4
<1>8. AcyclicIn(u)
  <2>1. SUFFICES ASSUME NEW S \in (SUBSET Ids) \ {{}}
                 PROVE  \E j \in S : In(u, j) => u[j].canonical \notin S
    BY DEF AcyclicIn
  <2>2. None \notin S
    BY DEF Ids, None
  <2>3. CASE i \in S /\ r.canonical \notin S
    BY <2>3, <1>3
  <2>4. CASE i \in S /\ r.canonical \in S /\ r.canonical # rows[i].canonical
    <3>1. /\ r.canonical \in S \ {i} /\ Exists(r.canonical)
          /\ rows[r.canonical].canonical = None
      BY <2>2, <2>4 DEF Heads
    <3>2. Alike(rows, u, r.canonical) /\ In(rows, r.canonical)
      BY <3>1, <1>2 DEF In, Exists
    <3> QED BY <3>1, <3>2, <2>2 DEF Alike
  <2>5. CASE i \notin S \/ r.canonical = rows[i].canonical
    <3>1. PICK j \in S : In(rows, j) => rows[j].canonical \notin S
      BY DEF MemoryInv, Sound, AcyclicIn
    <3> QED BY <3>1, <2>5, <1>2, <1>3, <1>4 DEF Alike
  <2> QED BY <2>3, <2>4, <2>5
<1>9. ConsistentIn(u) /\ GoneIn(u)
  BY <1>6, KeepsSound DEF MemoryInv, Sound
<1> QED BY <1>1, <1>7, <1>8, <1>9 DEF u, Sound

\* A button that leaves the canonical claim alone.
LEMMA PressStep ==
  ASSUME MemoryInv, NEW i \in Ids, Exists(i), NEW r \in Row, Settled(r),
         r.claim = rows[i].claim, r.batch = rows[i].batch,
         r.revision = rows[i].revision, r.canonical = rows[i].canonical,
         Press(i, r)
  PROVE  MemoryInv'
<1>1. Updated(i, r) \in Table /\ Sound(Updated(i, r))
  BY UpdatedSound DEF Heads
<1>2. /\ rows' = Updated(i, r) /\ work = Idle /\ presses' = presses + 1
      /\ presses < MaxPresses /\ UNCHANGED <<last, work, saved, batches, rolled>>
  BY DEF Press
<1>3. presses' \in 0 .. MaxPresses
  BY <1>2, BoundsAssumption DEF MemoryInv, TypeOK
<1>4. TypeOK'
  BY <1>1, <1>2, <1>3 DEF MemoryInv, TypeOK
<1>5. WorkInv'
  BY <1>2, IdleWork
<1>6. Sound(rows)'
  BY <1>1, <1>2, SoundStays
<1>7. Sound(saved.rows)'
  BY <1>2, SoundSaved DEF MemoryInv
<1> QED BY <1>4, <1>5, <1>6, <1>7 DEF MemoryInv

LEMMA ButtonSteps ==
  ASSUME MemoryInv, \/ \E i \in Ids : Confirm(i) \/ Reject(i) \/ MarkStale(i)
                    \/ RejectRecent
  PROVE  MemoryInv'
<1>1. PICK i \in Ids : /\ Exists(i)
                       /\ \/ Press(i, [rows[i] EXCEPT !.status = "active", !.confirmed = TRUE])
                          \/ Press(i, [rows[i] EXCEPT !.status = "rejected"])
                          \/ Press(i, [rows[i] EXCEPT !.status = "superseded"])
  <2>1. CASE \E i \in Ids : Confirm(i) \/ Reject(i) \/ MarkStale(i)
    BY <2>1 DEF Confirm, Reject, MarkStale
  <2>2. CASE RejectRecent
    <3>1. \A i \in Ids : Live(i) => Exists(i)
      BY DEF Live, Exists
    <3> QED BY <2>2, <3>1 DEF RejectRecent
  <2> QED BY <2>1, <2>2
<1>2. rows[i] \in Row
  BY <1>1, RowIs DEF MemoryInv, TypeOK, In, Exists
<1>3. CASE Press(i, [rows[i] EXCEPT !.status = "active", !.confirmed = TRUE])
  <2> DEFINE r == [rows[i] EXCEPT !.status = "active", !.confirmed = TRUE]
  <2>1. /\ r \in Row /\ Settled(r) /\ r.claim = rows[i].claim /\ r.batch = rows[i].batch
        /\ r.revision = rows[i].revision /\ r.canonical = rows[i].canonical
    BY <1>2 DEF Row, Statuses, Settled
  <2> QED BY <1>1, <1>3, <2>1, PressStep
<1>4. ASSUME NEW status \in {"rejected", "superseded"},
             Press(i, [rows[i] EXCEPT !.status = status])
      PROVE  MemoryInv'
  <2> DEFINE r == [rows[i] EXCEPT !.status = status]
  <2>1. /\ r \in Row /\ Settled(r) /\ r.claim = rows[i].claim /\ r.batch = rows[i].batch
        /\ r.revision = rows[i].revision /\ r.canonical = rows[i].canonical
    BY <1>2 DEF Row, Statuses, Settled
  <2> QED BY <1>1, <1>4, <2>1, PressStep
<1> QED BY <1>1, <1>3, <1>4

LEMMA BeginChooseStep ==
  ASSUME MemoryInv, NEW i \in Ids, BeginChoose(i) PROVE MemoryInv'
<1> DEFINE r == [rows[i] EXCEPT !.status = "active", !.canonical = None,
                                !.conflict = "resolved"]
<1>1. /\ Exists(i) /\ work' = Work("choose", None, i, FALSE, Group(i))
      /\ rows' = Updated(i, r) /\ presses' = presses + 1 /\ presses < MaxPresses
      /\ UNCHANGED <<last, saved, batches, rolled>>
  BY DEF BeginChoose
<1>2. rows[i] \in Row
  BY <1>1, RowIs DEF MemoryInv, TypeOK, In, Exists
<1>3. /\ r \in Row /\ Settled(r) /\ r.claim = rows[i].claim /\ r.batch = rows[i].batch
      /\ r.revision = rows[i].revision /\ r.canonical = None
  <2>1. None \in 0 .. MaxRows
    BY BoundsAssumption DEF None
  <2> QED BY <1>2, <2>1 DEF Row, Statuses, Conflicts, Settled
<1>4. Updated(i, r) \in Table /\ Sound(Updated(i, r))
  BY <1>1, <1>3, UpdatedSound DEF Heads
<1>5. /\ Updated(i, r)[i] = [r EXCEPT !.age = 0] /\ In(Updated(i, r), i)
      /\ \A j \in Ids \ {i} : Alike(rows, Updated(i, r), j)
  BY <1>1, <1>3, UpdatedIs DEF MemoryInv
<1> HIDE DEF r
<1>6. Group(i) \subseteq Ids \ {i} /\ \A j \in Group(i) : Exists(j)
  BY DEF Group
<1>7. work' \in Works
  <2>1. None \in 0 .. MaxBatches /\ i \in 0 .. MaxRows /\ Group(i) \in SUBSET Ids
    BY <1>6, BoundsAssumption DEF None, Ids
  <2> QED BY <2>1, <1>1 DEF Work, Works, Ops
<1>8. WorkInv'
  <2>1. work'.op = "choose" /\ work'.target = i /\ work'.todo = Group(i)
    BY <1>1 DEF Work
  <2>2. rows'[i].canonical = None /\ In(rows', i)
    BY <1>1, <1>3, <1>5 DEF Row
  <2>3. \A j \in Group(i) : In(rows', j)
    BY <1>1, <1>5, <1>6 DEF Alike, In, Exists
  <2> QED BY <2>1, <2>2, <2>3, <1>6 DEF WorkInv, Exists, In
<1>9. TypeOK'
  <2>1. presses' \in 0 .. MaxPresses
    BY <1>1, BoundsAssumption DEF MemoryInv, TypeOK
  <2> QED BY <2>1, <1>1, <1>4, <1>7 DEF MemoryInv, TypeOK
<1>10. Sound(rows)'
  BY <1>1, <1>4, SoundStays
<1>11. Sound(saved.rows)'
  BY <1>1, SoundSaved DEF MemoryInv
<1> QED BY <1>8, <1>9, <1>10, <1>11 DEF MemoryInv

LEMMA ChooseNextStep ==
  ASSUME MemoryInv, NEW j \in Ids, ChooseNext(j) PROVE MemoryInv'
<1> DEFINE r == [rows[j] EXCEPT !.status = "superseded", !.canonical = work.target,
                                !.conflict = "resolved"]
<1>1. /\ work.op = "choose" /\ j \in work.todo /\ rows' = Updated(j, r)
      /\ work' = [work EXCEPT !.todo = @ \ {j}]
      /\ UNCHANGED <<last, saved, batches, rolled, presses>>
  BY DEF ChooseNext
<1>2. work # Idle
  BY <1>1, OpIs DEF Ops, MemoryInv
<1>3. /\ work.target \in Ids \ work.todo /\ Exists(work.target)
      /\ rows[work.target].canonical = None /\ \A l \in work.todo : Exists(l)
  BY <1>1 DEF MemoryInv, WorkInv
<1>4. rows[j] \in Row
  BY <1>1, <1>3, RowIs DEF MemoryInv, TypeOK, In, Exists
<1>5. work.target \in Ids \ {j} /\ work.target \in 0 .. MaxRows
  BY <1>1, <1>2, <1>3, WorkIs DEF MemoryInv
<1>6. /\ r \in Row /\ Settled(r) /\ r.claim = rows[j].claim /\ r.batch = rows[j].batch
      /\ r.revision = rows[j].revision /\ r.canonical = work.target
  BY <1>4, <1>5 DEF Row, Statuses, Conflicts, Settled
<1>7. Updated(j, r) \in Table /\ Sound(Updated(j, r))
  BY <1>1, <1>3, <1>5, <1>6, UpdatedSound DEF Heads
<1>8. /\ In(Updated(j, r), j) /\ \A l \in Ids \ {j} : Alike(rows, Updated(j, r), l)
  BY <1>1, <1>3, <1>6, UpdatedIs DEF MemoryInv
<1> HIDE DEF r
<1>9. work.todo \subseteq Ids /\ work' \in Works
  BY <1>1, <1>2, WorkIs DEF MemoryInv
<1>10. WorkInv'
  <2>1. work'.op = "choose" /\ work'.target = work.target /\ work'.todo = work.todo \ {j}
    BY <1>1, <1>2, WorkIs DEF MemoryInv, TypeOK, Works
  <2>2. rows'[work.target].canonical = None /\ In(rows', work.target)
    BY <1>1, <1>3, <1>5, <1>8 DEF Alike, In, Exists
  <2>3. \A l \in work'.todo : In(rows', l)
    BY <1>1, <1>3, <1>8, <1>9, <2>1 DEF Alike, In, Exists
  <2> QED BY <2>1, <2>2, <2>3, <1>3 DEF WorkInv, Exists, In
<1>11. TypeOK'
  BY <1>1, <1>7, <1>9 DEF MemoryInv, TypeOK
<1>12. Sound(rows)'
  BY <1>1, <1>7, SoundStays
<1>13. Sound(saved.rows)'
  BY <1>1, SoundSaved DEF MemoryInv
<1> QED BY <1>10, <1>11, <1>12, <1>13 DEF MemoryInv

-----------------------------------------------------------------------------
(* Deletions, and what is undone.                                          *)

LEMMA UndoSteps ==
  ASSUME MemoryInv, End, UNCHANGED <<batches, rolled, presses>>,
         NEW t \in Table, Sound(t), rows' = t,
         NEW n \in 0 .. MaxRows, last' = n
  PROVE  MemoryInv'
<1>1. work' \in Works /\ WorkInv' /\ saved' = Unsaved
  BY IdleWork DEF End
<1>2. TypeOK'
  BY <1>1, UnsavedIs DEF MemoryInv, TypeOK
<1>3. Sound(rows)'
  BY SoundStays
<1>4. Sound(saved.rows)'
  BY <1>1, UnsavedIs, SoundSaved
<1> QED BY <1>1, <1>2, <1>3, <1>4 DEF MemoryInv

LEMMA InterruptStep ==
  ASSUME MemoryInv, Interrupt PROVE MemoryInv'
<1>1. CASE InTransaction
  BY <1>1, UndoSteps DEF Interrupt, MemoryInv, TypeOK
<1>2. CASE ~InTransaction
  BY <1>2, UndoSteps DEF Interrupt, MemoryInv, TypeOK
<1> QED BY <1>1, <1>2

LEMMA UnlinkedSound ==
  ASSUME MemoryInv, NEW i \in Ids
  PROVE  /\ Unlinked(i) \in Table /\ Sound(Unlinked(i))
         /\ \A j \in Ids : /\ In(Unlinked(i), j) <=> In(rows, j)
                           /\ In(rows, j) => /\ Unlinked(i)[j] \in Row
                                             /\ Unlinked(i)[j].revision # i
                                             /\ Unlinked(i)[j].canonical = rows[j].canonical
<1> DEFINE u == Unlinked(i)
<1>1. ASSUME NEW j \in Ids, In(rows, j)
      PROVE  /\ u[j] \in Row /\ u[j].revision \in {rows[j].revision, None} \ {i}
             /\ u[j].claim = rows[j].claim /\ u[j].batch = rows[j].batch
             /\ u[j].status = rows[j].status /\ u[j].conflict = rows[j].conflict
             /\ u[j].confirmed = rows[j].confirmed /\ u[j].canonical = rows[j].canonical
  <2>1. rows[j] \in Row
    BY <1>1, RowIs DEF MemoryInv, TypeOK
  <2>2. u[j] = IF rows[j].revision = i THEN [rows[j] EXCEPT !.revision = None] ELSE rows[j]
    BY <1>1 DEF Unlinked, In, Exists
  <2>3. None # i /\ None \in 0 .. MaxRows
    BY BoundsAssumption DEF None, Ids
  <2> QED BY <2>1, <2>2, <2>3 DEF Row
<1>2. ASSUME NEW j \in Ids, ~In(rows, j)
      PROVE  u[j] = rows[j] /\ u[j] = NoRow
  BY <1>2, RowIs DEF MemoryInv, TypeOK, Unlinked, In, Exists
<1>3. u \in Table
  BY <1>1, <1>2 DEF Unlinked, Table
<1> HIDE DEF u
<1>4. \A j \in Ids : In(u, j) <=> In(rows, j)
  BY <1>1, <1>2 DEF In
<1>5. Keeps(rows, u)
  BY <1>1, <1>4 DEF Keeps, Open, Current, Reviewed
<1>6. LinkedIn(u)
  <2>1. SUFFICES ASSUME NEW j \in Ids, In(u, j), NEW l \in {u[j].revision, u[j].canonical}, l # None
                 PROVE  In(u, l)
    BY DEF LinkedIn
  <2>2. In(rows, j) /\ l \in {rows[j].revision, rows[j].canonical}
    BY <2>1, <1>1, <1>4
  <2>3. l \in Ids /\ In(rows, l)
    BY <2>1, <2>2, RowIs DEF MemoryInv, TypeOK, Sound, LinkedIn, Row, Ids, None
  <2> QED BY <2>3, <1>4
<1>7. AcyclicIn(u)
  <2>1. SUFFICES ASSUME NEW S \in (SUBSET Ids) \ {{}}
                 PROVE  \E j \in S : In(u, j) => u[j].canonical \notin S
    BY DEF AcyclicIn
  <2>2. PICK j \in S : In(rows, j) => rows[j].canonical \notin S
    BY DEF MemoryInv, Sound, AcyclicIn
  <2> QED BY <2>2, <1>1, <1>4
<1>8. Sound(u)
  BY <1>5, <1>6, <1>7, KeepsSound DEF MemoryInv, Sound
<1> QED BY <1>1, <1>3, <1>4, <1>8 DEF u

LEMMA DeleteRefusedStep ==
  ASSUME MemoryInv, DeleteRefused PROVE MemoryInv'
<1>1. PICK i \in work.todo :
        IF InTransaction THEN rows' = saved.rows /\ last' = saved.last
                         ELSE rows' = Unlinked(i) /\ UNCHANGED last
  BY DEF DeleteRefused
<1>2. End /\ UNCHANGED <<batches, rolled, presses>>
  BY DEF DeleteRefused
<1>3. i \in Ids
  BY OpIs, WorkIs DEF DeleteRefused, MemoryInv, Ops
<1>4. CASE InTransaction
  BY <1>1, <1>2, <1>4, UndoSteps DEF MemoryInv, TypeOK
<1>5. CASE ~InTransaction
  BY <1>1, <1>2, <1>3, <1>5, UndoSteps, UnlinkedSound DEF MemoryInv, TypeOK
<1> QED BY <1>4, <1>5

LEMMA DeleteCutStep ==
  ASSUME MemoryInv, DeleteCut PROVE MemoryInv'
<1>1. PICK i \in work.todo : rows' = Unlinked(i)
  BY DEF DeleteCut
<1>2. End /\ UNCHANGED <<last, batches, rolled, presses>>
  BY DEF DeleteCut
<1>3. i \in Ids
  BY OpIs, WorkIs DEF DeleteCut, MemoryInv, Ops
<1> QED BY <1>1, <1>2, <1>3, UndoSteps, UnlinkedSound DEF MemoryInv, TypeOK

LEMMA DeletedSound ==
  ASSUME MemoryInv, NEW i \in Ids, Exists(i), ~Referred(i)
  PROVE  /\ Deleted(i) \in Table /\ Sound(Deleted(i))
         /\ ~In(Deleted(i), i)
         /\ \A j \in Ids \ {i} : /\ In(Deleted(i), j) <=> In(rows, j)
                                 /\ In(rows, j) => Deleted(i)[j].batch = rows[j].batch
<1> DEFINE t == Unlinked(i)
           u == Deleted(i)
<1>1. /\ t \in Table /\ Sound(t)
      /\ \A j \in Ids : /\ In(t, j) <=> In(rows, j)
                        /\ In(rows, j) => /\ t[j] \in Row /\ t[j].revision # i
                                          /\ t[j].canonical = rows[j].canonical
  BY UnlinkedSound
<1>2. u[i] = NoRow
  BY DEF Deleted
<1>3. ASSUME NEW j \in Ids \ {i}, In(rows, j)
      PROVE  u[j] \in Row /\ Alike(t, u, j) /\ t[j].batch = rows[j].batch
  <2>1. rows[i] \in Row /\ rows[j] \in Row
    BY <1>3, RowIs DEF MemoryInv, TypeOK, In, Exists
  <2>2. t[j] \in Row /\ In(t, j)
    BY <1>1, <1>3
  <2>3. u[j] = [t[j] EXCEPT !.age = IF @ > rows[i].age THEN @ - 1 ELSE @]
    BY <1>3 DEF Deleted, In, Exists
  <2>4. t[j].age \in Nat /\ rows[i].age \in Nat
    BY <2>1, <2>2 DEF Row
  <2>5. (IF t[j].age > rows[i].age THEN t[j].age - 1 ELSE t[j].age) \in Nat
    BY <2>4
  <2>6. u[j] \in Row /\ Alike(t, u, j)
    BY <2>2, <2>3, <2>5 DEF Row, Alike, In
  <2>7. t[j].batch = rows[j].batch
    BY <1>3, <2>1 DEF Unlinked, In, Exists, Row
  <2> QED BY <2>6, <2>7
<1>4. ASSUME NEW j \in Ids \ {i}, ~In(rows, j)
      PROVE  u[j] = NoRow
  BY <1>4, RowIs DEF MemoryInv, TypeOK, Deleted, In, Exists
<1>5. u \in Table
  BY <1>2, <1>3, <1>4 DEF Deleted, Table
<1> HIDE DEF t, u
<1>6. ~In(u, i) /\ \A j \in Ids \ {i} : ~In(rows, j) => ~In(u, j)
  BY <1>2, <1>4 DEF In, NoRow
<1>7. \A j \in Ids \ {i} : In(u, j) <=> In(rows, j)
  BY <1>1, <1>3, <1>6 DEF Alike
<1>8. ASSUME NEW j \in Ids, In(u, j)
      PROVE  j # i /\ In(rows, j) /\ In(t, j) /\ Alike(t, u, j)
  BY <1>8, <1>1, <1>3, <1>6, <1>7
<1>9. Keeps(t, u)
  BY <1>8 DEF Keeps, Alike, Open, Current, Reviewed
<1>10. LinkedIn(u)
  <2>1. SUFFICES ASSUME NEW j \in Ids, In(u, j), NEW l \in {u[j].revision, u[j].canonical}, l # None
                 PROVE  In(u, l)
    BY DEF LinkedIn
  <2>2. /\ In(rows, j) /\ In(t, j) /\ l \in {t[j].revision, t[j].canonical}
        /\ j # i /\ t[j] \in Row /\ t[j].revision # i /\ t[j].canonical = rows[j].canonical
    BY <2>1, <1>1, <1>8 DEF Alike
  <2>3. l \in Ids /\ In(t, l)
    BY <2>1, <2>2, <1>1 DEF Sound, LinkedIn, Row, Ids, None
  <2>4. rows[j].canonical # i
    BY <2>2 DEF Referred, In, Exists
  <2> QED BY <2>2, <2>3, <2>4, <1>1, <1>7
<1>11. AcyclicIn(u)
  <2>1. SUFFICES ASSUME NEW S \in (SUBSET Ids) \ {{}}
                 PROVE  \E j \in S : In(u, j) => u[j].canonical \notin S
    BY DEF AcyclicIn
  <2>2. PICK j \in S : In(t, j) => t[j].canonical \notin S
    BY <1>1 DEF Sound, AcyclicIn
  <2> QED BY <2>2, <1>8 DEF Alike
<1>12. Sound(u)
  BY <1>1, <1>9, <1>10, <1>11, KeepsSound DEF Sound
<1> QED BY <1>3, <1>5, <1>6, <1>7, <1>12 DEF u, Alike

LEMMA DeleteNextStep ==
  ASSUME MemoryInv, DeleteNext PROVE MemoryInv'
<1>1. PICK i \in work.todo : /\ ~Referred(i) /\ rows' = Deleted(i)
                             /\ work' = [work EXCEPT !.todo = @ \ {i}]
  BY DEF DeleteNext
<1>2. work.op \in {"rollback", "delete"} /\ UNCHANGED <<last, saved, batches, rolled, presses>>
  BY DEF DeleteNext
<1>3. work # Idle /\ work.todo \subseteq Ids /\ work' \in Works
  BY <1>1, <1>2, OpIs, WorkIs DEF MemoryInv, Ops
<1>4. i \in Ids /\ Exists(i)
  BY <1>1, <1>2, <1>3 DEF MemoryInv, WorkInv
<1>5. /\ Deleted(i) \in Table /\ Sound(Deleted(i)) /\ ~In(Deleted(i), i)
      /\ \A j \in Ids \ {i} : /\ In(Deleted(i), j) <=> In(rows, j)
                              /\ In(rows, j) => Deleted(i)[j].batch = rows[j].batch
  BY <1>1, <1>4, DeletedSound
<1>6. WorkInv'
  <2>1. work'.op = work.op /\ work'.batch = work.batch /\ work'.todo = work.todo \ {i}
    BY <1>1, <1>3 DEF MemoryInv, TypeOK, Works
  <2>2. \A j \in work'.todo : Exists(j)'
    BY <1>1, <1>2, <1>3, <1>5, <2>1 DEF MemoryInv, WorkInv, Exists, In
  <2>3. OfBatch(work.batch)' \subseteq OfBatch(work.batch) \ {i}
    BY <1>1, <1>5, <2>1 DEF OfBatch, Exists, In
  <2>4. work.op = "rollback" =>
          work'.batch \in 1 .. batches' /\ OfBatch(work.batch)' \subseteq work'.todo
    BY <1>2, <2>1, <2>3 DEF MemoryInv, WorkInv
  <2> QED BY <1>2, <2>1, <2>2, <2>4 DEF WorkInv
<1>7. TypeOK'
  BY <1>1, <1>2, <1>3, <1>5 DEF MemoryInv, TypeOK
<1>8. Sound(rows)'
  BY <1>1, <1>2, <1>5, SoundStays
<1>9. Sound(saved.rows)'
  BY <1>2, SoundSaved DEF MemoryInv
<1> QED BY <1>6, <1>7, <1>8, <1>9 DEF MemoryInv

-----------------------------------------------------------------------------
(* Captures.                                                               *)

LEMMA RelatedIs ==
  ASSUME NEW c
  PROVE  /\ Related(c) \in SUBSET Ids /\ \A i \in Related(c) : Exists(i)
         /\ Latest(Related(c)) \in Related(c) \cup {None}
<1>1. Related(c) \in SUBSET Ids /\ \A i \in Related(c) : Exists(i)
  BY DEF Related, Live, Exists
<1>2. Latest(Related(c)) \in Related(c) \cup {None}
  BY DEF Latest
<1> QED BY <1>1, <1>2

\* What Persist leaves of an older row.
LEMMA AnsweredIs ==
  ASSUME MemoryInv, NEW related \in SUBSET Ids, NEW i \in Ids, Exists(i),
         work.correcting \in BOOLEAN
  PROVE  LET r == Answered(i, related) IN
         /\ r \in Row /\ r.claim = rows[i].claim /\ r.batch = rows[i].batch
         /\ r.revision = rows[i].revision /\ r.canonical = rows[i].canonical
         /\ r.confirmed = rows[i].confirmed
         /\ i \notin related => r.status = rows[i].status /\ r.conflict = rows[i].conflict
         /\ i \in related /\ work.correcting =>
              r.status = "superseded" /\ r.conflict = rows[i].conflict
         /\ i \in related /\ ~work.correcting =>
              r.status = rows[i].status /\ r.conflict = "conflict"
<1>1. rows[i] \in Row
  BY RowIs DEF MemoryInv, TypeOK, In, Exists
<1>2. /\ AgeAfter(i, related, 0) \in Nat
      /\ AgeAfter(i, related, 1) \in Nat
  BY AgeIs DEF MemoryInv
<1> DEFINE age == IF work.correcting THEN AgeAfter(i, related, 0) + 1
                                     ELSE AgeAfter(i, related, 1)
           q == [rows[i] EXCEPT !.age = age]
<1>3. age \in Nat
  BY <1>2
<1>4. Answered(i, related) =
        IF i \notin related THEN q
        ELSE IF work.correcting THEN [q EXCEPT !.status = "superseded"]
        ELSE [q EXCEPT !.conflict = "conflict"]
  BY DEF Answered
<1> HIDE DEF age
<1> QED BY <1>1, <1>3, <1>4 DEF Row, Statuses, Conflicts

LEMMA PersistStep ==
  ASSUME MemoryInv, NEW c \in Claims, Persist(c) PROVE MemoryInv'
<1> DEFINE related == Related(c)
           n == last + 1
           u == [i \in Ids |-> IF i = n THEN Candidate(c, related)
                               ELSE IF Exists(i) THEN Answered(i, related)
                               ELSE rows[i]]
<1>1. /\ work.op \in {"note", "update"} /\ last < MaxRows /\ rows' = u /\ last' = n
      /\ UNCHANGED <<work, saved, batches, rolled, presses>>
  BY DEF Persist
<1>2. /\ last \in 0 .. MaxRows /\ batches \in 0 .. MaxBatches /\ rolled \subseteq 1 .. batches
      /\ MaxRows \in Nat /\ MaxBatches \in Nat
  BY BoundsAssumption DEF MemoryInv, TypeOK
<1>3. n \in Ids /\ n \in 0 .. MaxRows
  BY <1>1, <1>2 DEF Ids
<1>4. work.batch \in 0 .. MaxBatches /\ work.correcting \in BOOLEAN
  BY <1>1, OpIs, WorkIs DEF MemoryInv, Ops
<1>5. work.batch \notin rolled
  <2>1. work.batch = None \/ work.batch = batches + 1
    BY <1>1 DEF MemoryInv, WorkInv
  <2> QED BY <1>2, <2>1 DEF None
<1>6. /\ related \in SUBSET Ids /\ \A i \in related : Exists(i)
      /\ Latest(related) \in related \cup {None}
  BY RelatedIs
<1>7. /\ u[n].claim = c /\ u[n].batch = work.batch /\ u[n].status = "candidate"
      /\ u[n].conflict = IF related # {} /\ ~work.correcting THEN "conflict" ELSE "none"
      /\ u[n].confirmed = FALSE /\ u[n].revision = Latest(related) /\ u[n].canonical = None
      /\ u[n] = Candidate(c, related)
  BY <1>3 DEF Candidate
<1>8. u[n] \in Row
  <2>1. Cardinality(related) \in Nat
    BY <1>6, IdsFinite, FS_Subset, FS_CardinalityType
  <2>2. Latest(related) \in 0 .. MaxRows /\ None \in 0 .. MaxRows
    BY <1>2, <1>6 DEF Ids, None
  <2> DEFINE age == IF work.correcting THEN 0 ELSE Cardinality(related)
             conflict == IF related # {} /\ ~work.correcting THEN "conflict" ELSE "none"
             revision == Latest(related)
  <2>3. age \in Nat /\ conflict \in Conflicts /\ revision \in 0 .. MaxRows
    BY <2>1, <2>2 DEF Conflicts
  <2>4. u[n] = [claim |-> c, batch |-> work.batch, status |-> "candidate",
                conflict |-> conflict, confirmed |-> FALSE, revision |-> revision,
                canonical |-> None, age |-> age]
    BY <1>7 DEF Candidate
  <2> HIDE DEF age, conflict, revision, u
  <2> QED BY <1>4, <2>2, <2>3, <2>4 DEF Row, Statuses
<1>9. ASSUME NEW i \in Ids \ {n}, In(rows, i)
      PROVE  /\ u[i] \in Row /\ u[i].claim = rows[i].claim /\ u[i].batch = rows[i].batch
             /\ u[i].revision = rows[i].revision /\ u[i].canonical = rows[i].canonical
             /\ u[i].confirmed = rows[i].confirmed
             /\ i \notin related => u[i].status = rows[i].status /\ u[i].conflict = rows[i].conflict
             /\ i \in related /\ work.correcting =>
                  u[i].status = "superseded" /\ u[i].conflict = rows[i].conflict
             /\ i \in related /\ ~work.correcting =>
                  u[i].status = rows[i].status /\ u[i].conflict = "conflict"
  <2>1. Exists(i) /\ u[i] = Answered(i, related)
    BY <1>9 DEF In, Exists
  <2> HIDE DEF u, related
  <2> QED BY <2>1, <1>4, <1>6, <1>9, AnsweredIs
<1>10. ASSUME NEW i \in Ids \ {n}, ~In(rows, i)
       PROVE  u[i] = NoRow
  BY <1>10, RowIs DEF MemoryInv, TypeOK, In, Exists
<1>11. u \in Table
  <2>1. ASSUME NEW i \in Ids PROVE u[i] \in Row \cup {NoRow}
    BY <1>8, <1>9, <1>10
  <2> QED BY <2>1 DEF Table
<1> HIDE DEF u, n
<1>12. /\ In(u, n)
       /\ \A i \in Ids \ {n} : In(u, i) <=> In(rows, i)
  <2>1. In(u, n)
    BY <1>7 DEF In
  <2>2. ASSUME NEW i \in Ids \ {n}, In(rows, i) PROVE In(u, i)
    BY <1>9, <2>2 DEF In, Row, Statuses
  <2>3. ASSUME NEW i \in Ids \ {n}, ~In(rows, i) PROVE ~In(u, i)
    BY <1>10, <2>3 DEF In, NoRow
  <2> QED BY <2>1, <2>2, <2>3
<1>13. LinkedIn(u)
  <2>1. SUFFICES ASSUME NEW j \in Ids, In(u, j), NEW l \in {u[j].revision, u[j].canonical}, l # None
                 PROVE  In(u, l)
    BY DEF LinkedIn
  <2>2. CASE j = n
    <3>1. l \in related
      BY <2>1, <2>2, <1>6, <1>7
    <3> QED BY <3>1, <1>6, <1>12 DEF In, Exists
  <2>3. CASE j # n
    <3>1. In(rows, j) /\ l \in {rows[j].revision, rows[j].canonical}
      BY <2>1, <2>3, <1>9, <1>12
    <3>2. l \in Ids /\ In(rows, l)
      BY <2>1, <3>1, RowIs DEF MemoryInv, TypeOK, Sound, LinkedIn, Row, Ids, None
    <3> QED BY <3>2, <1>12
  <2> QED BY <2>2, <2>3
<1>14. AcyclicIn(u)
  <2>1. SUFFICES ASSUME NEW S \in (SUBSET Ids) \ {{}}
                 PROVE  \E j \in S : In(u, j) => u[j].canonical \notin S
    BY DEF AcyclicIn
  <2>2. CASE n \in S
    BY <2>2, <1>7 DEF Ids, None
  <2>3. CASE n \notin S
    <3>1. PICK j \in S : In(rows, j) => rows[j].canonical \notin S
      BY DEF MemoryInv, Sound, AcyclicIn
    <3> QED BY <3>1, <2>3, <1>9, <1>12
  <2> QED BY <2>2, <2>3
<1>15. ASSUME NEW i \in Ids \ {n}, Open(u, i)
       PROVE  Open(rows, i) /\ u[i].claim = rows[i].claim /\ i \notin related
  <2>1. In(rows, i)
    BY <1>12, <1>15, OpenIsIn
  <2>2. i \notin related
    BY <2>1, <1>4, <1>9, <1>15 DEF Open, Current
  <2> QED BY <2>1, <2>2, <1>9, <1>15 DEF Open, Current, Reviewed
<1>16. ASSUME NEW i \in Ids \ {n}, Open(u, i), Open(u, n)
       PROVE  ~Contradict(u[i].claim, c) /\ ~Contradict(c, u[i].claim)
  <2>1. Open(rows, i) /\ u[i].claim = rows[i].claim /\ i \notin related
    BY <1>15, <1>16
  <2>2. Live(i)
    BY <2>1 DEF Open, Current, Live
  <2> QED BY <2>1, <2>2 DEF Related, Contradict, Plain
<1>17. ConsistentIn(u)
  <2>1. SUFFICES ASSUME NEW i \in Ids, NEW j \in Ids, Open(u, i), Open(u, j)
                 PROVE  ~Contradict(u[i].claim, u[j].claim)
    BY DEF ConsistentIn, Open
  <2>2. CASE i = n \/ j = n
    BY <2>1, <2>2, <1>7, <1>16 DEF Contradict
  <2>3. CASE i # n /\ j # n
    BY <2>1, <2>3, <1>15 DEF MemoryInv, Sound, ConsistentIn, Open
  <2> QED BY <2>2, <2>3
<1>18. GoneIn(u)
  BY <1>5, <1>7, <1>9, <1>12 DEF GoneIn, MemoryInv, Sound
<1>19. TypeOK'
  BY <1>1, <1>3, <1>11 DEF MemoryInv, TypeOK, n
<1>20. WorkInv'
  BY <1>1 DEF MemoryInv, WorkInv
<1>21. Sound(rows)'
  BY <1>1, <1>13, <1>14, <1>17, <1>18, SoundStays DEF Sound
<1>22. Sound(saved.rows)'
  BY <1>1, SoundSaved DEF MemoryInv
<1> QED BY <1>19, <1>20, <1>21, <1>22 DEF MemoryInv

-----------------------------------------------------------------------------
(* The theorems.                                                           *)

LEMMA InitInv == Init => MemoryInv
<1> SUFFICES ASSUME Init PROVE MemoryInv
  OBVIOUS
<1>1. /\ rows = Unsaved.rows /\ saved = Unsaved /\ last = 0 /\ work = Idle
      /\ batches = 0 /\ rolled = {} /\ presses = 0
  BY DEF Init, Unsaved
<1>2. 0 \in 0 .. MaxRows /\ 0 \in 0 .. MaxBatches /\ 0 \in 0 .. MaxPresses
  BY BoundsAssumption
<1>3. Unsaved.rows \in Table
  BY UnsavedIs
<1>4. TypeOK
  BY <1>1, <1>2, <1>3, UnsavedIs DEF TypeOK, Works
<1>5. WorkInv
  BY <1>1 DEF WorkInv, Idle
<1> QED BY <1>1, <1>4, <1>5, UnsavedIs DEF MemoryInv

LEMMA StepInv == MemoryInv /\ [Next]_vars => MemoryInv'
<1> SUFFICES ASSUME MemoryInv, [Next]_vars PROVE MemoryInv'
  OBVIOUS
<1>1. CASE Captures
  BY <1>1, BeginSteps, PersistStep, EndSteps DEF Captures
<1>2. CASE Deletions
  BY <1>2, BeginSteps, DeleteNextStep, DeleteRefusedStep, DeleteCutStep, EndSteps
  DEF Deletions
<1>3. CASE Reviews
  BY <1>3, ButtonSteps, BeginChooseStep, ChooseNextStep, EndSteps DEF Reviews
<1>4. CASE Interrupt
  BY <1>4, InterruptStep
<1>5. CASE UNCHANGED vars
  <2>1. TypeOK' /\ WorkInv'
    BY <1>5 DEF vars, MemoryInv, TypeOK, WorkInv, OfBatch, Exists
  <2>2. Sound(rows)'
    BY <1>5, SoundStays DEF vars, MemoryInv
  <2>3. Sound(saved.rows)'
    BY <1>5, SoundSaved DEF vars, MemoryInv
  <2> QED BY <2>1, <2>2, <2>3 DEF MemoryInv
<1> QED BY <1>1, <1>2, <1>3, <1>4, <1>5 DEF Next

\* The inductive invariant: the table, the one a transaction goes back to and
\* the position of the handler at work fit together, in every order of
\* captures, reviews, deletions and rollbacks (MemoryService, MemoryViewService,
\* MemoryItemRepository).
THEOREM MemoryInvariant == Spec => []MemoryInv
BY InitInv, StepInv, PTL DEF Spec

\* Every variable of the memories has its type.
THEOREM TypeCorrect == Spec => []TypeOK
<1>1. MemoryInv => TypeOK
  BY DEF MemoryInv
<1> QED BY <1>1, MemoryInvariant, PTL

\* No memory refers to one that is gone (MemoryItemRepository.delete,
\* select_canonical), wherever a handler is cut off.
THEOREM NoDanglingLink == Spec => []LinksKept
<1>1. MemoryInv => LinksKept
  BY DEF MemoryInv, Sound, LinksKept
<1> QED BY <1>1, MemoryInvariant, PTL

\* Claims are never superseded in a circle (MemoryItemRepository.
\* select_canonical), whichever claims the owner chooses one after another.
THEOREM NoCircle == Spec => []CanonicalAcyclic
<1>1. MemoryInv => CanonicalAcyclic
  BY DEF MemoryInv, Sound, CanonicalAcyclic
<1> QED BY <1>1, MemoryInvariant, PTL

\* Two contradicting claims are both used in answers only after a review
\* (MemoryService.persist_candidates).
THEOREM Consistent == Spec => []AnswersConsistent
<1>1. MemoryInv => AnswersConsistent
  BY DEF MemoryInv, Sound, AnswersConsistent
<1> QED BY <1>1, MemoryInvariant, PTL

\* The memories of a rolled back update are gone for good
\* (CaptureService.rollback_recent_knowledge_update).
THEOREM Gone == Spec => []RolledBackGone
<1>1. MemoryInv => RolledBackGone
  BY DEF MemoryInv, Sound, RolledBackGone
<1> QED BY <1>1, MemoryInvariant, PTL
=============================================================================
