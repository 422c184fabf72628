-------------------------- MODULE MemoryLifecycle --------------------------
(***************************************************************************)
(* The memories: captured from notes or stated about an entity, in         *)
(* contradiction with older claims, superseded by a correction, reviewed   *)
(* by buttons, deleted, rolled back batch by batch                         *)
(* (services/memory_service.py, memory_view_service.py,                    *)
(* capture_service.py, conversation_service.py, MemoryItemRepository).     *)
(*                                                                         *)
(* The owner's updates are handled one after another and no loop writes    *)
(* memories. "work" is the position of the handler between two statements: *)
(* each commits by itself, except in a capture and in a rollback, which    *)
(* run in a transaction; "saved" is what a transaction goes back to.       *)
(***************************************************************************)
EXTENDS Naturals, FiniteSets

CONSTANTS Claims,      \* [bucket, project, topic, text]: what can be stated
          MaxRows,     \* bound on the memories ever created
          MaxBatches,  \* bound on the knowledge updates
          MaxPresses   \* bound on the buttons and texts that change memories

NoProject == "no project"
Buckets == {"project", "profile"}

ASSUME BoundsAssumption ==
  /\ MaxRows \in Nat /\ MaxBatches \in Nat /\ MaxPresses \in Nat
ASSUME ClaimsAssumption ==
  \A c \in Claims : c.bucket \in Buckets

VARIABLES rows,     \* the table memory_items, by order of creation
          last,     \* the number of rows ever created
          work,     \* the handler that is at work
          saved,    \* rows and last before the open transaction
          batches,  \* number of processed knowledge updates
          rolled,   \* the ones tagged rolled_back
          presses

vars == <<rows, last, work, saved, batches, rolled, presses>>

Ids == 1 .. MaxRows
None == 0                       \* NULL of a link; batch of an ordinary note
Statuses == {"candidate", "active", "superseded", "rejected"}
Conflicts == {"none", "conflict", "resolved"}

\* A row. "batch" is the knowledge update it came from, "age" its place in
\* ORDER BY updated_at DESC, "confirmed" whether last_confirmed_at is set.
Row == [claim : Claims, batch : 0 .. MaxBatches, status : Statuses,
        conflict : Conflicts, confirmed : BOOLEAN,
        revision : 0 .. MaxRows, canonical : 0 .. MaxRows, age : Nat]
NoRow == [status |-> "absent"]

Idle == [op |-> "idle"]
Ops == {"note", "update", "rollback", "delete", "choose"}
Works == {Idle} \cup
         [op : Ops, batch : 0 .. MaxBatches, target : 0 .. MaxRows,
          correcting : BOOLEAN, todo : SUBSET Ids]
Work(op, batch, target, correcting, todo) ==
  [op |-> op, batch |-> batch, target |-> target, correcting |-> correcting,
   todo |-> todo]
Unsaved == [rows |-> [i \in Ids |-> NoRow], last |-> 0]
End == work' = Idle /\ saved' = Unsaved
InTransaction == work.op \in {"note", "update", "rollback"}

Exists(i) == rows[i].status # "absent"
Live(i) == rows[i].status \in {"candidate", "active"}

\* A row keeps its project in the project bucket only, but is looked up by the
\* project of the new claim.
Stored(c) == IF c.bucket = "project" THEN c.project ELSE NoProject

\* Faulty variant: only confirmed memories are compared.
RelatedToConfirmed(c) == {i \in Ids : /\ rows[i].status = "active"
                                      /\ rows[i].claim.bucket = c.bucket
                                      /\ Stored(rows[i].claim) = c.project
                                      /\ rows[i].claim.topic = c.topic
                                      /\ rows[i].claim.text # c.text}
\* MemoryService.related_items: a live claim of the same bucket, scope and
\* topic that says something else.
Related(c) == {i \in Ids : /\ Live(i)
                           /\ rows[i].claim.bucket = c.bucket
                           /\ Stored(rows[i].claim) = c.project
                           /\ rows[i].claim.topic = c.topic
                           /\ rows[i].claim.text # c.text}

\* The most recently updated of S, NULL if there is none.
Latest(S) ==
  IF \E i \in S : \A j \in S : rows[i].age <= rows[j].age
  THEN CHOOSE i \in S : \A j \in S : rows[i].age <= rows[j].age
  ELSE None

\* S updated one after another in the order of list_all, so that the oldest
\* is the most recent in the end; "ahead" more rows are updated just before.
Older(i, S) == {j \in S : rows[j].age > rows[i].age}
AgeAfter(i, S, ahead) ==
  IF i \in S THEN Cardinality(Older(i, S))
  ELSE rows[i].age + Cardinality(Older(i, S)) + ahead

Updated(i, r) ==
  [j \in Ids |->
     IF j = i THEN [r EXCEPT !.age = 0]
     ELSE IF Exists(j) THEN [rows[j] EXCEPT !.age = AgeAfter(j, {i}, 0)]
     ELSE rows[j]]

-----------------------------------------------------------------------------
Init == /\ rows = [i \in Ids |-> NoRow]
        /\ last = 0
        /\ work = Idle
        /\ saved = Unsaved
        /\ batches = 0
        /\ rolled = {}
        /\ presses = 0

\* CaptureService.capture and capture_scoped_knowledge enter their
\* transaction; only the note of a correction supersedes what it contradicts.
BeginNote ==
  /\ work = Idle
  /\ \E correcting \in BOOLEAN :
       work' = Work("note", None, None, correcting, {})
  /\ saved' = [rows |-> rows, last |-> last]
  /\ UNCHANGED <<rows, last, batches, rolled, presses>>

BeginUpdate ==
  /\ work = Idle
  /\ batches < MaxBatches
  /\ work' = Work("update", batches + 1, None, FALSE, {})
  /\ saved' = [rows |-> rows, last |-> last]
  /\ UNCHANGED <<rows, last, batches, rolled, presses>>

\* The row of a new claim.
Candidate(c, related) ==
  [claim |-> c, batch |-> work.batch, status |-> "candidate",
   conflict |-> IF related # {} /\ ~work.correcting THEN "conflict" ELSE "none",
   confirmed |-> FALSE, revision |-> Latest(related), canonical |-> None,
   age |-> IF work.correcting THEN 0 ELSE Cardinality(related)]

\* What a correction (forget) or a contradiction (mark_conflict) leaves of
\* the claims the new one is related to.
Answered(i, related) ==
  LET r == [rows[i] EXCEPT
              !.age = IF work.correcting
                      THEN AgeAfter(i, related, 0) + 1
                      ELSE AgeAfter(i, related, 1)] IN
  IF i \notin related THEN r
  ELSE IF work.correcting THEN [r EXCEPT !.status = "superseded"]
  ELSE [r EXCEPT !.conflict = "conflict"]

\* MemoryService.persist_candidates, one candidate.
Persist(c) ==
  /\ work.op \in {"note", "update"}
  /\ last < MaxRows
  /\ LET related == Related(c) IN
     rows' = [i \in Ids |->
                IF i = last + 1 THEN Candidate(c, related)
                ELSE IF Exists(i) THEN Answered(i, related)
                ELSE rows[i]]
  /\ last' = last + 1
  /\ UNCHANGED <<work, saved, batches, rolled, presses>>

\* The transaction of a capture is committed.  The note of an update without
\* statements is tagged as a knowledge update too.
Commit ==
  /\ \/ work.op = "note" /\ batches' = batches
     \/ work.op = "update" /\ batches' = work.batch
  /\ End
  /\ UNCHANGED <<rows, last, rolled, presses>>

-----------------------------------------------------------------------------
\* The row that MemoryItemRepository.delete is called for next: rollback
\* reads the rows of a note as they were inserted, delete_matching the whole
\* table by updated_at.
First(i) ==
  /\ i \in work.todo
  /\ \A j \in work.todo :
       IF work.op = "rollback" THEN i <= j ELSE rows[i].age <= rows[j].age

\* Faulty variant: PRAGMA foreign_keys is left off.
Unchecked(i) == FALSE

\* PRAGMA foreign_keys is on: a row some canonical_memory_id refers to is
\* not deleted.
Referred(i) == \E j \in Ids \ {i} : Exists(j) /\ rows[j].canonical = i

\* First statement: the revisions of the row lose their link.
Unlinked(i) ==
  [j \in Ids |-> IF Exists(j) /\ rows[j].revision = i
                 THEN [rows[j] EXCEPT !.revision = None] ELSE rows[j]]

Deleted(i) ==
  [j \in Ids |->
     IF j = i THEN NoRow
     ELSE IF ~Exists(j) THEN rows[j]
     ELSE [Unlinked(i)[j] EXCEPT
             !.age = IF @ > rows[i].age THEN @ - 1 ELSE @]]

DeleteNext ==
  /\ work.op \in {"rollback", "delete"}
  /\ \E i \in work.todo :
       /\ First(i)
       /\ ~Referred(i)
       /\ rows' = Deleted(i)
       /\ work' = [work EXCEPT !.todo = @ \ {i}]
  /\ UNCHANGED <<last, saved, batches, rolled, presses>>

\* Faulty variant: a refused deletion is passed over.
DeleteSkipped ==
  /\ work.op \in {"rollback", "delete"}
  /\ \E i \in work.todo :
       /\ First(i)
       /\ Referred(i)
       /\ work' = [work EXCEPT !.todo = @ \ {i}]
  /\ UNCHANGED <<rows, last, saved, batches, rolled, presses>>

\* IntegrityError: a rollback is undone as a whole, a deletion by query stops
\* half way, the links to the refused row already cleared.
DeleteRefused ==
  /\ work.op \in {"rollback", "delete"}
  /\ \E i \in work.todo :
       /\ First(i)
       /\ Referred(i)
       /\ IF InTransaction THEN rows' = saved.rows /\ last' = saved.last
                           ELSE rows' = Unlinked(i) /\ UNCHANGED last
  /\ End
  /\ UNCHANGED <<batches, rolled, presses>>

\* Outside a transaction each statement is a commit: an end of the process
\* between the two leaves the row without its revisions.
DeleteCut ==
  /\ work.op = "delete"
  /\ \E i \in work.todo : First(i) /\ rows' = Unlinked(i)
  /\ End
  /\ UNCHANGED <<last, batches, rolled, presses>>

\* delete_matching has gone through its list.
DeleteDone ==
  /\ work.op = "delete" /\ work.todo = {}
  /\ End
  /\ UNCHANGED <<rows, last, batches, rolled, presses>>

\* The last deletion of a rollback, and the tag of its note, committed.
RollbackDone ==
  /\ work.op = "rollback" /\ work.todo = {}
  /\ rolled' = rolled \cup {work.batch}
  /\ End
  /\ UNCHANGED <<rows, last, batches, presses>>

\* MemoryService.delete_matching: the memories a query matches.
BeginDelete ==
  /\ work = Idle
  /\ presses < MaxPresses
  /\ \E M \in {{i \in Ids : Exists(i) /\ rows[i].claim.text = t} :
                 t \in {c.text : c \in Claims}} :
       M # {} /\ work' = Work("delete", None, None, FALSE, M)
  /\ presses' = presses + 1
  /\ UNCHANGED <<rows, last, saved, batches, rolled>>

\* The latest knowledge update that is not rolled back; an update that
\* has no memories, or none any more, stays the latest.
Undoable == {b \in 1 .. batches : /\ b \notin rolled
                                  /\ \A a \in 1 .. batches : a > b => a \in rolled}

\* list_by_note.
OfBatch(b) == {i \in Ids : Exists(i) /\ rows[i].batch = b}

\* CaptureService.rollback_recent_knowledge_update.
BeginRollback ==
  /\ work = Idle
  /\ presses < MaxPresses
  /\ \E b \in Undoable :
       /\ OfBatch(b) # {}
       /\ work' = Work("rollback", b, None, FALSE, OfBatch(b))
  /\ saved' = [rows |-> rows, last |-> last]
  /\ presses' = presses + 1
  /\ UNCHANGED <<rows, last, batches, rolled>>

-----------------------------------------------------------------------------
\* A button of the review inbox, pressed now or long after it was shown.
Press(i, r) ==
  /\ work = Idle
  /\ presses < MaxPresses
  /\ rows' = Updated(i, r)
  /\ presses' = presses + 1
  /\ UNCHANGED <<last, work, saved, batches, rolled>>

Confirm(i) ==
  /\ Exists(i)
  /\ Press(i, [rows[i] EXCEPT !.status = "active", !.confirmed = TRUE])

\* Faulty variant: a status the enumeration does not have.
RejectUnknown(i) ==
  /\ Exists(i)
  /\ Press(i, [rows[i] EXCEPT !.status = "deleted"])

Reject(i) ==
  /\ Exists(i)
  /\ Press(i, [rows[i] EXCEPT !.status = "rejected"])

MarkStale(i) ==
  /\ Exists(i)
  /\ Press(i, [rows[i] EXCEPT !.status = "superseded"])

\* ConversationService: "that is not a memory", "do not keep it" and the
\* deletion without a query reject the live memory updated last.
RejectRecent ==
  \E i \in Ids :
    /\ Live(i)
    /\ \A j \in Ids : Live(j) => rows[i].age <= rows[j].age
    /\ Press(i, [rows[i] EXCEPT !.status = "rejected"])

\* The claims select_canonical settles together with i.
Group(i) ==
  {j \in Ids \ {i} :
     /\ Exists(j)
     /\ \/ rows[j].revision = i
        \/ rows[i].revision = j
        \/ rows[i].revision # None /\ rows[j].revision = rows[i].revision}

\* Faulty variant: the chosen claim keeps pointing to the one it lost against.
BeginChooseLinked(i) ==
  /\ work = Idle
  /\ presses < MaxPresses
  /\ Exists(i) /\ rows[i].conflict # "none"
  /\ work' = Work("choose", None, i, FALSE, Group(i))
  /\ rows' = Updated(i, [rows[i] EXCEPT !.status = "active", !.conflict = "resolved"])
  /\ presses' = presses + 1
  /\ UNCHANGED <<last, saved, batches, rolled>>

\* select_canonical, first statement. The button is shown for claims in
\* conflict; such a claim is never "none" again.
BeginChoose(i) ==
  /\ work = Idle
  /\ presses < MaxPresses
  /\ Exists(i) /\ rows[i].conflict # "none"
  /\ work' = Work("choose", None, i, FALSE, Group(i))
  /\ rows' = Updated(i, [rows[i] EXCEPT !.status = "active", !.canonical = None,
                                        !.conflict = "resolved"])
  /\ presses' = presses + 1
  /\ UNCHANGED <<last, saved, batches, rolled>>

\* One statement per losing claim, each committed by itself. Their order only
\* decides the ages of rows that are not live.
ChooseNext(j) ==
  /\ work.op = "choose"
  /\ j \in work.todo
  /\ rows' = Updated(j, [rows[j] EXCEPT !.status = "superseded",
                                        !.canonical = work.target,
                                        !.conflict = "resolved"])
  /\ work' = [work EXCEPT !.todo = @ \ {j}]
  /\ UNCHANGED <<last, saved, batches, rolled, presses>>

ChooseDone ==
  /\ work.op = "choose" /\ work.todo = {}
  /\ End
  /\ UNCHANGED <<rows, last, batches, rolled, presses>>

\* The handler raises or the process ends: an open transaction is undone, the
\* statements committed by themselves stay.
Interrupt ==
  /\ work # Idle
  /\ IF InTransaction THEN rows' = saved.rows /\ last' = saved.last
                      ELSE UNCHANGED <<rows, last>>
  /\ End
  /\ UNCHANGED <<batches, rolled, presses>>

Captures == BeginNote \/ BeginUpdate \/ (\E c \in Claims : Persist(c)) \/ Commit
Deletions == \/ BeginDelete \/ BeginRollback \/ DeleteNext \/ DeleteRefused
             \/ DeleteCut \/ DeleteDone \/ RollbackDone
Reviews == \/ \E i \in Ids : \/ Confirm(i) \/ Reject(i) \/ MarkStale(i)
                             \/ BeginChoose(i) \/ ChooseNext(i)
           \/ RejectRecent \/ ChooseDone

Next == Captures \/ Deletions \/ Reviews \/ Interrupt

Spec == Init /\ [][Next]_vars

-----------------------------------------------------------------------------
Table == [Ids -> Row \cup {NoRow}]

\* Every variable has its type.
TypeOK == /\ rows \in Table
          /\ last \in 0 .. MaxRows
          /\ work \in Works
          /\ saved \in [rows : Table, last : 0 .. MaxRows]
          /\ batches \in 0 .. MaxBatches
          /\ rolled \in SUBSET (1 .. batches)
          /\ presses \in 0 .. MaxPresses

In(t, i) == t[i].status # "absent"
Current(t, i) == t[i].status \in {"candidate", "active"}

\* No memory refers to one that is gone, whichever of its statements a
\* deletion, a choice or a rollback was cut off after.
LinkedIn(t) == \A i \in Ids : In(t, i) =>
                 \A l \in {t[i].revision, t[i].canonical} : l = None \/ In(t, l)
LinksKept == LinkedIn(rows)

\* Following canonical_memory_id ends: no set of memories is superseded in a
\* circle, in whatever order canonical claims are chosen.
AcyclicIn(t) == \A S \in (SUBSET Ids) \ {{}} :
                  \E i \in S : In(t, i) => t[i].canonical \notin S
CanonicalAcyclic == AcyclicIn(rows)

\* Two claims contradict each other. A claim looked up by a project it is not
\* stored with (Stored) never meets another one and is left out.
Plain(c) == Stored(c) = c.project
Contradict(c, d) ==
  /\ Plain(c) /\ Plain(d)
  /\ c.bucket = d.bucket /\ c.project = d.project /\ c.topic = d.topic
  /\ c.text # d.text

\* Knowledge answers leave out claims in conflict: of two claims that
\* contradict each other both are used only if the owner reviewed one.
Reviewed(t, i) == t[i].confirmed \/ t[i].conflict = "resolved"
ConsistentIn(t) ==
  \A i, j \in Ids :
    /\ Current(t, i) /\ t[i].conflict # "conflict"
    /\ Current(t, j) /\ t[j].conflict # "conflict"
    /\ Contradict(t[i].claim, t[j].claim)
    => Reviewed(t, i) \/ Reviewed(t, j)
AnswersConsistent == ConsistentIn(rows)

\* A batch that is tagged as rolled back has no memory left, and never gets
\* one again.
GoneIn(t) == \A i \in Ids : In(t, i) => t[i].batch \notin rolled
RolledBackGone == GoneIn(rows)

\* What docs/architecture.md says of the review: the claims that lose are
\* superseded. When a choice is complete, no claim that contradicts the chosen
\* one is current any more, unless the owner confirmed it.
LosersSuperseded ==
  work.op = "choose" /\ work.todo = {} =>
    \A j \in Ids : Live(j) /\ ~rows[j].confirmed =>
                     ~Contradict(rows[work.target].claim, rows[j].claim)

\* What docs/architecture.md says of a batch: the latest knowledge update can
\* be rolled back.
RollbackPossible ==
  \A b \in Undoable : \A i \in OfBatch(b) :
    \A j \in Ids \ OfBatch(b) : Exists(j) => rows[j].canonical # i

=============================================================================
