-------------------------- MODULE NoteCaptureProofs --------------------------
(***************************************************************************)
(* Proofs about NoteCapture, for any number of messages, presses and       *)
(* restarts.                                                               *)
(***************************************************************************)
EXTENDS NoteCapture, TLAPS

\* Messages whose objects are still to be derived.
Pending(m) ==
  \/ note[m] \in {"absent", "failed"}
  \/ msg = m /\ at \in {"created", "open", "derive", "failing"}

Unpressed(m) ==
  presses[m] = 0 =>
    /\ derived[m] + stated[m] <= 1
    /\ Pending(m) => derived[m] = 0 /\ stated[m] = 0
    /\ m \in Recurring => note[m] # "failed"

\* Where the handler may be with a message; notes in use exist.
Reached ==
  /\ at # "idle" => note[msg] # "absent"
  /\ \A m \in prompts : note[m] # "absent"
  /\ at \in {"derive", "failing"} => msg \notin Recurring
  /\ at = "reopened" => presses[msg] > 0

CaptureInv == TypeOK /\ Reached /\ \A m \in Message : Unpressed(m)

-----------------------------------------------------------------------------

\* A note that is created extends the order of notes.
LEMMA OrderGrows ==
  ASSUME TypeOK, NEW m \in Message, note[m] = "absent",
         UpdateStatus(m, "captured"), order' = Append(order, m)
  PROVE  /\ note' \in [Message -> Status] /\ order' \in Seq(Message)
         /\ \A x \in Message : note'[x] # "absent" <=> \E i \in DOMAIN order' : order'[i] = x
<1>1. note' = [note EXCEPT ![m] = "captured"] /\ note \in [Message -> Status] /\ order \in Seq(Message)
  BY DEF TypeOK, UpdateStatus
<1>2. note' \in [Message -> Status] /\ order' \in Seq(Message)
  BY <1>1 DEF Status
<1>3. /\ DOMAIN order' = 1 .. Len(order) + 1 /\ DOMAIN order = 1 .. Len(order)
      /\ order'[Len(order) + 1] = m /\ Len(order) \in Nat
      /\ \A i \in DOMAIN order : order'[i] = order[i]
  BY <1>1
<1>4. ASSUME NEW x \in Message
      PROVE  note'[x] # "absent" <=> \E i \in DOMAIN order' : order'[i] = x
  <2>1. note[x] # "absent" <=> \E i \in DOMAIN order : order[i] = x
    BY DEF TypeOK
  <2>2. CASE x = m
    BY <1>1, <1>3, <2>2
  <2>3. CASE x # m
    BY <1>1, <1>3, <2>1, <2>3
  <2> QED BY <2>2, <2>3
<1> QED BY <1>2, <1>4

\* A note that exists keeps existing under every change of its status.
LEMMA StatusKept ==
  ASSUME TypeOK, NEW m \in Message, note[m] # "absent",
         NEW status \in Status \ {"absent"}, UpdateStatus(m, status), UNCHANGED order
  PROVE  /\ note' \in [Message -> Status] /\ order' \in Seq(Message)
         /\ \A x \in Message : note'[x] # "absent" <=> \E i \in DOMAIN order' : order'[i] = x
BY DEF TypeOK, UpdateStatus, Status

\* The message at work is processed.
LEMMA ProcessedKept ==
  ASSUME TypeOK, Reached, at # "idle", NEW given \in SUBSET Tag,
         UpdateProcessed(msg, given), UNCHANGED order
  PROVE  /\ note' \in [Message -> Status] /\ order' \in Seq(Message)
         /\ \A x \in Message : note'[x] # "absent" <=> \E i \in DOMAIN order' : order'[i] = x
         /\ tags' \in [Message -> SUBSET Tag]
<1>1. msg \in Message /\ note[msg] # "absent"
  BY DEF TypeOK, Reached
<1>2. "processed" \in Status \ {"absent"}
  BY DEF Status
<1>3. UpdateStatus(msg, "processed")
  BY DEF UpdateProcessed
<1>4. tags' \in [Message -> SUBSET Tag]
  BY <1>1 DEF UpdateProcessed, TypeOK
<1> QED BY <1>1, <1>2, <1>3, <1>4, StatusKept

\* The handler is done with a message that led to nothing more.
LEMMA ProcessedTypes ==
  ASSUME TypeOK, Reached, at # "idle", NEW given \in SUBSET Tag,
         UpdateProcessed(msg, given), Stop,
         UNCHANGED <<order, derived, memories, failures, chat, world>>
  PROVE  TypeOK'
<1>1. at' \in Place /\ route' \in Route /\ msg' = NoMessage /\ at' = "idle"
  BY DEF Stop, Place, Route
<1>2. UNCHANGED <<order, derived, memories, failures, chat, world>>
  OBVIOUS
<1> QED BY <1>1, <1>2, ProcessedKept DEF memories, chat, world, TypeOK

\* Init establishes the invariant.
LEMMA InitInv == Init => CaptureInv
<1> SUFFICES ASSUME Init PROVE CaptureInv
  OBVIOUS
<1>1. TypeOK
  BY MessageAssumption DEF Init, TypeOK, Status, Route, Place
<1>2. Reached
  BY DEF Init, Reached
<1>3. \A m \in Message : Unpressed(m)
  BY DEF Init, Unpressed, Pending
<1> QED BY <1>1, <1>2, <1>3 DEF CaptureInv

\* Every step of the specification preserves the invariant.
LEMMA StepInv == CaptureInv /\ [Next]_vars => CaptureInv'
<1> SUFFICES ASSUME CaptureInv, [Next]_vars PROVE CaptureInv'
  OBVIOUS
<1> USE MessageAssumption DEF CaptureInv
<1>1. ASSUME NEW m \in Message, NEW r \in Route, Begin(m, r) PROVE CaptureInv'
  <2>1. TypeOK'
    <3>1. /\ note' \in [Message -> Status] /\ order' \in Seq(Message)
          /\ \A x \in Message : note'[x] # "absent" <=> \E i \in DOMAIN order' : order'[i] = x
      <4>1. CASE note[m] = "absent"
        BY <1>1, <4>1, OrderGrows DEF Begin
      <4>2. CASE note[m] # "absent"
        BY <1>1, <4>2 DEF Begin, TypeOK
      <4> QED BY <4>1, <4>2
    <3>2. at' \in Place \ {"idle"} /\ msg' \in Message /\ route' \in Route
      BY <1>1 DEF Begin, Place
    <3>3. inbox' \subseteq Message /\ seen' \subseteq Message /\ failures' \subseteq Message
      BY <1>1 DEF Begin, Receive, TypeOK
    <3>4. UNCHANGED <<derived, stated, kept, tags, forgotten, prompts, presses, crashes>>
      BY <1>1 DEF Begin, objects, memories, chat
    <3> QED BY <3>1, <3>2, <3>3, <3>4 DEF TypeOK
  <2>2. Reached'
    BY <1>1 DEF Begin, Receive, Unfinished, UpdateStatus, objects, chat, memories,
      Reached, TypeOK
  <2>3. \A x \in Message : Unpressed(x)'
    BY <1>1 DEF Begin, Receive, Unfinished, UpdateStatus, objects, chat, memories,
      Reached, Unpressed, Pending, TypeOK
  <2> QED BY <2>1, <2>2, <2>3
<1>2. ASSUME NEW m \in Message, Duplicate(m) PROVE CaptureInv'
  <2>1. TypeOK'
    BY <1>2 DEF Duplicate, Receive, Unfinished, objects, chat, handler, memories,
      Reached, TypeOK, Status, Place
  <2>2. Reached'
    BY <1>2 DEF Duplicate, Receive, Unfinished, objects, chat, handler, memories,
      Reached, TypeOK
  <2>3. \A x \in Message : Unpressed(x)'
    BY <1>2 DEF Duplicate, Receive, Unfinished, objects, chat, handler, memories,
      Reached, Unpressed, Pending, TypeOK
  <2> QED BY <2>1, <2>2, <2>3
<1>3. ASSUME NEW m \in Message, Repeat(m) PROVE CaptureInv'
  <2>1. TypeOK'
    BY <1>3 DEF Repeat, Receive, objects, chat, memories, Reached, TypeOK, Status,
      Route, Place
  <2>2. Reached'
    BY <1>3 DEF Repeat, Receive, objects, chat, memories, Reached, TypeOK
  <2>3. \A x \in Message : Unpressed(x)'
    BY <1>3 DEF Repeat, Receive, objects, chat, memories, Reached, Unpressed, Pending,
      TypeOK
  <2> QED BY <2>1, <2>2, <2>3
<1>4. ASSUME NEW shown \in BOOLEAN, Reply(shown) PROVE CaptureInv'
  <2>1. TypeOK'
    BY <1>4 DEF Reply, Stop, objects, world, memories, Reached, TypeOK, Status, Route,
      Place
  <2>2. Reached'
    BY <1>4 DEF Reply, Stop, objects, world, memories, Reached, TypeOK
  <2>3. \A x \in Message : Unpressed(x)'
    BY <1>4 DEF Reply, Stop, objects, world, memories, Reached, Unpressed, Pending, TypeOK
  <2> QED BY <2>1, <2>2, <2>3
<1>5. ASSUME NEW m \in kept, Forget(m) PROVE CaptureInv'
  <2>1. TypeOK'
    BY <1>5 DEF Forget, Capturing, chat, handler, world, Reached, TypeOK, Status, Place
  <2>2. Reached'
    BY <1>5 DEF Forget, Capturing, chat, handler, world, Reached, TypeOK
  <2>3. \A x \in Message : Unpressed(x)'
    BY <1>5 DEF Forget, Capturing, chat, handler, world, Reached, Unpressed, Pending,
      TypeOK
  <2> QED BY <2>1, <2>2, <2>3
<1>6. ASSUME AppendCaptured PROVE CaptureInv'
  <2>1. TypeOK'
    BY <1>6 DEF AppendCaptured, GoTo, objects, chat, world, memories, Reached, TypeOK,
      Status, Place
  <2>2. Reached'
    BY <1>6 DEF AppendCaptured, GoTo, objects, chat, world, memories, Reached, TypeOK
  <2>3. \A x \in Message : Unpressed(x)'
    BY <1>6 DEF AppendCaptured, GoTo, objects, chat, world, memories, Reached,
      Unpressed, Pending, TypeOK
  <2> QED BY <2>1, <2>2, <2>3
<1>7. ASSUME Record PROVE CaptureInv'
  <2>1. TypeOK'
    <3>1. /\ at = "open" /\ UpdateProcessed(msg, {})
          /\ UNCHANGED <<order, derived, memories, failures, chat, world>>
      BY <1>7 DEF Record
    <3>2. at' = "recorded" /\ at' \in Place /\ UNCHANGED <<route, msg>>
      BY <1>7 DEF Record, GoTo, Place
    <3> QED BY <3>1, <3>2, ProcessedKept DEF memories, chat, world, TypeOK
  <2>2. Reached'
    BY <1>7 DEF Record, GoTo, UpdateProcessed, memories, chat, world, UpdateStatus,
      Reached, TypeOK
  <2>3. \A x \in Message : Unpressed(x)'
    BY <1>7 DEF Record, GoTo, UpdateProcessed, memories, chat, world, UpdateStatus,
      Reached, Unpressed, Pending, TypeOK
  <2> QED BY <2>1, <2>2, <2>3
<1>8. ASSUME Answer PROVE CaptureInv'
  <2>1. TypeOK'
    BY <1>8, ProcessedTypes DEF Answer, Capturing
  <2>2. Reached'
    BY <1>8 DEF Answer, Stop, UpdateProcessed, Capturing, memories, chat, world,
      UpdateStatus, Reached, TypeOK
  <2>3. \A x \in Message : Unpressed(x)'
    BY <1>8 DEF Answer, Stop, UpdateProcessed, Capturing, memories, chat, world,
      UpdateStatus, Reached, Unpressed, Pending, TypeOK
  <2> QED BY <2>1, <2>2, <2>3
<1>9. ASSUME CreateRecurring PROVE CaptureInv'
  <2>1. TypeOK'
    <3>1. /\ at = "open" /\ derived' = [derived EXCEPT ![msg] = @ + 1]
          /\ UNCHANGED <<note, order, memories, tags, failures, chat, world>>
      BY <1>9 DEF CreateRecurring, Capturing
    <3>2. at' = "reminded" /\ at' \in Place /\ UNCHANGED <<route, msg>>
      BY <1>9 DEF CreateRecurring, GoTo, Place
    <3>3. derived' \in [Message -> Nat]
      BY <3>1 DEF TypeOK
    <3> QED BY <3>1, <3>2, <3>3 DEF memories, chat, world, TypeOK
  <2>2. Reached'
    BY <1>9 DEF CreateRecurring, GoTo, Capturing, memories, chat, world, Reached, TypeOK
  <2>3. \A x \in Message : Unpressed(x)'
    BY <1>9 DEF CreateRecurring, GoTo, Capturing, memories, chat, world, Reached,
      Unpressed, Pending, TypeOK
  <2> QED BY <2>1, <2>2, <2>3
<1>10. ASSUME FinishRecurring PROVE CaptureInv'
  <2>1. TypeOK'
    BY <1>10, ProcessedTypes DEF FinishRecurring
  <2>2. Reached'
    BY <1>10 DEF FinishRecurring, Stop, UpdateProcessed, memories, chat, world,
      UpdateStatus, Reached, TypeOK
  <2>3. \A x \in Message : Unpressed(x)'
    BY <1>10 DEF FinishRecurring, Stop, UpdateProcessed, memories, chat, world,
      UpdateStatus, Reached, Unpressed, Pending, TypeOK
  <2> QED BY <2>1, <2>2, <2>3
<1>11. ASSUME Extract PROVE CaptureInv'
  <2>1. TypeOK'
    BY <1>11 DEF Extract, GoTo, Capturing, objects, chat, world, memories, Reached,
      TypeOK, Status, Place
  <2>2. Reached'
    BY <1>11 DEF Extract, GoTo, Capturing, objects, chat, world, memories, Reached, TypeOK
  <2>3. \A x \in Message : Unpressed(x)'
    BY <1>11 DEF Extract, GoTo, Capturing, objects, chat, world, memories, Reached,
      Unpressed, Pending, TypeOK
  <2> QED BY <2>1, <2>2, <2>3
<1>12. ASSUME ExtractFails PROVE CaptureInv'
  <2>1. TypeOK'
    BY <1>12, StatusKept DEF ExtractFails, Stop, UpdateStatus, Capturing, objects, chat,
      world, memories, Reached, TypeOK, Status, Route, Place
  <2>2. Reached'
    BY <1>12 DEF ExtractFails, Stop, UpdateStatus, Capturing, objects, chat, world,
      memories, Reached, TypeOK
  <2>3. \A x \in Message : Unpressed(x)'
    BY <1>12 DEF ExtractFails, Stop, UpdateStatus, Capturing, objects, chat, world,
      memories, Reached, Unpressed, Pending, TypeOK
  <2> QED BY <2>1, <2>2, <2>3
<1>13. ASSUME Derive PROVE CaptureInv'
  <2>1. TypeOK'
    <3>1. /\ at = "derive" /\ UpdateProcessed(msg, {})
          /\ derived' = [derived EXCEPT ![msg] = @ + 1]
          /\ UNCHANGED <<order, memories, failures, chat, world>>
      BY <1>13 DEF Derive
    <3>2. at' \in Place /\ route' \in Route /\ msg' = NoMessage /\ at' = "idle"
      BY <1>13 DEF Derive, Stop, Place, Route
    <3>3. derived' \in [Message -> Nat]
      BY <3>1 DEF TypeOK
    <3> QED BY <3>1, <3>2, <3>3, ProcessedKept DEF memories, chat, world, TypeOK
  <2>2. Reached'
    BY <1>13 DEF Derive, Stop, UpdateProcessed, memories, chat, world, UpdateStatus,
      Reached, TypeOK
  <2>3. \A x \in Message : Unpressed(x)'
    BY <1>13 DEF Derive, Stop, UpdateProcessed, memories, chat, world, UpdateStatus,
      Reached, Unpressed, Pending, TypeOK
  <2> QED BY <2>1, <2>2, <2>3
<1>14. ASSUME DeriveRaises PROVE CaptureInv'
  <2>1. TypeOK'
    BY <1>14 DEF DeriveRaises, GoTo, objects, chat, world, memories, Reached, TypeOK,
      Status, Place
  <2>2. Reached'
    BY <1>14 DEF DeriveRaises, GoTo, objects, chat, world, memories, Reached, TypeOK
  <2>3. \A x \in Message : Unpressed(x)'
    BY <1>14 DEF DeriveRaises, GoTo, objects, chat, world, memories, Reached, Unpressed,
      Pending, TypeOK
  <2> QED BY <2>1, <2>2, <2>3
<1>15. ASSUME MarkFailed PROVE CaptureInv'
  <2>1. TypeOK'
    BY <1>15, StatusKept DEF MarkFailed, Stop, UpdateStatus, objects, chat, world,
      memories, Reached, TypeOK, Status, Route, Place
  <2>2. Reached'
    BY <1>15 DEF MarkFailed, Stop, UpdateStatus, objects, chat, world, memories,
      Reached, TypeOK
  <2>3. \A x \in Message : Unpressed(x)'
    BY <1>15 DEF MarkFailed, Stop, UpdateStatus, objects, chat, world, memories,
      Reached, Unpressed, Pending, TypeOK
  <2> QED BY <2>1, <2>2, <2>3
<1>16. ASSUME StateNothing PROVE CaptureInv'
  <2>1. TypeOK'
    <3>1. {"knowledge_update", "empty"} \in SUBSET Tag
      BY DEF Tag
    <3> QED BY <1>16, <3>1, ProcessedTypes DEF StateNothing, Scoped
  <2>2. Reached'
    BY <1>16 DEF StateNothing, Stop, UpdateProcessed, Scoped, memories, chat, world,
      UpdateStatus, Reached, TypeOK
  <2>3. \A x \in Message : Unpressed(x)'
    BY <1>16 DEF StateNothing, Stop, UpdateProcessed, Scoped, memories, chat, world,
      UpdateStatus, Reached, Unpressed, Pending, TypeOK
  <2> QED BY <2>1, <2>2, <2>3
<1>17. ASSUME State PROVE CaptureInv'
  <2>1. TypeOK'
    <3>1. /\ at = "open" /\ UpdateProcessed(msg, {"knowledge_update"})
          /\ {"knowledge_update"} \in SUBSET Tag
          /\ stated' = [stated EXCEPT ![msg] = @ + 1] /\ kept' = kept \cup {msg}
          /\ UNCHANGED <<order, derived, forgotten, failures, chat, world>>
      BY <1>17 DEF State, Scoped, Tag
    <3>2. at' \in Place /\ route' \in Route /\ msg' = NoMessage /\ at' = "idle"
      BY <1>17 DEF State, Stop, Place, Route
    <3>3. stated' \in [Message -> Nat] /\ kept' \subseteq Message
      BY <3>1 DEF TypeOK
    <3> QED BY <3>1, <3>2, <3>3, ProcessedKept DEF chat, world, TypeOK
  <2>2. Reached'
    BY <1>17 DEF State, Stop, UpdateProcessed, Scoped, chat, world, UpdateStatus,
      Reached, TypeOK
  <2>3. \A x \in Message : Unpressed(x)'
    BY <1>17 DEF State, Stop, UpdateProcessed, Scoped, chat, world, UpdateStatus,
      Reached, Unpressed, Pending, TypeOK
  <2> QED BY <2>1, <2>2, <2>3
<1>18. ASSUME StateRaises PROVE CaptureInv'
  <2>1. TypeOK'
    BY <1>18 DEF StateRaises, Stop, Scoped, objects, chat, world, memories, Reached,
      TypeOK, Status, Route, Place
  <2>2. Reached'
    BY <1>18 DEF StateRaises, Stop, Scoped, objects, chat, world, memories, Reached,
      TypeOK
  <2>3. \A x \in Message : Unpressed(x)'
    BY <1>18 DEF StateRaises, Stop, Scoped, objects, chat, world, memories, Reached,
      Unpressed, Pending, TypeOK
  <2> QED BY <2>1, <2>2, <2>3
<1>19. ASSUME CaptureAgain PROVE CaptureInv'
  <2>1. TypeOK'
    BY <1>19 DEF CaptureAgain, GoTo, objects, chat, world, memories, Reached, TypeOK,
      Status, Place
  <2>2. Reached'
    BY <1>19 DEF CaptureAgain, GoTo, objects, chat, world, memories, Reached, TypeOK
  <2>3. \A x \in Message : Unpressed(x)'
    BY <1>19 DEF CaptureAgain, GoTo, objects, chat, world, memories, Reached, Unpressed,
      Pending, TypeOK
  <2> QED BY <2>1, <2>2, <2>3
<1>20. ASSUME Raise PROVE CaptureInv'
  <2>1. TypeOK'
    BY <1>20 DEF Raise, Stop, objects, chat, world, memories, Reached, TypeOK, Status,
      Route, Place
  <2>2. Reached'
    BY <1>20 DEF Raise, Stop, objects, chat, world, memories, Reached, TypeOK
  <2>3. \A x \in Message : Unpressed(x)'
    BY <1>20 DEF Raise, Stop, objects, chat, world, memories, Reached, Unpressed,
      Pending, TypeOK
  <2> QED BY <2>1, <2>2, <2>3
<1>21. ASSUME NEW i \in DOMAIN order, RollBack(i) PROVE CaptureInv'
  <2>1. TypeOK'
    <3>1. order[i] \in Message /\ note[order[i]] # "absent"
      BY <1>21 DEF TypeOK
    <3>2. /\ UpdateStatus(order[i], "processed") /\ UNCHANGED order
          /\ tags' = [tags EXCEPT ![order[i]] = tags[order[i]] \cup {"rolled_back"}]
      BY <1>21 DEF RollBack, UpdateProcessed
    <3>3. tags' \in [Message -> SUBSET Tag]
      BY <3>1, <3>2 DEF TypeOK, Tag
    <3>4. /\ note' \in [Message -> Status] /\ order' \in Seq(Message)
          /\ \A x \in Message : note'[x] # "absent" <=> \E j \in DOMAIN order' : order'[j] = x
      BY <3>1, <3>2, StatusKept DEF Status
    <3> QED BY <1>21, <3>3, <3>4 DEF RollBack, chat, handler, world, TypeOK
  <2>2. Reached'
    BY <1>21 DEF RollBack, UpdateProcessed, LastUpdate, chat, handler, world,
      UpdateStatus, Reached, TypeOK
  <2>3. \A x \in Message : Unpressed(x)'
    BY <1>21 DEF RollBack, UpdateProcessed, LastUpdate, chat, handler, world,
      UpdateStatus, Reached, Unpressed, Pending, TypeOK
  <2> QED BY <2>1, <2>2, <2>3
<1>22. ASSUME NEW m \in Message, PressIgnore(m) PROVE CaptureInv'
  <2>1. TypeOK'
    BY <1>22, StatusKept DEF PressIgnore, UpdateProcessed, memories, chat, handler,
      world, UpdateStatus, Reached, TypeOK, Status, Place
  <2>2. Reached'
    BY <1>22 DEF PressIgnore, UpdateProcessed, memories, chat, handler, world,
      UpdateStatus, Reached, TypeOK
  <2>3. \A x \in Message : Unpressed(x)'
    BY <1>22 DEF PressIgnore, UpdateProcessed, memories, chat, handler, world,
      UpdateStatus, Reached, Unpressed, Pending, TypeOK
  <2> QED BY <2>1, <2>2, <2>3
<1>23. ASSUME NEW m \in Message, PressTag(m) PROVE CaptureInv'
  <2>1. TypeOK'
    <3>1. /\ note' \in [Message -> Status] /\ order' \in Seq(Message)
          /\ \A x \in Message : note'[x] # "absent" <=> \E i \in DOMAIN order' : order'[i] = x
      BY <1>23, StatusKept DEF PressTag, Reached, Status
    <3>2. at' \in Place \ {"idle"} /\ msg' \in Message /\ route' \in Route
      BY <1>23 DEF PressTag, Place, Route
    <3>3. presses' \in [Message -> Nat]
      BY <1>23 DEF PressTag, TypeOK
    <3>4. UNCHANGED <<derived, stated, kept, tags, forgotten, failures, prompts,
                    inbox, seen, crashes>>
      BY <1>23 DEF PressTag, objects, memories, world
    <3> QED BY <3>1, <3>2, <3>3, <3>4 DEF TypeOK
  <2>2. Reached'
    BY <1>23 DEF PressTag, UpdateStatus, objects, world, memories, Reached, TypeOK
  <2>3. \A x \in Message : Unpressed(x)'
    BY <1>23 DEF PressTag, UpdateStatus, objects, world, memories, Reached, Unpressed,
      Pending, TypeOK
  <2> QED BY <2>1, <2>2, <2>3
<1>24. ASSUME NEW again \in SUBSET Message, Crash(again) PROVE CaptureInv'
  <2>1. TypeOK'
    BY <1>24 DEF Crash, Stop, objects, chat, memories, Reached, TypeOK, Status, Route,
      Place
  <2>2. Reached'
    BY <1>24 DEF Crash, Stop, objects, chat, memories, Reached, TypeOK
  <2>3. \A x \in Message : Unpressed(x)'
    BY <1>24 DEF Crash, Stop, objects, chat, memories, Reached, Unpressed, Pending, TypeOK
  <2> QED BY <2>1, <2>2, <2>3
<1>25. ASSUME UNCHANGED vars PROVE CaptureInv'
  <2> USE <1>25 DEF vars, objects, memories, chat, handler, world
  <2>1. TypeOK' /\ Reached'
    BY DEF TypeOK, Reached
  <2>2. \A x \in Message : Unpressed(x)'
    BY DEF Unpressed, Pending
  <2> QED BY <2>1, <2>2
<1> QED
  BY <1>1, <1>2, <1>3, <1>4, <1>5, <1>6, <1>7, <1>8, <1>9, <1>10, <1>11, <1>12, <1>13,
    <1>14, <1>15, <1>16, <1>17, <1>18, <1>19, <1>20, <1>21, <1>22, <1>23, <1>24, <1>25
  DEF Next, Handle

\* The inductive invariant: every note of an unpressed message has at most one
\* batch of objects, and none while its objects are still to be derived.
THEOREM CaptureInvariant == Spec => []CaptureInv
BY InitInv, StepInv, PTL DEF Spec

\* Type correctness: the notes and the order they were created in agree, and
\* the handler is idle exactly when it has no message.
THEOREM TypeCorrect == Spec => []TypeOK
<1>1. CaptureInv => TypeOK
  BY DEF CaptureInv
<1> QED BY CaptureInvariant, <1>1, PTL

\* A message delivered any number of times, with the handler cut short anywhere,
\* has its objects derived at most once unless a tag button was pressed.
THEOREM CapturedOnce == Spec => []OncePerSource
<1>1. CaptureInv => OncePerSource
  BY DEF CaptureInv, Unpressed, OncePerSource
<1> QED BY CaptureInvariant, <1>1, PTL

\* A failed note has left nothing behind, so that to try it again is safe.
THEOREM FailedIsSafe == Spec => []FailedKeepsNothing
<1>1. CaptureInv => FailedKeepsNothing
  <2> SUFFICES ASSUME CaptureInv, NEW m \in Message, note[m] = "failed", presses[m] = 0
               PROVE  derived[m] + stated[m] = 0
    BY DEF FailedKeepsNothing
  <2> QED BY DEF CaptureInv, Unpressed, Pending
<1> QED BY CaptureInvariant, <1>1, PTL

\* A note that is processed as an update has its memories; while it has them,
\* nothing but its tag buttons reopens it.
UpdateWhole(m) ==
  /\ Offered(m) /\ "empty" \notin tags[m] => m \in kept \cup forgotten
  /\ m \in kept \ prompts =>
       Offered(m) /\ note[m] = "processed" /\ (msg = m => at = "recorded")

UpdateInv == \A m \in Message : UpdateWhole(m)

\* A note at work that is not yet recorded may change its status and get tags
\* that offer nothing to roll back.
LEMMA AtWorkKeeps ==
  ASSUME TypeOK, UpdateInv, at \notin {"idle", "recorded"}, msg' \in {msg, NoMessage},
         UNCHANGED <<kept, forgotten, prompts>>,
         UNCHANGED note \/ UpdateStatus(msg, "processed") \/ UpdateStatus(msg, "failed"),
         \/ UNCHANGED tags
         \/ tags' = [tags EXCEPT ![msg] = {}]
         \/ tags' = [tags EXCEPT ![msg] = {"knowledge_update", "empty"}]
  PROVE  UpdateInv'
<1> SUFFICES ASSUME NEW x \in Message PROVE UpdateWhole(x)'
  BY DEF UpdateInv
<1>1. UpdateWhole(x) /\ msg \in Message /\ x # NoMessage
  BY MessageAssumption DEF UpdateInv, TypeOK
<1>2. CASE x = msg
  BY <1>1, <1>2 DEF UpdateWhole, Offered, TypeOK
<1>3. CASE x # msg
  BY <1>1, <1>3 DEF UpdateWhole, Offered, TypeOK, UpdateStatus
<1> QED BY <1>2, <1>3

\* Every step preserves it.
LEMMA UpdateStep == CaptureInv /\ UpdateInv /\ [Next]_vars => UpdateInv'
<1> SUFFICES ASSUME CaptureInv, UpdateInv, [Next]_vars PROVE UpdateInv'
  OBVIOUS
<1> USE MessageAssumption
<1>0. TypeOK
  BY DEF CaptureInv
<1>1. ASSUME NEW m \in Message, NEW r \in Route, Begin(m, r) PROVE UpdateInv'
  BY <1>0, <1>1 DEF Begin, Unfinished, UpdateStatus, objects, memories, chat, UpdateInv,
     UpdateWhole, Offered, TypeOK
<1>2. ASSUME NEW m \in Message, Duplicate(m) \/ Repeat(m) PROVE UpdateInv'
  BY <1>0, <1>2 DEF Duplicate, Repeat, Receive, objects, memories, chat, handler, UpdateInv,
     UpdateWhole, Offered, TypeOK
<1>3. ASSUME NEW shown \in BOOLEAN, Reply(shown) PROVE UpdateInv'
  BY <1>0, <1>3 DEF Reply, Stop, objects, memories, UpdateInv, UpdateWhole, Offered, TypeOK
<1>4. ASSUME NEW m \in kept, Forget(m) PROVE UpdateInv'
  BY <1>0, <1>4 DEF Forget, chat, handler, UpdateInv, UpdateWhole, Offered, TypeOK
<1>5. ASSUME AppendCaptured \/ Record \/ Answer \/ CreateRecurring \/ FinishRecurring
             \/ Extract \/ ExtractFails \/ Derive \/ DeriveRaises \/ MarkFailed
             \/ StateNothing \/ StateRaises \/ CaptureAgain
      PROVE  UpdateInv'
  <2>1. /\ at \notin {"idle", "recorded"} /\ msg' \in {msg, NoMessage}
        /\ UNCHANGED <<kept, forgotten, prompts>>
    BY <1>5 DEF AppendCaptured, Record, Answer, CreateRecurring, FinishRecurring, Extract,
       ExtractFails, Derive, DeriveRaises, MarkFailed, StateNothing, StateRaises,
       CaptureAgain, Capturing, Scoped, GoTo, Stop, objects, memories, chat
  <2>2. /\ UNCHANGED note \/ UpdateStatus(msg, "processed") \/ UpdateStatus(msg, "failed")
        /\ \/ UNCHANGED tags
           \/ tags' = [tags EXCEPT ![msg] = {}]
           \/ tags' = [tags EXCEPT ![msg] = {"knowledge_update", "empty"}]
    BY <1>5 DEF AppendCaptured, Record, Answer, CreateRecurring, FinishRecurring, Extract,
       ExtractFails, Derive, DeriveRaises, MarkFailed, StateNothing, StateRaises,
       CaptureAgain, UpdateProcessed, objects
  <2> QED BY <1>0, <2>1, <2>2, AtWorkKeeps
<1>6. ASSUME State PROVE UpdateInv'
  BY <1>0, <1>6 DEF State, Scoped, Stop, UpdateProcessed, UpdateStatus, chat, UpdateInv,
     UpdateWhole, Offered, TypeOK
<1>7. ASSUME Raise PROVE UpdateInv'
  BY <1>0, <1>7 DEF Raise, Stop, objects, memories, chat, UpdateInv, UpdateWhole, Offered,
     TypeOK
<1>8. ASSUME NEW i \in DOMAIN order, RollBack(i) PROVE UpdateInv'
  BY <1>0, <1>8 DEF RollBack, UpdateProcessed, UpdateStatus, chat, handler, UpdateInv,
     UpdateWhole, Offered, TypeOK
<1>9. ASSUME NEW m \in Message, PressIgnore(m) \/ PressTag(m) PROVE UpdateInv'
  <2>1. CASE PressIgnore(m)
    BY <1>0, <2>1 DEF PressIgnore, UpdateProcessed, UpdateStatus, memories, chat, handler,
       UpdateInv, UpdateWhole, Offered, TypeOK
  <2>2. CASE PressTag(m)
    BY <1>0, <2>2 DEF PressTag, UpdateStatus, objects, memories, UpdateInv, UpdateWhole,
       Offered, TypeOK
  <2> QED BY <1>9, <2>1, <2>2
<1>10. ASSUME NEW again \in SUBSET Message, Crash(again) PROVE UpdateInv'
  BY <1>0, <1>10 DEF Crash, Stop, objects, memories, chat, UpdateInv, UpdateWhole, Offered,
     TypeOK
<1>11. CASE UNCHANGED vars
  BY <1>11 DEF vars, objects, memories, chat, handler, UpdateInv, UpdateWhole, Offered
<1> QED
  BY <1>1, <1>2, <1>3, <1>4, <1>5, <1>6, <1>7, <1>8, <1>9, <1>10, <1>11 DEF Next, Handle

\* A note that the search for a rollback finds has the memories it would remove,
\* unless they were deleted or there were none; and the memories of an update
\* never outlive the offer to roll them back, but for the buttons of its note.
THEOREM RollbackComplete == Spec => []RollbackHasObject
<1>1. Init => UpdateInv
  BY DEF Init, UpdateInv, UpdateWhole, Offered
<1>2. TypeOK /\ UpdateInv => RollbackHasObject
  BY DEF TypeOK, UpdateInv, UpdateWhole, RollbackHasObject
<1>3. CaptureInv => TypeOK
  BY DEF CaptureInv
<1> QED BY <1>1, <1>2, <1>3, CaptureInvariant, UpdateStep, PTL DEF Spec
=============================================================================
