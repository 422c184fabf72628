----------------------- MODULE SharedConnectionProofs -----------------------
(***************************************************************************)
(* Proofs about SharedConnection: the connection implements an atomic store *)
(* for any number of loops, operations, writes and nested contexts.         *)
(***************************************************************************)
EXTENDS SharedConnection, SequenceTheorems, TLAPS

\* The handler is inside contexts exactly in the body of a block, and only
\* the first of them is the outermost.
Levels ==
  /\ levels # <<>> <=> at[Handler] = "body"
  /\ levels # <<>> => levels[1] = "outermost"
  /\ \A i \in 2 .. Len(levels) : levels[i] = "nested"

\* What each coroutine does is what its place says.
Jobs ==
  \A p \in Process :
    /\ at[p] = "wrote" => job[p] \in Singles
    /\ at[p] \in {"begun", "body"} => p = Handler /\ job[p] \in Blocks
    /\ at[p] # "idle" => job[p] \in used

\* The only block with uncommitted writes is the one the handler is in.
Uncommitted ==
  /\ \A x \in pending : x.op \in used
  /\ \A x \in pending : x.op \in Blocks => at[Handler] = "body" /\ x.op = job[Handler]
  /\ pending # {} => at[Handler] = "body" \/ \E p \in Process : at[p] = "wrote"

\* What has been written by a single operation that is not finished, or that
\* is finished inside somebody's block, is durable, uncommitted or lost.
Kept(o) == Writes(o) \subseteq durable \/ Writes(o) \subseteq pending \/ o \in lost
Finished ==
  /\ \A o \in done \cap Blocks : Writes(o) \subseteq durable
  /\ \A p \in Process : at[p] = "wrote" => Kept(job[p])
  /\ \A o \in done \cap Singles :
       Kept(o) /\ (depth = 0 => Writes(o) \subseteq durable \/ o \in lost)

Inv == TypeOK /\ Levels /\ Jobs /\ Uncommitted /\ Finished

-----------------------------------------------------------------------------

\* The writes of an operation are the ones that carry its name.
LEMMA WritesOf ==
  ASSUME NEW o \in Operation
  PROVE  /\ Writes(o) \subseteq AllWrites
         /\ \A x \in AllWrites : x.op = o <=> x \in Writes(o)
         /\ o \in Singles => Writes(o) = {[op |-> o, n |-> 1]}
BY OperationAssumption, BoundAssumption DEF AllWrites, Writes, Operation

\* Every write belongs to an operation.
LEMMA OpOf == \A x \in AllWrites : x.op \in Operation /\ x \in Writes(x.op)
BY OperationAssumption, BoundAssumption DEF AllWrites, Writes, Operation

\* The handler is not one of the loops and is a process.
LEMMA HandlerIn == Handler \in Process
BY DEF Process

\* The depth is 0 exactly outside the body of a block.
LEMMA DepthZero ==
  ASSUME TypeOK, Levels
  PROVE  depth = 0 <=> at[Handler] # "body"
<1>1. levels \in Seq(Level) /\ depth = Len(levels)
  BY DEF TypeOK
<1>2. levels = <<>> => depth = 0
  BY <1>1
<1>3. levels # <<>> => depth # 0
  BY <1>1, EmptySeq
<1> QED BY <1>2, <1>3 DEF Levels

\* The initial state satisfies the invariant.
LEMMA InitInv == Init => Inv
BY HandlerIn DEF Init, Inv, TypeOK, Levels, Jobs, Uncommitted, Finished, Kept

\* A single write starts.
LEMMA ExecuteSingleInv ==
  ASSUME Inv, NEW p \in Process, NEW o \in Singles, ExecuteSingle(p, o)
  PROVE  Inv'
<1> USE HandlerIn DEF ExecuteSingle, Start, Execute, Inv
<1>0. o \in Operation /\ Writes(o) = {[op |-> o, n |-> 1]} /\ Writes(o) \subseteq AllWrites
  BY WritesOf DEF Operation
<1>1. TypeOK'
  BY <1>0 DEF TypeOK, Level
<1>2. Levels'
  BY DEF TypeOK, Levels
<1>3. Jobs'
  BY DEF TypeOK, Jobs
<1>4. Uncommitted'
  BY OperationAssumption DEF TypeOK, Uncommitted, Jobs
<1>5. Finished'
  BY <1>0, OperationAssumption DEF TypeOK, Finished, Kept, Jobs, Writes
<1> QED BY <1>1, <1>2, <1>3, <1>4, <1>5

\* A single write fails.
LEMMA ExecuteFailsInv ==
  ASSUME Inv, NEW p \in Process, NEW o \in Singles, ExecuteFails(p, o)
  PROVE  Inv'
BY DEF ExecuteFails, memory, Inv, TypeOK, Levels, Jobs, Uncommitted, Finished, Kept, Operation, Writes

\* A single write ends with commit_if_needed: at depth 0 no block is running.
LEMMA CommitIfNeededInv ==
  ASSUME Inv, NEW p \in Process, CommitIfNeeded(p)
  PROVE  Inv'
<1> USE HandlerIn DEF CommitIfNeeded, Commit, Finish, Inv
<1>1. TypeOK'
  BY DEF TypeOK, Jobs
<1>2. Levels'
  BY DEF TypeOK, Levels, Jobs, Operation
<1>3. Jobs'
  BY DEF TypeOK, Jobs
<1>4. depth = 0 => at[Handler] # "body"
  BY DepthZero
<1>5. depth # 0 => at[Handler] = "body"
  BY DepthZero
<1>6. Uncommitted'
  BY <1>4, <1>5 DEF TypeOK, Uncommitted, Jobs
<1>7. job[p] \in Singles
  BY DEF Jobs
<1>8. Finished'
  <2>1. CASE depth = 0
    BY <2>1, <1>7, OperationAssumption DEF TypeOK, Finished, Kept, Writes
  <2>2. CASE depth # 0
    BY <2>2, <1>7, OperationAssumption DEF TypeOK, Finished, Kept, Writes
  <2> QED BY <2>1, <2>2
<1> QED BY <1>1, <1>2, <1>3, <1>6, <1>8

\* A block opens its transaction, and cannot when one is open.
LEMMA BeginInv ==
  ASSUME Inv, NEW o \in Blocks, Begin(o) \/ BeginFails(o)
  PROVE  Inv'
<1>1. CASE Begin(o)
  <2> USE <1>1, HandlerIn DEF Begin, Start, Inv
  <2>1. TypeOK'
    BY DEF TypeOK, Operation
  <2>2. Levels'
    BY DEF TypeOK, Levels
  <2>3. Jobs'
    BY DEF TypeOK, Jobs
  <2>4. Uncommitted'
    BY DEF TypeOK, Uncommitted
  <2>5. Finished'
    BY DEF TypeOK, Finished, Kept, Writes
  <2> QED BY <2>1, <2>2, <2>3, <2>4, <2>5
<1>2. CASE BeginFails(o)
  BY <1>2 DEF BeginFails, memory, Inv, TypeOK, Levels, Jobs, Uncommitted, Finished, Kept, Operation, Writes
<1> QED BY <1>1, <1>2

\* The block enters its outermost context.
LEMMA EnterInv ==
  ASSUME Inv, Enter
  PROVE  Inv'
<1> USE HandlerIn DEF Enter, Inv
<1>0. levels = <<>> /\ depth = 0
  BY DEF TypeOK, Levels
<1>1. TypeOK'
  BY <1>0 DEF TypeOK, Level
<1>2. Levels'
  BY DEF TypeOK, Levels
<1>3. Jobs'
  BY DEF TypeOK, Jobs
<1>4. Uncommitted'
  BY DEF TypeOK, Uncommitted, Jobs
<1>5. Finished'
  BY <1>0 DEF TypeOK, Finished, Kept, Writes
<1> QED BY <1>1, <1>2, <1>3, <1>4, <1>5

\* A statement inside a block.
LEMMA BlockWriteInv ==
  ASSUME Inv, NEW x \in AllWrites, BlockWrite(x)
  PROVE  Inv'
<1> USE HandlerIn DEF BlockWrite, Execute, memory, Inv
<1>0. /\ x.op = job[Handler] /\ job[Handler] \in Blocks \cap used /\ depth # 0
      /\ at[Handler] = "body"
  BY WritesOf, DepthZero DEF TypeOK, Levels, Jobs, Operation
<1>1. TypeOK'
  BY DEF TypeOK
<1>2. Levels'
  BY DEF Levels
<1>3. Jobs'
  BY DEF Jobs
<1>4. Uncommitted'
  BY <1>0 DEF Uncommitted
<1>5. Finished'
  BY <1>0 DEF TypeOK, Finished, Kept, Writes
<1> QED BY <1>1, <1>2, <1>3, <1>4, <1>5

\* A nested context is never the outermost.
LEMMA NestInv ==
  ASSUME Inv, Nest
  PROVE  Inv'
<1> USE HandlerIn DEF Nest, Inv
<1>0. depth # 0 /\ levels # <<>> /\ Len(levels) \in Nat \ {0}
  BY EmptySeq, LenProperties DEF TypeOK, Levels
<1>1. /\ levels' = Append(levels, "nested")
      /\ levels' \in Seq(Level) /\ Len(levels') = Len(levels) + 1 /\ levels' # <<>>
      /\ \A i \in 1 .. Len(levels) : levels'[i] = levels[i]
      /\ levels'[Len(levels) + 1] = "nested"
  <2>1. levels' = Append(levels, "nested")
    BY <1>0 DEF LevelAt
  <2>2. levels \in Seq(Level)
    BY DEF TypeOK
  <2>3. /\ levels' \in Seq(Level) /\ Len(levels') = Len(levels) + 1
        /\ \A i \in 1 .. Len(levels) : levels'[i] = levels[i]
        /\ levels'[Len(levels) + 1] = "nested"
    <3>1. /\ Append(levels, "nested") \in Seq(Level)
          /\ Len(Append(levels, "nested")) = Len(levels) + 1
          /\ \A i \in 1 .. Len(levels) : Append(levels, "nested")[i] = levels[i]
          /\ Append(levels, "nested")[Len(levels) + 1] = "nested"
      BY <2>2, AppendProperties DEF Level
    <3> QED BY <2>1, <3>1
  <2>4. levels' # <<>>
    BY <1>0, <2>3, EmptySeq
  <2> QED BY <2>1, <2>3, <2>4
<1>6. TypeOK'
  BY <1>0, <1>1 DEF TypeOK
<1>2. Levels'
  <2>1. \A i \in 2 .. Len(levels') : levels'[i] = "nested"
    BY <1>0, <1>1 DEF Levels
  <2>2. levels'[1] = "outermost"
    BY <1>0, <1>1 DEF Levels
  <2> QED BY <1>0, <1>1, <2>1, <2>2 DEF Levels
<1>3. Jobs'
  BY DEF Jobs
<1>4. Uncommitted'
  BY DEF Uncommitted
<1>5. Finished'
  BY <1>0 DEF TypeOK, Finished, Kept, Writes
<1> QED BY <1>2, <1>3, <1>4, <1>5, <1>6

\* A context ends: an inner one commits nothing, the outermost one everything.
LEMMA LeaveInv ==
  ASSUME Inv, Leave
  PROVE  Inv'
<1> USE HandlerIn DEF Inv
<1>0. /\ levels \in Seq(Level) /\ Len(levels) \in Nat \ {0} /\ depth = Len(levels)
      /\ job[Handler] \in Blocks /\ job[Handler] \in used /\ at[Handler] = "body"
      /\ levels # <<>>
  BY EmptySeq, LenProperties DEF TypeOK, Levels, Jobs, Leave
<1>1. CASE Len(levels) = 1
  <2>1. /\ levels' = <<>> /\ depth' = 0 /\ Commit /\ Finish(Handler)
        /\ Writes(job[Handler]) \subseteq pending
        /\ done' = done \cup {job[Handler]} /\ UNCHANGED <<used, lost, crashes>>
    BY <1>0, <1>1 DEF Leave, Levels
  <2> USE <2>1 DEF Commit, Finish
  <2>2. TypeOK'
    BY <1>0 DEF TypeOK
  <2>3. Levels'
    BY <1>0 DEF TypeOK, Levels
  <2>4. Jobs'
    BY <1>0 DEF TypeOK, Jobs
  <2>5. Uncommitted'
    BY DEF Uncommitted
  <2>6. Finished'
    BY <1>0, OperationAssumption DEF TypeOK, Finished, Kept, Writes
  <2> QED BY <2>2, <2>3, <2>4, <2>5, <2>6
<1>2. CASE Len(levels) # 1
  <2>1. /\ levels' = SubSeq(levels, 1, Len(levels) - 1) /\ depth' = depth - 1
        /\ UNCHANGED <<open, pending, durable, at, job, done, used, lost, crashes>>
    BY <1>0, <1>2 DEF Leave, Levels
  <2>2. /\ levels' \in Seq(Level) /\ Len(levels') = Len(levels) - 1 /\ levels' # <<>>
        /\ \A i \in 1 .. Len(levels) - 1 : levels'[i] = levels[i]
    <3>1. \A i \in 1 .. Len(levels) - 1 : levels[i] \in Level
      BY <1>0, LenProperties
    <3>2. /\ levels' \in Seq(Level)
          /\ Len(levels') = IF 1 <= Len(levels) - 1 THEN Len(levels) - 1 - 1 + 1 ELSE 0
          /\ \A i \in 1 .. Len(levels) - 1 - 1 + 1 : levels'[i] = levels[1 + i - 1]
      BY <1>0, <2>1, <3>1, SubSeqProperties
    <3>3. Len(levels') = Len(levels) - 1 /\ Len(levels') # 0
      BY <1>0, <1>2, <3>2
    <3>4. levels' # <<>>
      BY <3>3, EmptySeq
    <3> QED BY <1>0, <3>2, <3>3, <3>4
  <2>3. TypeOK'
    BY <1>0, <1>2, <2>1, <2>2 DEF TypeOK
  <2>4. Levels'
    BY <1>0, <1>2, <2>1, <2>2 DEF Levels
  <2>5. Jobs'
    BY <2>1 DEF Jobs
  <2>6. Uncommitted'
    BY <2>1 DEF Uncommitted
  <2>7. Finished'
    BY <1>0, <1>2, <2>1 DEF TypeOK, Finished, Kept, Writes
  <2> QED BY <2>3, <2>4, <2>5, <2>6, <2>7
<1> QED BY <1>1, <1>2

\* An exception leaves every context and undoes what is not committed.
LEMMA RaiseInv ==
  ASSUME Inv, Raise
  PROVE  Inv'
<1> USE HandlerIn DEF Raise, Rollback, Finish, Inv
<1>0. depth' = 0
  BY LenProperties DEF TypeOK
<1>1. TypeOK'
  BY <1>0, EmptySeq DEF TypeOK, Uncommitted
<1>2. Levels'
  BY DEF TypeOK, Levels
<1>3. Jobs'
  BY DEF TypeOK, Jobs
<1>4. Uncommitted'
  BY DEF Uncommitted
<1>5. \A o \in Operation : Kept(o) => Writes(o) \subseteq durable \/ o \in lost'
  BY BoundAssumption DEF Kept, Writes
<1>6. Finished'
  BY <1>0, <1>5 DEF TypeOK, Finished, Kept, Jobs, Writes, Operation
<1> QED BY <1>1, <1>2, <1>3, <1>4, <1>6

\* The process ends.
LEMMA CrashInv ==
  ASSUME Inv, Crash
  PROVE  Inv'
<1> USE HandlerIn DEF Crash, Rollback, Inv
<1>1. TypeOK'
  BY EmptySeq DEF TypeOK, Uncommitted
<1>2. Levels'
  BY DEF TypeOK, Levels
<1>3. Jobs'
  BY DEF TypeOK, Jobs
<1>4. Uncommitted'
  BY DEF Uncommitted
<1>5. \A o \in Operation : Kept(o) => Writes(o) \subseteq durable \/ o \in lost'
  BY BoundAssumption DEF Kept, Writes
<1>6. Finished'
  BY <1>5 DEF TypeOK, Finished, Kept, Jobs, Writes, Operation
<1> QED BY <1>1, <1>2, <1>3, <1>4, <1>6

\* Every step keeps the invariant.
LEMMA NextInv ==
  ASSUME Inv, [Next]_vars
  PROVE  Inv'
<1>1. CASE UNCHANGED vars
  BY <1>1 DEF vars, Inv, TypeOK, Levels, Jobs, Uncommitted, Finished, Kept, Writes
<1>2. CASE Next
  BY <1>2, ExecuteSingleInv, ExecuteFailsInv, CommitIfNeededInv, BeginInv, EnterInv,
     BlockWriteInv, NestInv, LeaveInv, RaiseInv, CrashInv DEF Next
<1> QED BY <1>1, <1>2

\* The invariant holds for every number of coroutines, operations and writes.
THEOREM ConnectionInvariant == Spec => []Inv
<1>1. Init => Inv
  BY InitInv
<1>2. Inv /\ [Next]_vars => Inv'
  BY NextInv
<1> QED BY <1>1, <1>2, PTL DEF Spec

\* Every reachable state is well typed, and depth counts the open contexts.
THEOREM TypeCorrect == Spec => []TypeOK
BY ConnectionInvariant, PTL DEF Inv

\* What returned outside a block, or as a block, is durable.
THEOREM DurableWhenDone == Spec => []DoneIsDurable
<1>1. Inv => DoneIsDurable
  BY DEF Inv, TypeOK, Finished, DoneIsDurable, Operation
<1> QED BY <1>1, ConnectionInvariant, PTL

\* An idle process has no uncommitted write.
THEOREM CleanWhenIdle == Spec => []IdleIsClean
<1>1. Inv => IdleIsClean
  BY HandlerIn DEF Inv, Uncommitted, IdleIsClean
<1> QED BY <1>1, ConnectionInvariant, PTL

-----------------------------------------------------------------------------

\* What a commit makes durable are whole operations, when the only block with
\* uncommitted writes has made all of them.
LEMMA WholeCommit ==
  ASSUME Inv, Commit,
         \A x \in pending : x.op \in Blocks => Writes(x.op) \subseteq pending
  PROVE  Store!Next
<1> DEFINE S == {x.op : x \in pending}
<1>1. S \in SUBSET Operation
  BY DEF Inv, TypeOK, Operation, Uncommitted
<1>2. \A x \in pending : Writes(x.op) \subseteq pending
  <2> SUFFICES ASSUME NEW x \in pending
               PROVE  Writes(x.op) \subseteq pending
    OBVIOUS
  <2>1. x \in AllWrites /\ x.op \in Operation /\ x \in Writes(x.op)
    BY OpOf DEF Inv, TypeOK
  <2>2. CASE x.op \in Blocks
    BY <2>2
  <2>3. CASE x.op \in Singles
    BY <2>1, <2>3, WritesOf
  <2> QED BY <2>1, <2>2, <2>3 DEF Operation
<1>3. durable' = durable \cup {x \in AllWrites : x.op \in S}
  BY <1>2, OpOf DEF Commit, Inv, TypeOK
<1> QED BY <1>1, <1>3 DEF Store!Next, Store!Commit

\* Every step is a commit of whole operations or leaves the store alone.
LEMMA StoreStep ==
  ASSUME Inv, [Next]_vars
  PROVE  [Store!Next]_durable
<1>1. CASE UNCHANGED durable
  BY <1>1
<1>2. ASSUME NEW p \in Process, CommitIfNeeded(p), depth = 0
      PROVE  Store!Next
  <2>1. at[Handler] # "body"
    BY <1>2, DepthZero DEF Inv
  <2> QED BY <1>2, <2>1, WholeCommit DEF CommitIfNeeded, Inv, Uncommitted
<1>3. ASSUME Leave, Commit, Len(levels) = 1
      PROVE  Store!Next
  BY <1>3, WholeCommit DEF Leave, Inv, Uncommitted
<1>4. ASSUME Leave, Len(levels) # 1
      PROVE  UNCHANGED durable
  <2>1. /\ levels # <<>> /\ levels \in Seq(Level) /\ Len(levels) \in Nat \ {0}
    BY <1>4, EmptySeq, LenProperties DEF Inv, TypeOK, Levels, Leave
  <2>2. levels[Len(levels)] = "nested"
    <3>1. Len(levels) \in 2 .. Len(levels)
      BY <1>4, <2>1
    <3> QED BY <3>1 DEF Inv, Levels
  <2> QED BY <1>4, <2>2 DEF Leave
<1>5. Leave => UNCHANGED durable \/ Commit
  BY DEF Leave
<1> QED
  BY <1>1, <1>2, <1>3, <1>4, <1>5 DEF Next, vars, ExecuteSingle, ExecuteFails, CommitIfNeeded,
     Begin, BeginFails, Enter, BlockWrite, Nest, Raise, Crash

\* The shared connection implements the atomic store.
THEOREM ImplementsStore == Spec => Atomic
<1>1. Init => Store!Init
  BY DEF Init, Store!Init
<1>2. Inv /\ [Next]_vars => [Store!Next]_durable
  BY StoreStep
<1> QED BY <1>1, <1>2, ConnectionInvariant, PTL DEF Spec, Atomic, Store!Spec

=============================================================================
