-------------------------- MODULE SharedConnection --------------------------
(***************************************************************************)
(* Database: one SQLite connection that every coroutine of the process      *)
(* shares.  Updates of the owner are handled one after another (Handler);   *)
(* the background loops run beside them, and any two awaits of one          *)
(* coroutine may have statements of the others between them.  Statements    *)
(* are executed in the order they were awaited, by one thread.              *)
(*                                                                         *)
(* A statement that writes opens a transaction of SQLite when none is open. *)
(* transaction() counts how deeply its contexts are nested in depth, and    *)
(* commit_if_needed, which ends every single write, commits at depth 0.     *)
(***************************************************************************)
EXTENDS Integers, Sequences

CONSTANTS
  Loops,      \* the background coroutines
  Handler,    \* the coroutine that handles the owner's updates
  Singles,    \* operations of one write, which end with commit_if_needed
  Blocks,     \* operations of the handler inside transaction()
  Size,       \* writes of a block
  MaxLevels,  \* bound on the nesting of contexts
  MaxCrashes, \* bound on the restarts
  NoOperation

ASSUME ProcessAssumption   == Handler \notin Loops
ASSUME OperationAssumption == Singles \cap Blocks = {} /\ NoOperation \notin Singles \cup Blocks
ASSUME BoundAssumption     == Size \in Nat \ {0} /\ MaxLevels \in Nat \ {0} /\ MaxCrashes \in Nat

VARIABLES
  depth,    \* Database._transaction_depth
  open,     \* SQLite is inside a transaction
  pending,  \* the writes of that transaction
  durable,  \* the writes that were committed
  at,       \* where each coroutine is
  job,      \* the operation it performs
  levels,   \* the contexts of transaction() the handler is in
  used,     \* operations that were started
  done,     \* operations that returned without an exception
  lost,     \* operations undone by a rollback or by the end of the process
  crashes

memory == <<at, job, levels>>
vars == <<depth, open, pending, durable, at, job, levels, used, done, lost, crashes>>

Process   == Loops \cup {Handler}
Operation == Singles \cup Blocks
Write     == [op : Operation, n : 1 .. Size]
Writes(o) == IF o \in Blocks THEN {[op |-> o, n |-> n] : n \in 1 .. Size}
             ELSE {[op |-> o, n |-> 1]}
AllWrites == UNION {Writes(o) : o \in Operation}
Level == {"outermost", "nested"}
LevelAt(d) == IF d = 0 THEN "outermost" ELSE "nested"

TypeOK ==
  /\ depth \in Nat /\ depth = Len(levels)
  /\ open \in BOOLEAN /\ pending # {} => open
  /\ pending \subseteq AllWrites /\ durable \subseteq AllWrites
  /\ at \in [Process -> {"idle", "wrote", "begun", "body"}]
  /\ job \in [Process -> Operation \cup {NoOperation}]
  /\ levels \in Seq(Level)
  /\ used \subseteq Operation /\ done \subseteq used /\ lost \subseteq used
  /\ crashes \in Nat

Init ==
  /\ depth = 0 /\ open = FALSE /\ pending = {} /\ durable = {}
  /\ at = [p \in Process |-> "idle"] /\ job = [p \in Process |-> NoOperation]
  /\ levels = <<>> /\ used = {} /\ done = {} /\ lost = {} /\ crashes = 0

-----------------------------------------------------------------------------
(* The connection.                                                         *)

Execute(x) == pending' = pending \cup {x} /\ open' = TRUE
Commit     == durable' = durable \cup pending /\ pending' = {} /\ open' = FALSE
Rollback   == /\ lost' = lost \cup {x.op : x \in pending}
              /\ pending' = {} /\ open' = FALSE

Start(p, o, place) ==
  /\ at[p] = "idle" /\ o \notin used
  /\ used' = used \cup {o}
  /\ at' = [at EXCEPT ![p] = place]
  /\ job' = [job EXCEPT ![p] = o]

Finish(p) ==
  /\ at' = [at EXCEPT ![p] = "idle"]
  /\ job' = [job EXCEPT ![p] = NoOperation]

-----------------------------------------------------------------------------
(* A single write: BaseRepository._execute.                                *)

ExecuteSingle(p, o) ==
  /\ o \in Singles
  /\ Start(p, o, "wrote")
  /\ Execute([op |-> o, n |-> 1])
  /\ UNCHANGED <<depth, durable, levels, done, lost, crashes>>

\* A statement that is refused (a foreign key) leaves its transaction open and
\* raises before commit_if_needed.
ExecuteFails(p, o) ==
  /\ o \in Singles
  /\ at[p] = "idle" /\ o \notin used
  /\ used' = used \cup {o}
  /\ open' = TRUE
  /\ UNCHANGED <<depth, pending, durable, memory, done, lost, crashes>>

\* Faulty variant of CommitIfNeeded: the depth is not looked at.
CommitAlways(p) ==
  /\ at[p] = "wrote"
  /\ Commit
  /\ done' = done \cup {job[p]}
  /\ Finish(p)
  /\ UNCHANGED <<depth, levels, used, lost, crashes>>

CommitIfNeeded(p) ==
  /\ at[p] = "wrote"
  /\ IF depth = 0 THEN Commit ELSE UNCHANGED <<open, pending, durable>>
  /\ done' = done \cup {job[p]}
  /\ Finish(p)
  /\ UNCHANGED <<depth, levels, used, lost, crashes>>

-----------------------------------------------------------------------------
(* A block of the handler: transaction(), with contexts nested in it.      *)

\* BEGIN is executed while depth is still 0.
Begin(o) ==
  /\ o \in Blocks /\ ~open
  /\ Start(Handler, o, "begun")
  /\ open' = TRUE
  /\ UNCHANGED <<depth, pending, durable, levels, done, lost, crashes>>

\* SQLite refuses BEGIN inside a transaction another coroutine has open.
BeginFails(o) ==
  /\ o \in Blocks /\ open
  /\ at[Handler] = "idle" /\ o \notin used
  /\ used' = used \cup {o}
  /\ UNCHANGED <<depth, open, pending, durable, memory, done, lost, crashes>>

\* Faulty variant of Enter: outermost is computed after the increment.
EnterLate ==
  /\ at[Handler] = "begun"
  /\ depth' = depth + 1
  /\ levels' = <<LevelAt(depth')>>
  /\ at' = [at EXCEPT ![Handler] = "body"]
  /\ UNCHANGED <<open, pending, durable, job, used, done, lost, crashes>>

\* The coroutine resumes after BEGIN.
Enter ==
  /\ at[Handler] = "begun"
  /\ depth' = depth + 1
  /\ levels' = <<"outermost">>
  /\ at' = [at EXCEPT ![Handler] = "body"]
  /\ UNCHANGED <<open, pending, durable, job, used, done, lost, crashes>>

BlockWrite(x) ==
  /\ at[Handler] = "body"
  /\ x \in Writes(job[Handler]) \ pending
  /\ Execute(x)
  /\ UNCHANGED <<depth, durable, memory, used, done, lost, crashes>>

Nest ==
  /\ at[Handler] = "body" /\ Len(levels) < MaxLevels
  /\ levels' = Append(levels, LevelAt(depth))
  /\ depth' = depth + 1
  /\ UNCHANGED <<open, pending, durable, at, job, used, done, lost, crashes>>

\* A context ends; the block ends with its outermost one.
Leave ==
  /\ at[Handler] = "body"
  /\ Len(levels) = 1 => Writes(job[Handler]) \subseteq pending
  /\ depth' = depth - 1
  /\ levels' = SubSeq(levels, 1, Len(levels) - 1)
  /\ IF levels[Len(levels)] = "outermost" THEN Commit ELSE UNCHANGED <<open, pending, durable>>
  /\ IF Len(levels) = 1
       THEN Finish(Handler) /\ done' = done \cup {job[Handler]}
       ELSE UNCHANGED <<at, job, done>>
  /\ UNCHANGED <<used, lost, crashes>>

\* Faulty variants of Raise: nothing is rolled back, and only the outermost
\* context restores the depth.
RaiseKeepsWrites ==
  /\ at[Handler] = "body"
  /\ depth' = depth - Len(levels) /\ levels' = <<>>
  /\ Finish(Handler)
  /\ UNCHANGED <<open, pending, durable, used, done, lost, crashes>>

RaiseKeepsDepth ==
  /\ at[Handler] = "body"
  /\ depth' = depth - 1 /\ levels' = <<>>
  /\ Rollback
  /\ Finish(Handler)
  /\ UNCHANGED <<durable, used, done, crashes>>

\* An exception unwinds every context; the outermost one rolls back whatever
\* the connection holds.
Raise ==
  /\ at[Handler] = "body"
  /\ depth' = depth - Len(levels) /\ levels' = <<>>
  /\ Rollback
  /\ Finish(Handler)
  /\ UNCHANGED <<durable, used, done, crashes>>

-----------------------------------------------------------------------------

\* The process ends; what was not committed is gone.
Crash ==
  /\ crashes < MaxCrashes /\ crashes' = crashes + 1
  /\ Rollback
  /\ depth' = 0 /\ levels' = <<>>
  /\ at' = [p \in Process |-> "idle"] /\ job' = [p \in Process |-> NoOperation]
  /\ UNCHANGED <<durable, used, done>>

Next ==
  \/ \E p \in Process, o \in Singles : ExecuteSingle(p, o) \/ ExecuteFails(p, o)
  \/ \E p \in Process : CommitIfNeeded(p)
  \/ \E o \in Blocks : Begin(o) \/ BeginFails(o)
  \/ \E x \in AllWrites : BlockWrite(x)
  \/ Enter \/ Nest \/ Leave \/ Raise \/ Crash

Spec == Init /\ [][Next]_vars

-----------------------------------------------------------------------------
(* Properties.                                                             *)

Store == INSTANCE AtomicStore WITH store <- durable, Write <- AllWrites

\* The writes of a block become durable together, whatever the background
\* loops write and commit between its awaits: the connection implements an
\* atomic store.
Atomic == Store!Spec

\* A block that returned is durable; a single write that returned is, too, as
\* soon as it is not inside somebody's block, unless it was undone with one.
DoneIsDurable ==
  \A o \in done :
    o \in Blocks \/ (o \notin lost /\ depth = 0) => Writes(o) \subseteq durable

\* Nothing stays uncommitted once every coroutine is idle: no later rollback
\* or crash can undo an operation that has ended.
IdleIsClean == (\A p \in Process : at[p] = "idle") => pending = {}

\* "Record event logs for user-visible and lifecycle transitions": an event
\* whose append returned is not undone while the process runs.
ReturnedIsKept == crashes = 0 => done \cap lost = {}

=============================================================================
