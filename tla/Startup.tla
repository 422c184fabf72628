------------------------------ MODULE Startup ------------------------------
(***************************************************************************)
(* The start of the process: the schema is brought up to date, then the    *)
(* packaged migrations run one after another and are recorded in           *)
(* schema_migrations (adapters/storage/sqlite.py), then the application    *)
(* and its loops exist (app.py).  PM2 starts the process again when it     *)
(* ends, also when a migration is refused, until it ended too often in a   *)
(* row before it was up for min_uptime (ecosystem.config.cjs).             *)
(*                                                                         *)
(* executescript commits what is pending and then each statement by        *)
(* itself; the row of the ledger stays pending until the next script, or   *)
(* the end of initialize, commits it.                                      *)
(***************************************************************************)
EXTENDS Naturals, Sequences

CONSTANTS Scripts,     \* per migration and statement: may it be run again?
          MaxRestarts, \* max_restarts
          MaxCrashes   \* bound on how often the process is killed

ASSUME ScriptsAssumption ==
  /\ Scripts \in Seq(Seq(BOOLEAN))
  /\ \A k \in 1 .. Len(Scripts) : Scripts[k] # <<>>
ASSUME CrashesAssumption == MaxCrashes \in Nat /\ MaxRestarts \in Nat \ {0}

VARIABLES process,   \* down, starting, running, or errored: given up by PM2
          restarts,  \* the ends within min_uptime that PM2 has counted
          done,      \* per migration, how many statements have taken effect
          ledger,    \* the migrations recorded in schema_migrations
          pending,   \* the ones whose row is not committed yet
          at,        \* while starting: the migration under way
          step,      \* and how many of its statements this process has run
          crashes

startVars == <<process, restarts, done, ledger, pending, at, step, crashes>>

Migrations == 1 .. Len(Scripts)

StartInit == /\ process = "down"
             /\ restarts = 0
             /\ done = [k \in Migrations |-> 0]
             /\ ledger = {}
             /\ pending = {}
             /\ at = 1
             /\ step = 0
             /\ crashes = 0

\* The ledger, the schema and the columns of older versions: every statement
\* up to the migrations is one that may be repeated.
Begin ==
  /\ process = "down"
  /\ process' = "starting"
  /\ at' = 1 /\ step' = 0
  /\ UNCHANGED <<restarts, done, ledger, pending, crashes>>

\* Faulty variant: no look at the ledger.
RecordedNever(k) == k \in pending

Recorded(k) == k \in ledger \cup pending

Skip ==
  /\ process = "starting" /\ at \in Migrations /\ step = 0
  /\ Recorded(at)
  /\ at' = at + 1
  /\ UNCHANGED <<process, restarts, done, ledger, pending, step, crashes>>

\* The next statement has an effect, or repeats one that may be repeated;
\* the first one commits the rows of the ledger that are pending.
Applies == step + 1 > done[at] \/ Scripts[at][step + 1]
RunStatement ==
  /\ process = "starting" /\ at \in Migrations
  /\ step > 0 \/ ~Recorded(at)
  /\ step < Len(Scripts[at])
  /\ Applies
  /\ done' = [done EXCEPT ![at] = IF step + 1 > @ THEN step + 1 ELSE @]
  /\ step' = step + 1
  /\ ledger' = ledger \cup pending
  /\ pending' = {}
  /\ UNCHANGED <<process, restarts, at, crashes>>

\* The process has ended.  PM2 counts the end if it came within min_uptime,
\* begins anew otherwise, and at its limit does not start it again.
Ended ==
  /\ restarts' \in {0, restarts + 1}
  /\ process' = IF restarts' = MaxRestarts THEN "errored" ELSE "down"

\* Faulty variant: the process waits instead of ending.
RefusedForGood ==
  /\ process = "starting" /\ at \in Migrations
  /\ step > 0 \/ ~Recorded(at)
  /\ step < Len(Scripts[at])
  /\ ~Applies
  /\ process' = "failed"
  /\ UNCHANGED <<restarts, done, ledger, pending, at, step, crashes>>

\* ALTER TABLE ... ADD COLUMN of a column that is there already: the start is
\* given up.
Refused ==
  /\ process = "starting" /\ at \in Migrations
  /\ step > 0 \/ ~Recorded(at)
  /\ step < Len(Scripts[at])
  /\ ~Applies
  /\ Ended
  /\ ledger' = ledger \cup pending
  /\ pending' = {}
  /\ UNCHANGED <<done, at, step, crashes>>

\* Faulty variant: the row of a migration is written before its last statement.
RecordEarly ==
  /\ process = "starting" /\ at \in Migrations
  /\ step + 1 >= Len(Scripts[at])
  /\ pending' = pending \cup {at}
  /\ at' = at + 1 /\ step' = 0
  /\ UNCHANGED <<process, restarts, done, ledger, crashes>>

Record ==
  /\ process = "starting" /\ at \in Migrations
  /\ step = Len(Scripts[at])
  /\ pending' = pending \cup {at}
  /\ at' = at + 1 /\ step' = 0
  /\ UNCHANGED <<process, restarts, done, ledger, crashes>>

Serve ==
  /\ process = "starting" /\ at = Len(Scripts) + 1
  /\ process' = "running"
  /\ ledger' = ledger \cup pending
  /\ pending' = {}
  /\ UNCHANGED <<restarts, done, at, step, crashes>>

Kill ==
  /\ process \in {"starting", "running"}
  /\ crashes < MaxCrashes
  /\ Ended
  /\ pending' = {}
  /\ crashes' = crashes + 1
  /\ UNCHANGED <<done, ledger, at, step>>

Starting == Begin \/ Skip \/ RunStatement \/ Refused \/ Record \/ Serve

-----------------------------------------------------------------------------
\* Every variable of the start has its type.
StartTypeOK == /\ process \in {"down", "starting", "running", "errored"}
               /\ restarts \in 0 .. MaxRestarts
               /\ process = "errored" <=> restarts = MaxRestarts
               /\ done \in [Migrations -> Nat]
               /\ \A k \in Migrations : done[k] <= Len(Scripts[k])
               /\ ledger \in SUBSET Migrations
               /\ pending \in SUBSET Migrations
               /\ at \in 1 .. Len(Scripts) + 1
               /\ step \in Nat
               /\ crashes \in 0 .. MaxCrashes

\* A migration that is recorded has taken effect completely, migrations take
\* effect in their order, and the bot serves only with all of them recorded
\* for good, wherever a start is cut off.
Applied(k) == done[k] = Len(Scripts[k])
LedgerTrue ==
  /\ \A k \in Migrations :
       /\ k \in ledger \cup pending => Applied(k)
       /\ done[k] > 0 => \A j \in Migrations : j < k => Applied(j)
  /\ process = "running" => ledger = Migrations

\* A statement that cannot be repeated has taken effect and its migration is
\* not recorded for good: so it is for a while in any start, but a process
\* that ends like this can never be completed by a later start.
Torn == \E k \in Migrations \ ledger :
          \E i \in 1 .. done[k] : ~Scripts[k][i]

\* A process that is down gets to serve, unless it was cut off where it was
\* torn, or killed as often as PM2 allows.
Lost == \/ process \in {"down", "errored"} /\ Torn
        \/ process = "errored" /\ crashes >= MaxRestarts
Recovers == process = "down" ~> process = "running" \/ Lost
=============================================================================
