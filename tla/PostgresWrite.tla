---------------------------- MODULE PostgresWrite ----------------------------
(***************************************************************************)
(* One node's target table on Postgres, statement by statement: the write  *)
(* part of harness.run_node (ensure_table, the shape check of append and   *)
(* upsert, the write of the node's mode_type) over PostgresAdapter.  The   *)
(* connection is autocommit, so a transaction is what the adapter opens    *)
(* with an explicit BEGIN.  A container runs one attempt and the scheduler *)
(* runs one container of the node at a time; any statement may fail, a     *)
(* COMMIT may be applied with its reply lost, the container may die        *)
(* anywhere.  Rows that a run inserts page by page are a set, split        *)
(* anywhere (the code splits every 1000 rows, in order).                   *)
(***************************************************************************)
EXTENDS Rows

CONSTANTS
  Indexes,       \* TRUE iff the node's config declares an index
  SeedRows,      \* what an existing table may hold before the first run
  Results,       \* the conformed rows a run may have
  MaxAttempts,   \* bound: attempts of one run
  MaxRuns        \* bound: runs of the node

ASSUME PostgresAssumption ==
  /\ Indexes \in BOOLEAN
  /\ SeedRows \subseteq Bag /\ Results \subseteq SUBSET Row
  /\ MaxAttempts \in Nat /\ MaxRuns \in Nat

VARIABLES
  tbl,       \* the committed target table, what every other session sees
  session,   \* the adapter's transaction: none, begun, working, aborted
  work,      \* the table as the open transaction sees it
  pc,        \* the next statement of the attempt
  left,      \* rows of the run not yet inserted
  mode,      \* mode_type of the node in this run
  data,      \* the conformed rows of the run
  base, origin,          \* history: rows at the start of the attempt, run
  stale,                 \* history: the attempt began on a drifted table
  attempts, runs

vars == <<tbl, session, work, pc, left, mode, data, base, origin, stale,
          attempts, runs>>
history == <<base, origin, stale>>

(* keyed: the key has its PRIMARY KEY; indexed: the config's index exists; *)
(* shape: whether names and nullability are the declared ones.             *)
Table == {t \in [exists : BOOLEAN, keyed : BOOLEAN, indexed : BOOLEAN,
                 shape : {"declared", "drifted"}, rows : Bag] :
            ~t.exists => t.rows = NoRows}

NoTable == [exists |-> FALSE, keyed |-> FALSE, indexed |-> FALSE,
            shape |-> "declared", rows |-> NoRows]

EnsureSteps == {"schema", "create", "index", "commit_ensure"}
WriteSteps  == {"check", "unique", "truncate", "insert", "commit", "report"}
Steps       == EnsureSteps \cup WriteSteps \cup {"rollback"}

TypeOK ==
  /\ tbl \in Table /\ work \in Table
  /\ session \in {"none", "begun", "working", "aborted"}
  /\ session # "working" => work = tbl
  /\ pc \in Steps \cup {"idle", "ok", "failed"}
  /\ left \in SUBSET Row /\ data \in SUBSET Row /\ mode \in Modes
  /\ base \in Bag /\ origin \in Bag
  /\ stale \in BOOLEAN
  /\ attempts \in Nat /\ runs \in Nat

Init ==
  /\ tbl \in {NoTable} \cup
             [exists : {TRUE}, keyed : BOOLEAN, indexed : BOOLEAN,
              shape : {"declared", "drifted"}, rows : SeedRows]
  /\ tbl.keyed => KeyedOnce(tbl.rows)
  /\ session = "none" /\ work = tbl
  /\ pc = "idle"
  /\ left = {} /\ data = {} /\ mode = "replace"
  /\ base = tbl.rows /\ origin = tbl.rows /\ stale = FALSE
  /\ attempts = 0 /\ runs = 0

-----------------------------------------------------------------------------
(* Statements.  A transaction sees what is committed when its first        *)
(* statement runs, and its own changes from then on.                       *)

View == IF session = "working" THEN work ELSE tbl

Exec(t) == /\ session' = "working"
           /\ work' = t
           /\ UNCHANGED tbl

Begin  == session' = "begun" /\ UNCHANGED <<tbl, work>>

Commit == /\ tbl' = View
          /\ work' = View
          /\ session' = "none"

Discard == session' = "none" /\ work' = tbl /\ UNCHANGED tbl

NoStatement == UNCHANGED <<tbl, session, work>>

Goto(from, to) == pc = from /\ pc' = to

Attempt == UNCHANGED <<mode, data, history, attempts, runs>>

-----------------------------------------------------------------------------
(* The scheduler: one container at a time, retries after a failure.        *)

StartAttempt ==
  /\ pc' = "schema"
  /\ base' = tbl.rows
  /\ stale' = (tbl.shape = "drifted")
  /\ NoStatement

BeginRun ==
  /\ pc \in {"idle", "ok", "failed"} /\ runs < MaxRuns
  /\ StartAttempt
  /\ origin' = tbl.rows
  /\ mode' \in Modes /\ data' \in Results /\ left' = data'
  /\ runs' = runs + 1 /\ attempts' = 1

Retry ==
  /\ pc = "failed" /\ attempts < MaxAttempts
  /\ StartAttempt
  /\ left' = data
  /\ attempts' = attempts + 1
  /\ UNCHANGED <<origin, mode, data, runs>>

-----------------------------------------------------------------------------
(* ensure_table.  The config and type checks come before any DDL;          *)
(* ensure_schema only makes the schema exist.                              *)

EnsureSchema ==
  /\ Goto("schema", "create")
  /\ Begin
  /\ UNCHANGED left /\ Attempt

CreateTable_OnlyIndexes ==     \* fault: the CREATE TABLE is skipped
  /\ Goto("create", IF Indexes THEN "index" ELSE "commit_ensure")
  /\ Exec(View)
  /\ UNCHANGED left /\ Attempt

CreateTable ==
  /\ Goto("create", IF Indexes THEN "index" ELSE "commit_ensure")
  /\ Exec(IF View.exists THEN View
          ELSE [NoTable EXCEPT !.exists = TRUE, !.keyed = (mode = "upsert")])
  /\ UNCHANGED left /\ Attempt

CreateIndex ==
  /\ Goto("index", "commit_ensure")
  /\ Exec([View EXCEPT !.indexed = TRUE])
  /\ UNCHANGED left /\ Attempt

CommitEnsure ==
  /\ Goto("commit_ensure", IF mode = "replace" THEN "truncate" ELSE "check")
  /\ Commit
  /\ UNCHANGED left /\ Attempt

CheckShape_Skipped ==          \* fault: only the table's existence is asked for
  /\ pc = "check"
  /\ pc' = IF tbl.exists THEN IF mode = "upsert" THEN "unique" ELSE "insert"
           ELSE "failed"
  /\ NoStatement
  /\ UNCHANGED left /\ Attempt

(* _check_shape: a difference, or no table, is a LoadError.                *)
CheckShape ==
  /\ pc = "check"
  /\ pc' = IF tbl.exists /\ tbl.shape = "declared"
           THEN IF mode = "upsert" THEN "unique" ELSE "insert"
           ELSE "failed"
  /\ NoStatement
  /\ UNCHANGED left /\ Attempt

(* UpsertCapable.upsert: ensure_unique_key before the engine's _upsert.    *)
EnsureUniqueKey ==
  /\ Goto("unique", IF UniqueKeys(data) THEN "insert" ELSE "failed")
  /\ NoStatement
  /\ UNCHANGED left /\ Attempt

-----------------------------------------------------------------------------
(* load, append, _upsert.                                                  *)

BeginWrite ==
  /\ pc \in {"truncate", "insert"} /\ session = "none"
  /\ pc = "insert" => data # {}
  /\ Begin
  /\ UNCHANGED <<pc, left>> /\ Attempt

(* append and _upsert of 0 rows return without a transaction.              *)
NothingToWrite ==
  /\ Goto("insert", "report") /\ session = "none"
  /\ data = {}
  /\ NoStatement
  /\ UNCHANGED left /\ Attempt

Truncate_BeforeBegin ==        \* fault: TRUNCATE outside the transaction
  /\ Goto("truncate", IF data = {} THEN "commit" ELSE "insert")
  /\ session = "begun"
  /\ tbl' = [tbl EXCEPT !.rows = NoRows] /\ work' = tbl'
  /\ UNCHANGED session
  /\ UNCHANGED left /\ Attempt

Truncate_OnlyFirst ==          \* fault: TRUNCATE only when the table was not there
  /\ Goto("truncate", IF data = {} THEN "commit" ELSE "insert")
  /\ session = "begun"
  /\ Exec(View)
  /\ UNCHANGED left /\ Attempt

Truncate ==
  /\ Goto("truncate", IF data = {} THEN "commit" ELSE "insert")
  /\ session = "begun"
  /\ Exec([View EXCEPT !.rows = NoRows])
  /\ UNCHANGED left /\ Attempt

InsertPage_NeverDone ==        \* fault: the loop waits for one more page
  /\ pc = "insert" /\ session \in {"begun", "working"}
  /\ mode = "upsert" => View.keyed
  /\ \E page \in SUBSET left \ {{}} :
       /\ View.keyed => KeyedOnce(Put(mode, View.rows, page))
       /\ Exec([View EXCEPT !.rows = Put(mode, @, page)])
       /\ left' = left \ page
  /\ UNCHANGED pc /\ Attempt

(* One page; a PRIMARY KEY refuses to hold a key twice, also when the      *)
(* node's mode is not upsert any more.                                     *)
InsertPage ==
  /\ pc = "insert" /\ session \in {"begun", "working"}
  /\ mode = "upsert" => View.keyed
  /\ \E page \in SUBSET left \ {{}} :
       /\ View.keyed => KeyedOnce(Put(mode, View.rows, page))
       /\ Exec([View EXCEPT !.rows = Put(mode, @, page)])
       /\ left' = left \ page
       /\ pc' = IF left' = {} THEN "commit" ELSE "insert"
  /\ Attempt

(* ON CONFLICT names columns no constraint of the table covers, or a plain *)
(* INSERT repeats a key of the PRIMARY KEY.                                *)
ConstraintFails ==
  /\ Goto("insert", "rollback") /\ session \in {"begun", "working"}
  /\ IF View.keyed THEN ~KeyedOnce(Put(mode, View.rows, left)) ELSE mode = "upsert"
  /\ session' = "aborted" /\ work' = tbl /\ UNCHANGED tbl
  /\ UNCHANGED left /\ Attempt

CommitWrite_Forgotten ==       \* fault: the body ends without COMMIT
  /\ Goto("commit", "report")
  /\ Discard
  /\ UNCHANGED left /\ Attempt

CommitWrite ==
  /\ Goto("commit", "report")
  /\ Commit
  /\ UNCHANGED left /\ Attempt

(* The write returned: run_node prints the success block.                  *)
Report ==
  /\ Goto("report", "ok")
  /\ NoStatement
  /\ UNCHANGED left /\ Attempt

-----------------------------------------------------------------------------
(* Failures.                                                               *)

(* A statement outside a transaction fails: ensure_schema, the catalog     *)
(* query of table_columns, BEGIN.                                          *)
StatementFails ==
  /\ pc \in {"schema", "check", "truncate", "insert"} /\ session = "none"
  /\ pc' = "failed"
  /\ NoStatement
  /\ UNCHANGED left /\ Attempt

(* A statement of an open transaction fails, COMMIT included: the server   *)
(* has aborted the transaction and the adapter goes on to ROLLBACK.        *)
TransactionFails ==
  /\ session \in {"begun", "working"}
  /\ session' = "aborted" /\ work' = tbl /\ UNCHANGED tbl
  /\ pc' = "rollback"
  /\ UNCHANGED left /\ Attempt

(* COMMIT is applied and its reply lost: psycopg2 raises, the adapter      *)
(* rolls back what is no longer there.                                     *)
CommitReplyLost ==
  /\ pc \in {"commit_ensure", "commit"}
  /\ tbl' = View /\ work' = View /\ session' = "aborted"
  /\ pc' = "rollback"
  /\ UNCHANGED left /\ Attempt

(* ROLLBACK, whose own failure is only logged; then the error is raised.   *)
Rollback ==
  /\ Goto("rollback", "failed")
  /\ Discard
  /\ UNCHANGED left /\ Attempt

(* The container dies: the server discards the open transaction.           *)
Crash ==
  /\ pc \in Steps
  /\ pc' = "failed"
  /\ Discard
  /\ UNCHANGED left /\ Attempt

(* Somebody changes the table's columns outside the contract.  ALTER TABLE *)
(* waits for the locks of an open transaction.                             *)
AlterTable ==
  /\ tbl.exists /\ tbl.shape = "declared" /\ session # "working"
  /\ tbl' = [tbl EXCEPT !.shape = "drifted"]
  /\ work' = tbl'
  /\ UNCHANGED <<session, pc, left>> /\ Attempt

Program ==
  \/ EnsureSchema \/ CreateTable \/ CreateIndex \/ CommitEnsure
  \/ CheckShape \/ EnsureUniqueKey
  \/ BeginWrite \/ NothingToWrite \/ Truncate \/ InsertPage
  \/ ConstraintFails \/ CommitWrite \/ Report
  \/ Rollback

Environment ==
  \/ StatementFails \/ TransactionFails \/ CommitReplyLost \/ Crash
  \/ AlterTable

Next == BeginRun \/ Retry \/ Program \/ Environment

Spec == Init /\ [][Next]_vars

(* The driver answers every call, with a result or an exception.           *)
FairSpec == Spec /\ WF_vars(Program)

-----------------------------------------------------------------------------
Phase == IF pc \in Steps THEN "running" ELSE pc

Contract == INSTANCE TargetWrite WITH rows <- tbl.rows, phase <- Phase

(* PostgresAdapter keeps the promise of TargetWrite in every mode: load,   *)
(* append and _upsert change the visible rows in one step, and run_node    *)
(* reports success only after that step.                                   *)
KeepsContract == Contract!Spec

(* Readers see all of an attempt's rows or none, whichever statement fails *)
(* and whenever the container dies (the BEGIN and COMMIT of _transaction). *)
AllOrNone == Contract!AllOrNone

(* A replace or upsert run retried after a lost COMMIT reply leaves what   *)
(* one attempt would have left (TRUNCATE in load, ON CONFLICT in _upsert). *)
RetrySafe == Contract!RetrySafe

(* Rows that repeat a key fail the run and nothing is written              *)
(* (ensure_unique_key runs before _upsert opens its transaction).          *)
DuplicateKeyWritesNothing == Contract!DuplicateKeyWritesNothing

(* An upsert never leaves two rows of one key, also when it runs on a      *)
(* table somebody else created without the key's constraint.               *)
UpsertKeepsKeysUnique ==
  mode = "upsert" =>
    /\ KeyedOnce(origin) => KeyedOnce(tbl.rows)
    /\ ~tbl.keyed => tbl.rows = origin

(* An append or upsert that starts on a table whose columns drifted leaves *)
(* its rows alone (_check_shape runs after ensure_table, before the write).*)
DriftStopsWrite ==
  mode # "replace" /\ stale => tbl.rows = base

(* However often an append run is retried, the table is its earlier rows   *)
(* and whole copies of the run's rows, at most one for each attempt; after *)
(* success at least one (a commit reported lost is repeated, never split). *)
AppendedWhole ==
  mode = "append" =>
    \E n \in (IF pc = "ok" THEN 1 ELSE 0) .. attempts :
      tbl.rows = [r \in Row |-> IF r \in data THEN origin[r] + n ELSE origin[r]]

(* Every attempt ends in a report: no sequence of failures leaves run_node *)
(* waiting (NothingToWrite, Rollback and every raise lead out).            *)
AttemptEnds == pc \in Steps ~> pc \notin Steps
=============================================================================
