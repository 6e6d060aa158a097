---------------------------- MODULE DuckLakeWrite ----------------------------
(***************************************************************************)
(* One node's target table in a DuckLake catalog: the write part of        *)
(* harness.run_node over LakeWarehouse and DuckLakeSession.  A transaction *)
(* works on the snapshot of its BEGIN; its COMMIT fails with a conflict    *)
(* when somebody else committed a change of the same table since, and may  *)
(* when they committed anything.  Only creation retries a conflict.        *)
(***************************************************************************)
EXTENDS Rows

CONSTANTS
  SeedRows,          \* what an existing table may hold before the first run
  Results,           \* the conformed rows a run may have
  ConflictAttempts,  \* _CONFLICT_ATTEMPTS
  MaxAttempts,       \* bound: attempts over all runs
  MaxRivals          \* bound: commits of others to the catalog

ASSUME DuckLakeAssumption ==
  /\ SeedRows \subseteq Bag /\ Results \subseteq SUBSET Row
  /\ ConflictAttempts \in Nat \ {0}
  /\ MaxAttempts \in Nat /\ MaxRivals \in Nat

VARIABLES
  tbl,           \* the table of the newest snapshot
  con,           \* the connection: "idle" or inside a transaction
  snap, tx,      \* the transaction's snapshot of the table, and its version
  moved,         \* somebody committed since that snapshot
  pc,            \* the next statement of the attempt
  tries,         \* the attempt number of _retrying
  raised,        \* what the transaction is being rolled back for
  mode,          \* mode_type of the node in this run
  data,          \* the conformed rows of the run
  attempts, rivals,          \* counters of the bounds
  base, origin,  \* history: rows at the start of the attempt, run
  faulted        \* history: something other than a conflict failed

vars == <<tbl, con, snap, tx, moved, pc, tries, raised, mode, data, attempts,
          rivals, base, origin, faulted>>
lake == <<tbl, moved, rivals>>
session == <<con, snap, tx>>

Table == [made : {"never", "before", "node", "rival"}, layout : BOOLEAN,
          shape : {"declared", "drifted"}, rows : Bag]
NoTable == [made |-> "never", layout |-> FALSE, shape |-> "declared",
            rows |-> NoRows]
Exists(t) == t.made # "never"

Creating == {"schema", "begin_create", "exists", "create", "layout",
             "commit_create"}
InTransaction == {"exists", "create", "layout", "commit_create", "delete",
                  "put", "commit", "rollback"}
Steps == Creating \cup InTransaction \cup {"check", "unique", "begin", "lost",
                                           "report"}

TypeOK ==
  /\ tbl \in Table /\ snap \in Table /\ tx \in Table
  /\ con \in {"idle", "open"}
  /\ moved \in BOOLEAN /\ faulted \in BOOLEAN
  /\ pc \in Steps \cup {"idle", "ok", "failed"}
  /\ tries \in 1 .. ConflictAttempts
  /\ raised \in {"conflict", "error"}
  /\ data \in SUBSET Row /\ mode \in Modes
  /\ attempts \in 0 .. MaxAttempts /\ rivals \in 0 .. MaxRivals
  /\ base \in Bag /\ origin \in Bag

Init ==
  /\ tbl \in {NoTable} \cup
             [made : {"before"}, layout : {FALSE}, rows : SeedRows,
              shape : {"declared", "drifted"}]
  /\ con = "idle" /\ snap = NoTable /\ tx = NoTable
  /\ moved = FALSE /\ faulted = FALSE
  /\ pc = "idle" /\ tries = 1 /\ raised = "error"
  /\ data = {} /\ mode = "replace"
  /\ attempts = 0 /\ rivals = 0
  /\ base = tbl.rows /\ origin = tbl.rows

-----------------------------------------------------------------------------
(* The scheduler: one container at a time, a new connection in each.  A    *)
(* node becomes an upsert node over a table that repeats no key (Merge).   *)

StartAttempt ==
  /\ attempts < MaxAttempts
  /\ attempts' = attempts + 1
  /\ pc' = "schema" /\ tries' = 1
  /\ con' = "idle" /\ faulted' = FALSE
  /\ base' = tbl.rows
  /\ UNCHANGED <<lake, snap, tx, raised>>

BeginRun ==
  /\ pc \in {"idle", "ok", "failed"}
  /\ StartAttempt
  /\ origin' = tbl.rows /\ mode' \in Modes /\ data' \in Results
  /\ mode' = "upsert" => KeyedOnce(tbl.rows)

Retry ==
  /\ pc = "failed"
  /\ StartAttempt
  /\ UNCHANGED <<origin, mode, data>>

Run == UNCHANGED <<mode, data, attempts, base, origin>>

-----------------------------------------------------------------------------
(* _guarded, _retrying: an error leaves the statement at pc.  A conflict   *)
(* with the creation starts it again; anything else ends the attempt.      *)

RetryOrFail_AtOnce(error) ==   \* fault: the loser of a race gives up
  pc' = "failed" /\ tries' = tries

RetryOrFail_OnceMore(error) == \* fault: off by one in the bound of the loop
  IF /\ error = "conflict" /\ pc \in Creating \cup {"rollback"}
     /\ tries <= ConflictAttempts
  THEN /\ tries' = tries + 1
       /\ pc' = IF pc = "schema" THEN "schema" ELSE "begin_create"
  ELSE pc' = "failed" /\ tries' = tries

RetryOrFail(error) ==
  IF /\ error = "conflict" /\ pc \in Creating \cup {"rollback"}
     /\ tries < ConflictAttempts
  THEN /\ tries' = tries + 1
       /\ pc' = IF pc = "schema" THEN "schema" ELSE "begin_create"
  ELSE pc' = "failed" /\ tries' = tries

Raise(error) ==
  RetryOrFail(error) /\ faulted' = (faulted \/ error = "error")

(* The errors the world has for a statement now: a conflict costs one      *)
(* commit of somebody else.                                                *)
Errors == {"error"} \cup IF moved THEN {"conflict"} ELSE {}
Spend(error) == moved' = (moved /\ error # "conflict")

(* A statement inside a transaction: its error is raised after ROLLBACK.   *)
Statement(result, next) ==
  /\ \/ tx' = result /\ pc' = next /\ UNCHANGED <<raised, moved>>
     \/ \E error \in Errors :
          /\ pc' = "rollback"
          /\ raised' = IF pc \in Creating THEN error ELSE "error"
          /\ Spend(error)
          /\ UNCHANGED tx
  /\ UNCHANGED <<tbl, rivals, con, snap, tries, faulted>> /\ Run

(* BEGIN; inside a transaction it raises a TransactionException, which     *)
(* _guarded takes for a conflict.                                          *)
Begin(next) ==
  /\ \/ /\ con = "idle"
        /\ con' = "open" /\ snap' = tbl /\ tx' = tbl /\ moved' = FALSE
        /\ pc' = next /\ UNCHANGED <<tries, faulted>>
     \/ \E error \in IF con = "open" THEN {"conflict"} ELSE Errors :
          Raise(error) /\ Spend(error) /\ UNCHANGED session
  /\ UNCHANGED <<tbl, rivals, raised>> /\ Run

Commit_InsideTry(next) ==      \* fault: COMMIT is inside the try block
  /\ \/ /\ tx = snap \/ tbl = snap
        /\ tbl' = IF tx = snap THEN tbl ELSE tx
        /\ con' = "idle" /\ pc' = next /\ UNCHANGED <<raised, moved>>
     \/ \E error \in Errors :
          /\ con' = "idle" /\ pc' = "rollback"
          /\ raised' = IF pc \in Creating THEN error ELSE "error"
          /\ Spend(error) /\ UNCHANGED tbl
  /\ UNCHANGED <<rivals, snap, tx, tries, faulted>> /\ Run

(* COMMIT, outside the try block: whatever it answers, the transaction has *)
(* ended.  Its reply may be lost after it was applied (CommitReplyLost).   *)
Commit(next) ==
  /\ con' = "idle"
  /\ \/ /\ tx = snap \/ tbl = snap
        /\ tbl' = IF tx = snap THEN tbl ELSE tx
        /\ pc' \in {next, "lost"} /\ UNCHANGED <<tries, faulted, moved>>
     \/ \E error \in Errors : Raise(error) /\ Spend(error) /\ UNCHANGED tbl
  /\ UNCHANGED <<rivals, snap, tx, raised>> /\ Run

CommitReplyLost ==
  /\ pc = "lost" /\ Raise("error")
  /\ UNCHANGED <<lake, session, raised>> /\ Run

(* transaction(): the except clause.  A failed ROLLBACK is only logged.    *)
Rollback ==
  /\ pc = "rollback"
  /\ \/ con' = "idle" /\ Raise(raised)
     \/ /\ con' = con /\ faulted' = TRUE
        /\ RetryOrFail(raised)
  /\ UNCHANGED <<lake, snap, tx, raised>> /\ Run

-----------------------------------------------------------------------------
(* ensure_table: ensure_schema, then _create_if_absent, each retried.      *)

EnsureSchema ==
  /\ pc = "schema"
  /\ \/ pc' = "begin_create" /\ tries' = 1 /\ UNCHANGED <<moved, faulted>>
     \/ \E error \in Errors : Raise(error) /\ Spend(error)
  /\ UNCHANGED <<tbl, rivals, session, raised>> /\ Run

BeginCreate == pc = "begin_create" /\ Begin("exists")

TableExists ==
  /\ pc = "exists"
  /\ Statement(tx, IF Exists(tx) THEN "commit_create" ELSE "create")

CreateTable_Autocommit ==      \* fault: CREATE TABLE outside the transaction
  /\ pc = "create"
  /\ tbl' = [NoTable EXCEPT !.made = "node"] /\ tx' = tbl' /\ snap' = tbl'
  /\ pc' = "layout"
  /\ UNCHANGED <<rivals, moved, con, tries, faulted, raised>> /\ Run

CreateTable ==
  /\ pc = "create"
  /\ Statement([NoTable EXCEPT !.made = "node"], "layout")

ApplyLayout ==
  /\ pc = "layout"
  /\ Statement([tx EXCEPT !.layout = TRUE], "commit_create")

CommitCreate ==
  /\ pc = "commit_create"
  /\ Commit(IF mode = "replace" THEN "begin" ELSE "check")

-----------------------------------------------------------------------------
(* _check_shape and ensure_unique_key; append and _upsert of no rows open  *)
(* no transaction.                                                         *)

AfterChecks == IF data = {} THEN "report" ELSE "begin"
Verdict(holds, next) ==
  /\ pc' = IF holds THEN next ELSE "failed"
  /\ UNCHANGED <<lake, session, tries, raised, faulted>> /\ Run

CheckShape ==
  /\ pc = "check"
  /\ \E answered \in BOOLEAN :
       Verdict(answered /\ Exists(tbl) /\ tbl.shape = "declared",
               IF mode = "upsert" THEN "unique" ELSE AfterChecks)

EnsureUniqueKey == pc = "unique" /\ Verdict(UniqueKeys(data), AfterChecks)

-----------------------------------------------------------------------------
(* load, append, _upsert.                                                  *)

BeginWrite ==
  pc = "begin" /\ Begin(IF mode = "replace" THEN "delete" ELSE "put")

DeleteAll_Commits ==           \* fault: DELETE commits on its own
  /\ pc = "delete"
  /\ tbl' = [tbl EXCEPT !.rows = NoRows] /\ tx' = tbl' /\ snap' = tbl'
  /\ pc' = IF data = {} THEN "commit" ELSE "put"
  /\ UNCHANGED <<rivals, moved, con, tries, faulted, raised>> /\ Run

DeleteAll ==
  /\ pc = "delete"
  /\ Statement([tx EXCEPT !.rows = NoRows],
               IF data = {} THEN "commit" ELSE "put")

PutRows ==
  /\ pc = "put" /\ Exists(tx)
  /\ Statement([tx EXCEPT !.rows = Put(mode, @, data)], "commit")

CommitWrite == pc = "commit" /\ Commit("report")

Report ==
  /\ pc = "report" /\ pc' = "ok"
  /\ UNCHANGED <<lake, session, tries, raised, faulted>> /\ Run

-----------------------------------------------------------------------------
(* The container dies; the catalog discards its transaction.               *)
Crash ==
  /\ pc \in Steps
  /\ pc' = "failed" /\ con' = "idle" /\ faulted' = TRUE
  /\ UNCHANGED <<lake, snap, tx, tries, raised>> /\ Run

(* Another session commits: to another table, or it creates this one, or   *)
(* changes its columns.                                                    *)
RivalCommits ==
  /\ rivals < MaxRivals
  /\ rivals' = rivals + 1 /\ moved' = TRUE
  /\ tbl' \in {tbl, IF Exists(tbl) THEN [tbl EXCEPT !.shape = "drifted"]
                    ELSE [NoTable EXCEPT !.made = "rival"]}
  /\ UNCHANGED <<session, pc, tries, raised, faulted>> /\ Run

Program ==
  \/ EnsureSchema \/ BeginCreate \/ TableExists \/ CreateTable
  \/ ApplyLayout \/ CommitCreate \/ CheckShape \/ EnsureUniqueKey
  \/ BeginWrite \/ DeleteAll \/ PutRows \/ CommitWrite \/ CommitReplyLost
  \/ Rollback \/ Report

Next == BeginRun \/ Retry \/ Program \/ Crash \/ RivalCommits

Spec == Init /\ [][Next]_vars
-----------------------------------------------------------------------------
Phase == IF pc \in Steps THEN "running" ELSE pc

Contract == INSTANCE TargetWrite WITH rows <- tbl.rows, phase <- Phase

(* load, append and upsert keep the promise of TargetWrite, whatever       *)
(* statement, COMMIT or ROLLBACK fails and whoever commits in between.     *)
KeepsContract == Contract!Spec

(* transaction(): a session is inside a transaction at the steps of its    *)
(* with block and its except clause, and nowhere else unless something     *)
(* other than a conflict failed: a COMMIT that loses a race has ended the  *)
(* transaction, there is nothing to roll back and the retry can BEGIN.     *)
TransactionEnds ==
  /\ pc \in InTransaction => con = "open"
  /\ con = "open" /\ pc \notin InTransaction => faulted

(* Parallel nodes race on creation and the loser retries: an attempt whose *)
(* only failures are conflicts loses its creation to five of them, never   *)
(* to fewer (_retrying around ensure_schema and _create_if_absent).        *)
RaceLosersSucceed ==
  [][(pc \in Creating \/ (pc = "rollback" /\ raised = "conflict"))
       /\ pc' = "failed" /\ ~faulted' => rivals >= ConflictAttempts]_vars

(* The partitioning and sorting of a table are committed with it or never: *)
(* no failure leaves a table this program made without them, and a table   *)
(* that somebody else made, even during the race, does not get them.       *)
LayoutComesWithTheTable == tbl.layout <=> tbl.made = "node"
=============================================================================
