------------------------- MODULE PostgresWriteProofs -------------------------
(* PostgresWrite implements TargetWrite, for every set of keys and values, *)
(* every mode, any number of attempts and runs, and rows inserted in pages *)
(* of any size and order.  The invariant says what the open transaction    *)
(* sees of the attempt's rows at each statement; the commit is then the    *)
(* Apply of TargetWrite and every other step leaves the visible rows alone.*)
EXTENDS PostgresWrite, RowsTheorems

BeforeWrite == {"schema", "create", "index", "commit_ensure", "check", "unique"}

(* Which transaction is open at which statement.                           *)
SessionInv ==
  /\ pc \in {"idle", "ok", "failed", "schema", "check", "unique", "report"}
       => session = "none"
  /\ pc = "create" => session = "begun"
  /\ pc \in {"index", "commit_ensure", "commit"} => session = "working"
  /\ pc = "truncate" => session \in {"none", "begun"}
  /\ pc = "insert" => session # "aborted"
  /\ pc = "rollback" => session = "aborted"

(* The rows the open transaction sees: the attempt's base and the pages    *)
(* inserted so far.                                                        *)
RowsInv ==
  /\ pc \in Steps \ {"schema", "create", "rollback"} => View.exists
  /\ pc \in BeforeWrite => View.rows = base
  /\ pc \in BeforeWrite \cup {"truncate"} => left = data
  /\ pc = "insert" => View.rows = Put(mode, Kept(mode, base), data \ left)
  /\ pc = "insert" /\ session \in {"none", "begun"} =>
       left = data /\ mode # "replace"
  /\ pc = "truncate" => mode = "replace"
  /\ pc = "check" => mode # "replace"
  /\ pc = "unique" => mode = "upsert"
  /\ pc = "commit" => View.rows = Effect(mode, base, data)

(* The rows everybody else sees.                                           *)
CommittedInv ==
  /\ pc \in BeforeWrite \cup {"truncate", "insert", "commit", "idle"}
       => tbl.rows = base
  /\ pc \in {"report", "ok"} => tbl.rows = Effect(mode, base, data)
  /\ tbl.rows \in {base, Effect(mode, base, data)}

(* An upsert of rows that repeat a key does not get past "unique".         *)
UniqueInv ==
  mode = "upsert" /\ ~UniqueKeys(data) =>
    /\ pc \notin {"insert", "commit", "report", "ok"}
    /\ tbl.rows = base

PgInv == /\ TypeOK /\ left \subseteq data
         /\ SessionInv /\ RowsInv /\ CommittedInv /\ UniqueInv

-----------------------------------------------------------------------------
(* The table the next statement works on is a table.                       *)
LEMMA ViewType == TypeOK => View \in Table
BY DEF TypeOK, View

(* The table ensure_table has not created yet is a table without rows.     *)
LEMMA NoTableType == NoTable \in Table
BY NoRowsType DEF NoTable, Table

(* Before the first run there is no transaction and nothing to insert.     *)
LEMMA PgInit == Init => PgInv
<1> SUFFICES ASSUME Init PROVE PgInv
  OBVIOUS
<1>1. tbl \in Table
  <2>1. CASE tbl = NoTable
    BY <2>1, NoTableType
  <2>2. CASE tbl \in [exists : {TRUE}, keyed : BOOLEAN, indexed : BOOLEAN,
                      shape : {"declared", "drifted"}, rows : SeedRows]
    BY <2>2, PostgresAssumption DEF Table
  <2> QED BY <2>1, <2>2 DEF Init
<1>2. tbl.rows \in Bag
  BY <1>1 DEF Table
<1>3. TypeOK
  BY <1>1, <1>2 DEF Init, TypeOK, Modes
<1> QED BY <1>3 DEF Init, PgInv, SessionInv, RowsInv, CommittedInv, UniqueInv,
                    BeforeWrite, Steps, EnsureSteps, WriteSteps

(* Every statement of the adapter, every failure, retry and outside change *)
(* keeps the invariant.                                                    *)
LEMMA PgStep == PgInv /\ [Next]_vars => PgInv'
<1> SUFFICES ASSUME PgInv, [Next]_vars PROVE PgInv'
  OBVIOUS
<1>0. View \in Table /\ View.rows \in Bag
  BY ViewType DEF PgInv, Table
<1>00. Put(mode, Kept(mode, base), {}) = Kept(mode, base)
  BY PutNothing, NoRowsType DEF PgInv, TypeOK, Kept
<1> USE <1>0
    DEF PgInv, TypeOK, SessionInv, RowsInv, CommittedInv, UniqueInv, BeforeWrite,
        View, Table, Steps, EnsureSteps, WriteSteps, Goto, Attempt, history
<1>1. CASE BeginRun
  BY <1>1, PostgresAssumption DEF BeginRun, StartAttempt, NoStatement, history
<1>2. CASE Retry
  BY <1>2 DEF Retry, StartAttempt, NoStatement, history
<1>3. CASE EnsureSchema
  BY <1>3 DEF EnsureSchema, Begin
<1>4. CASE CreateTable
  <2> DEFINE t == IF View.exists THEN View
                  ELSE [NoTable EXCEPT !.exists = TRUE, !.keyed = (mode = "upsert")]
  <2>1. t \in Table /\ t.rows = View.rows /\ t.exists
    BY NoTableType DEF NoTable
  <2> HIDE DEF t
  <2>2. /\ tbl' = tbl /\ work' = t /\ session' = "working"
        /\ pc' \in {"index", "commit_ensure"}
    BY <1>4 DEF CreateTable, Exec, t
  <2> QED BY <1>4, <2>1, <2>2 DEF CreateTable
<1>5. CASE CreateIndex
  BY <1>5 DEF CreateIndex, Exec
<1>6. CASE CommitEnsure
  BY <1>6 DEF CommitEnsure, Commit
<1>7. CASE CheckShape
  <2>1. mode = "append" \/ mode = "upsert"
    BY <1>7 DEF CheckShape, Modes
  <2>2. base = Put(mode, Kept(mode, base), data \ left)
    BY <1>7, <2>1, <1>00 DEF CheckShape, Kept
  <2>3. /\ UNCHANGED <<tbl, session, work, left, mode, data, base, origin, stale,
                        attempts, runs>>
        /\ pc = "check" /\ pc' \in {"unique", "insert", "failed"}
        /\ pc' = "unique" => mode = "upsert"
        /\ pc' = "insert" => mode = "append"
        /\ pc' # "failed" => tbl.exists
    BY <1>7, <2>1 DEF CheckShape, NoStatement
  <2> QED BY <2>1, <2>2, <2>3
<1>8. CASE EnsureUniqueKey
  BY <1>8, <1>00 DEF EnsureUniqueKey, NoStatement, Kept
<1>9. CASE BeginWrite
  BY <1>9 DEF BeginWrite, Begin
<1>10. CASE NothingToWrite
  BY <1>10, <1>00 DEF NothingToWrite, NoStatement, Effect, Kept
<1>11. CASE Truncate
  <2> DEFINE t == [View EXCEPT !.rows = NoRows]
  <2>1. t \in Table /\ t.rows = NoRows /\ t.exists = View.exists
    BY NoRowsType
  <2> HIDE DEF t
  <2>2. /\ tbl' = tbl /\ work' = t /\ session' = "working" /\ left' = left
        /\ pc' = IF data = {} THEN "commit" ELSE "insert"
    BY <1>11 DEF Truncate, Exec, t
  <2>3. NoRows = Put(mode, Kept(mode, base), {})
    BY <1>11, <1>00 DEF Truncate, Kept
  <2> QED BY <1>11, <2>1, <2>2, <2>3 DEF Truncate, Effect
<1>12. CASE InsertPage
  <2>1. PICK page \in SUBSET left \ {{}} :
          /\ Exec([View EXCEPT !.rows = Put(mode, @, page)])
          /\ left' = left \ page
          /\ pc' = IF left' = {} THEN "commit" ELSE "insert"
    BY <1>12 DEF InsertPage
  <2> DEFINE t == [View EXCEPT !.rows = Put(mode, @, page)]
             D == data \ left
  <2>2. t \in Table /\ t.rows = Put(mode, View.rows, page) /\ t.exists
    <3>1. Put(mode, View.rows, page) \in Bag
      BY PutType
    <3>2. View.exists
      BY <1>12 DEF InsertPage
    <3> HIDE DEF View
    <3> QED BY <3>1, <3>2
  <2>3. D \cup page = data \ left' /\ D \cap page = {}
    BY <2>1
  <2>4. View.rows = Put(mode, Kept(mode, base), D)
    BY <1>12 DEF InsertPage
  <2>5. Kept(mode, base) \in Bag
    BY NoRowsType DEF Kept
  <2>6. t.rows = Put(mode, Kept(mode, base), data \ left')
    <3>1. mode = "upsert" => UniqueKeys(data)
      BY <1>12 DEF InsertPage
    <3>2. mode = "upsert" => UniqueKeys(D \cup page)
      BY <3>1, <2>1 DEF UniqueKeys
    <3>3. D \in SUBSET Row /\ page \in SUBSET Row
      BY <2>1
    <3>4. Put(mode, Put(mode, Kept(mode, base), D), page)
            = Put(mode, Kept(mode, base), D \cup page)
      BY <2>3, <2>5, <3>2, <3>3, PutPages
    <3> HIDE DEF View, t, D
    <3> QED BY <2>2, <2>3, <2>4, <3>4
  <2>7. left' = {} => data \ left' = data
    OBVIOUS
  <2>8. tbl' = tbl /\ work' = t /\ session' = "working"
    BY <2>1 DEF Exec
  <2> HIDE DEF t, D
  <2>9. /\ pc = "insert" /\ left' \subseteq left
        /\ pc' = IF left' = {} THEN "commit" ELSE "insert"
        /\ UNCHANGED <<mode, data, base, origin, stale, attempts, runs>>
    BY <1>12, <2>1 DEF InsertPage
  <2>10. TypeOK'
    BY <2>2, <2>8, <2>9
  <2>11. left' \subseteq data' /\ SessionInv' /\ CommittedInv' /\ UniqueInv'
    BY <2>8, <2>9
  <2>12. CASE left' = {}
    BY <2>2, <2>6, <2>7, <2>8, <2>9, <2>10, <2>11, <2>12 DEF Effect
  <2>13. CASE left' # {}
    BY <2>2, <2>6, <2>8, <2>9, <2>10, <2>11, <2>13
  <2> QED BY <2>12, <2>13
<1>13. CASE ConstraintFails
  BY <1>13 DEF ConstraintFails
<1>14. CASE CommitWrite
  BY <1>14 DEF CommitWrite, Commit
<1>15. CASE Report
  BY <1>15 DEF Report, NoStatement
<1>16. CASE StatementFails
  BY <1>16 DEF StatementFails, NoStatement
<1>17. CASE TransactionFails
  BY <1>17 DEF TransactionFails
<1>18. CASE CommitReplyLost
  BY <1>18 DEF CommitReplyLost
<1>19. CASE Rollback
  BY <1>19 DEF Rollback, Discard
<1>20. CASE Crash
  BY <1>20 DEF Crash, Discard
<1>21. CASE AlterTable
  BY <1>21 DEF AlterTable
<1>22. CASE UNCHANGED vars
  BY <1>22 DEF vars
<1> QED BY <1>1, <1>2, <1>3, <1>4, <1>5, <1>6, <1>7, <1>8, <1>9, <1>10, <1>11, <1>12, <1>13, <1>14, <1>15, <1>16, <1>17, <1>18, <1>19, <1>20, <1>21, <1>22
        DEF Next, Program, Environment

(* At every statement the open transaction holds exactly the rows that the *)
(* pages inserted so far add to those _transaction started from.           *)
THEOREM PgInvariant == Spec => []PgInv
BY PgInit, PgStep, PTL DEF Spec

(* The state keeps its types, and a transaction that did nothing yet or    *)
(* was discarded sees the committed table.                                 *)
THEOREM TypeCorrect == Spec => []TypeOK
<1>1. PgInv => TypeOK
  BY DEF PgInv
<1> QED BY <1>1, PgInvariant, PTL

-----------------------------------------------------------------------------
(* The contract speaks of the same rows and the same effect.               *)
LEMMA SameRows ==
  /\ Contract!Row = Row /\ Contract!Bag = Bag /\ Contract!Modes = Modes
  /\ \A S : Contract!UniqueKeys(S) <=> UniqueKeys(S)
  /\ \A m, b, S : Contract!Effect(m, b, S) = Effect(m, b, S)
<1>1. Contract!Row = Row
  BY DEF Row, Contract!Row
<1>2. Contract!Bag = Bag
  BY <1>1 DEF Bag, Contract!Bag
<1>3. ASSUME NEW S PROVE Contract!UniqueKeys(S) <=> UniqueKeys(S)
  BY DEF UniqueKeys, Contract!UniqueKeys
<1>4. ASSUME NEW m, NEW b, NEW S
      PROVE  Contract!Effect(m, b, S) = Effect(m, b, S)
  BY <1>1 DEF Effect, Put, Merge, Insert, Kept, NoRows, KeysOf,
         Contract!Effect, Contract!Put, Contract!Merge, Contract!Insert,
         Contract!Kept, Contract!NoRows, Contract!KeysOf
<1> QED BY <1>1, <1>2, <1>3, <1>4 DEF Modes, Contract!Modes

(* The table before the first run is a table of the contract.              *)
LEMMA ContractInit == Init => Contract!Init
<1> SUFFICES ASSUME Init PROVE Contract!Init
  OBVIOUS
<1>1. tbl.rows \in Contract!Bag
  BY PgInit, SameRows DEF PgInv, TypeOK, Table
<1>2. Phase = "idle"
  BY DEF Init, Phase, Steps, EnsureSteps, WriteSteps
<1>3. mode \in Contract!Modes
  BY SameRows DEF Init, Modes
<1> QED BY <1>1, <1>2, <1>3, SameRows DEF Init, Contract!Init

(* The commit of the write is Apply, the report of run_node is Succeed or  *)
(* Fail, and no other step shows outside the open transaction.             *)
LEMMA ContractStep ==
  PgInv /\ [Next]_vars => [Contract!Next]_(Contract!vars)
<1> SUFFICES ASSUME PgInv, [Next]_vars
             PROVE  Contract!Next \/ UNCHANGED Contract!vars
  OBVIOUS
<1> USE DEF PgInv, TypeOK, SessionInv, RowsInv, CommittedInv, UniqueInv, View,
        BeforeWrite, Phase, Steps, EnsureSteps, WriteSteps, Goto, Attempt, history
<1> USE SameRows DEF Contract!Next, Contract!vars
<1>1. CASE BeginRun
  BY <1>1, PostgresAssumption DEF BeginRun, StartAttempt, NoStatement,
                                  Contract!BeginRun
<1>2. CASE Retry
  BY <1>2 DEF Retry, StartAttempt, NoStatement, Contract!Retry
<1>3. CASE EnsureSchema
  BY <1>3 DEF EnsureSchema, Begin
<1>4. CASE CreateTable
  BY <1>4 DEF CreateTable, Exec
<1>5. CASE CreateIndex
  BY <1>5 DEF CreateIndex, Exec
<1>6. CASE CommitEnsure
  BY <1>6 DEF CommitEnsure, Commit
<1>7. CASE CheckShape
  BY <1>7 DEF CheckShape, NoStatement, Contract!Fail
<1>8. CASE EnsureUniqueKey
  BY <1>8 DEF EnsureUniqueKey, NoStatement, Contract!Fail
<1>9. CASE BeginWrite
  BY <1>9 DEF BeginWrite, Begin
<1>10. CASE NothingToWrite
  BY <1>10 DEF NothingToWrite, NoStatement
<1>11. CASE Truncate
  BY <1>11 DEF Truncate, Exec
<1>12. CASE InsertPage
  BY <1>12 DEF InsertPage, Exec
<1>13. CASE ConstraintFails
  BY <1>13 DEF ConstraintFails
<1>14. CASE CommitWrite
  BY <1>14 DEF CommitWrite, Commit, Contract!Apply
<1>15. CASE Report
  BY <1>15 DEF Report, NoStatement, Contract!Succeed
<1>16. CASE StatementFails
  BY <1>16 DEF StatementFails, NoStatement, Contract!Fail
<1>17. CASE TransactionFails
  BY <1>17 DEF TransactionFails
<1>18. CASE CommitReplyLost
  BY <1>18 DEF CommitReplyLost, Contract!Apply
<1>19. CASE Rollback
  BY <1>19 DEF Rollback, Discard, Contract!Fail
<1>20. CASE Crash
  BY <1>20 DEF Crash, Discard, Contract!Fail
<1>21. CASE AlterTable
  BY <1>21 DEF AlterTable
<1>22. CASE UNCHANGED vars
  BY <1>22 DEF vars
<1> QED BY <1>1, <1>2, <1>3, <1>4, <1>5, <1>6, <1>7, <1>8, <1>9, <1>10, <1>11, <1>12, <1>13, <1>14, <1>15, <1>16, <1>17, <1>18, <1>19, <1>20, <1>21, <1>22
        DEF Next, Program, Environment

(* PostgresAdapter under run_node implements TargetWrite.                  *)
THEOREM Refinement == Spec => KeepsContract
<1>1. Init => Contract!Init
  BY ContractInit
<1>2. PgInv /\ [Next]_vars => [Contract!Next]_(Contract!vars)
  BY ContractStep
<1> QED BY <1>1, <1>2, PgInvariant, PTL DEF Spec, KeepsContract, Contract!Spec

-----------------------------------------------------------------------------
(* What TargetWriteProofs shows of the contract therefore holds here.      *)
Proved == INSTANCE TargetWriteProofs WITH rows <- tbl.rows, phase <- Phase

(* The contract PostgresWrite refines is the one TargetWriteProofs is      *)
(* about: two instances of one module, with the same substitution.         *)
LEMMA SameContract ==
  /\ Contract!Init => Proved!Init
  /\ [Contract!Next]_(Contract!vars) => [Proved!Next]_(Proved!vars)
  /\ Contract!Idempotent <=> Proved!Idempotent
  /\ \A S : Proved!UniqueKeys(S) <=> Contract!UniqueKeys(S)
  /\ \A m, b, S : Proved!Effect(m, b, S) = Contract!Effect(m, b, S)
<1>1. /\ Contract!Row = Proved!Row /\ Contract!Bag = Proved!Bag
      /\ Contract!Modes = Proved!Modes
  BY DEF Contract!Row, Proved!Row, Contract!Bag, Proved!Bag,
         Contract!Modes, Proved!Modes
<1>2. ASSUME NEW S PROVE Proved!UniqueKeys(S) <=> Contract!UniqueKeys(S)
  BY DEF Proved!UniqueKeys, Contract!UniqueKeys
<1>3. ASSUME NEW m, NEW b, NEW S
      PROVE  Proved!Effect(m, b, S) = Contract!Effect(m, b, S)
  BY <1>1 DEF Proved!Effect, Proved!Put, Proved!Merge, Proved!Insert,
         Proved!Kept, Proved!NoRows, Proved!KeysOf,
         Contract!Effect, Contract!Put, Contract!Merge, Contract!Insert,
         Contract!Kept, Contract!NoRows, Contract!KeysOf
<1>4. Contract!Init => Proved!Init
  BY <1>1 DEF Contract!Init, Proved!Init
<1>5. [Contract!Next]_(Contract!vars) => [Proved!Next]_(Proved!vars)
  BY <1>1, <1>2, <1>3
     DEF Contract!Next, Proved!Next, Contract!vars, Proved!vars,
         Contract!BeginRun, Proved!BeginRun, Contract!Retry, Proved!Retry,
         Contract!Apply, Proved!Apply, Contract!Succeed, Proved!Succeed,
         Contract!Fail, Proved!Fail
<1>6. Contract!Idempotent <=> Proved!Idempotent
  BY DEF Contract!Idempotent, Proved!Idempotent
<1> QED BY <1>2, <1>3, <1>4, <1>5, <1>6

(* Readers see all of an attempt's rows or none.                           *)
THEOREM AllOrNoneHolds == Spec => []AllOrNone
<1>1. PgInv => AllOrNone
  BY SameRows DEF PgInv, CommittedInv, AllOrNone, Contract!AllOrNone
<1> QED BY <1>1, PgInvariant, PTL

(* A replace or upsert run ends with the rows of one attempt, also when    *)
(* the COMMIT of an earlier attempt was applied and reported failed.       *)
THEOREM RetrySafeHolds == Spec => []RetrySafe
<1>1. Proved!RetrySafe => RetrySafe
  BY SameContract DEF Proved!RetrySafe, RetrySafe, Contract!RetrySafe
<1> QED BY <1>1, SameContract, Refinement, Proved!RetrySafeHolds, PTL
        DEF KeepsContract, Contract!Spec, Proved!Spec

(* Rows that repeat a key are never written.                               *)
THEOREM DuplicateKeysRefused == Spec => []DuplicateKeyWritesNothing
<1>1. Proved!DuplicateKeyWritesNothing => DuplicateKeyWritesNothing
  BY SameContract DEF Proved!DuplicateKeyWritesNothing,
       DuplicateKeyWritesNothing, Contract!DuplicateKeyWritesNothing
<1> QED BY <1>1, SameContract, Refinement, Proved!DuplicateKeysRefused, PTL
        DEF KeepsContract, Contract!Spec, Proved!Spec

-----------------------------------------------------------------------------
(* The shape and the key of the table, which the contract does not speak   *)
(* of.  A drifted table stays drifted through ensure_table, so _check_shape *)
(* sees what the attempt began on.                                         *)
DriftInv ==
  /\ tbl.shape = "drifted" => tbl.exists
  /\ stale => tbl.shape = "drifted"
  /\ tbl.shape = "drifted" => View.exists /\ View.shape = "drifted"
  /\ View.shape = "drifted" => View.exists
  /\ stale /\ mode # "replace" =>
       /\ pc \notin {"unique", "truncate", "insert", "commit", "report", "ok"}
       /\ tbl.rows = base

(* ensure_table, the shape check and the write keep a drifted table, or    *)
(* stop at it.                                                             *)
LEMMA DriftStep == PgInv /\ DriftInv /\ [Next]_vars => DriftInv'
<1> SUFFICES ASSUME PgInv, DriftInv, [Next]_vars PROVE DriftInv'
  OBVIOUS
<1> USE DEF DriftInv, PgInv, TypeOK, SessionInv, RowsInv, CommittedInv, BeforeWrite,
            View, Table, Steps, EnsureSteps, WriteSteps, Goto, Attempt, history
<1>1. CASE BeginRun
  BY <1>1 DEF BeginRun, StartAttempt, NoStatement
<1>2. CASE Retry
  BY <1>2 DEF Retry, StartAttempt, NoStatement
<1>3. CASE EnsureSchema
  BY <1>3 DEF EnsureSchema, Begin
<1>4. CASE CreateTable
  BY <1>4 DEF CreateTable, Exec, NoTable
<1>5. CASE CreateIndex
  BY <1>5 DEF CreateIndex, Exec
<1>6. CASE CommitEnsure
  BY <1>6 DEF CommitEnsure, Commit
<1>7. CASE CheckShape
  BY <1>7 DEF CheckShape, NoStatement
<1>8. CASE EnsureUniqueKey
  BY <1>8 DEF EnsureUniqueKey, NoStatement
<1>9. CASE BeginWrite
  BY <1>9 DEF BeginWrite, Begin
<1>10. CASE NothingToWrite
  BY <1>10 DEF NothingToWrite, NoStatement
<1>11. CASE Truncate
  BY <1>11 DEF Truncate, Exec
<1>12. CASE InsertPage
  BY <1>12 DEF InsertPage, Exec
<1>13. CASE ConstraintFails
  BY <1>13 DEF ConstraintFails
<1>14. CASE CommitWrite
  BY <1>14 DEF CommitWrite, Commit
<1>15. CASE Report
  BY <1>15 DEF Report, NoStatement
<1>16. CASE StatementFails
  BY <1>16 DEF StatementFails, NoStatement
<1>17. CASE TransactionFails
  BY <1>17 DEF TransactionFails
<1>18. CASE CommitReplyLost
  BY <1>18 DEF CommitReplyLost
<1>19. CASE Rollback
  BY <1>19 DEF Rollback, Discard
<1>20. CASE Crash
  BY <1>20 DEF Crash, Discard
<1>21. CASE AlterTable
  BY <1>21 DEF AlterTable
<1>22. CASE UNCHANGED vars
  BY <1>22 DEF vars
<1> QED BY <1>1, <1>2, <1>3, <1>4, <1>5, <1>6, <1>7, <1>8, <1>9, <1>10, <1>11, <1>12,
           <1>13, <1>14, <1>15, <1>16, <1>17, <1>18, <1>19, <1>20, <1>21, <1>22
        DEF Next, Program, Environment

(* An append or upsert that starts on a drifted table leaves its rows.     *)
THEOREM DriftStopsWriteHolds == Spec => []DriftStopsWrite
<1>1. Init => DriftInv
  <2> SUFFICES ASSUME Init PROVE DriftInv
    OBVIOUS
  <2>1. tbl.shape = "drifted" => tbl.exists
    <3>1. CASE tbl = NoTable
      BY <3>1 DEF NoTable
    <3>2. CASE tbl \in [exists : {TRUE}, keyed : BOOLEAN, indexed : BOOLEAN,
                        shape : {"declared", "drifted"}, rows : SeedRows]
      BY <3>2
    <3> QED BY <3>1, <3>2 DEF Init
  <2> QED BY <2>1 DEF Init, DriftInv, View
<1>2. DriftInv => DriftStopsWrite
  BY DEF DriftInv, DriftStopsWrite
<1> QED BY <1>1, <1>2, DriftStep, PgInvariant, PTL DEF Spec

(* A table without its key was never written by this run's upsert: only    *)
(* ensure_table gives a table its key, and it does so before any insert.   *)
KeyInv ==
  mode = "upsert" =>
    /\ ~tbl.keyed => tbl.rows = origin /\ base = origin
    /\ tbl.keyed => View.keyed
    /\ pc = "commit" => View.keyed

(* ON CONFLICT on a table without the key aborts the transaction.          *)
LEMMA KeyStep == PgInv /\ KeyInv /\ [Next]_vars => KeyInv'
<1> SUFFICES ASSUME PgInv, KeyInv, [Next]_vars PROVE KeyInv'
  OBVIOUS
<1> USE DEF KeyInv, PgInv, TypeOK, SessionInv, RowsInv, CommittedInv, BeforeWrite,
            View, Table, Steps, EnsureSteps, WriteSteps, Goto, Attempt, history
<1>1. CASE BeginRun
  BY <1>1 DEF BeginRun, StartAttempt, NoStatement
<1>2. CASE Retry
  BY <1>2 DEF Retry, StartAttempt, NoStatement
<1>3. CASE EnsureSchema
  BY <1>3 DEF EnsureSchema, Begin
<1>4. CASE CreateTable
  BY <1>4 DEF CreateTable, Exec, NoTable
<1>5. CASE CreateIndex
  BY <1>5 DEF CreateIndex, Exec
<1>6. CASE CommitEnsure
  BY <1>6 DEF CommitEnsure, Commit
<1>7. CASE CheckShape
  BY <1>7 DEF CheckShape, NoStatement
<1>8. CASE EnsureUniqueKey
  BY <1>8 DEF EnsureUniqueKey, NoStatement
<1>9. CASE BeginWrite
  BY <1>9 DEF BeginWrite, Begin
<1>10. CASE NothingToWrite
  BY <1>10 DEF NothingToWrite, NoStatement
<1>11. CASE Truncate
  BY <1>11 DEF Truncate, Exec
<1>12. CASE InsertPage
  BY <1>12 DEF InsertPage, Exec
<1>13. CASE ConstraintFails
  BY <1>13 DEF ConstraintFails
<1>14. CASE CommitWrite
  BY <1>14 DEF CommitWrite, Commit
<1>15. CASE Report
  BY <1>15 DEF Report, NoStatement
<1>16. CASE StatementFails
  BY <1>16 DEF StatementFails, NoStatement
<1>17. CASE TransactionFails
  BY <1>17 DEF TransactionFails
<1>18. CASE CommitReplyLost
  BY <1>18 DEF CommitReplyLost
<1>19. CASE Rollback
  BY <1>19 DEF Rollback, Discard
<1>20. CASE Crash
  BY <1>20 DEF Crash, Discard
<1>21. CASE AlterTable
  BY <1>21 DEF AlterTable
<1>22. CASE UNCHANGED vars
  BY <1>22 DEF vars
<1> QED BY <1>1, <1>2, <1>3, <1>4, <1>5, <1>6, <1>7, <1>8, <1>9, <1>10, <1>11, <1>12,
           <1>13, <1>14, <1>15, <1>16, <1>17, <1>18, <1>19, <1>20, <1>21, <1>22
        DEF Next, Program, Environment

(* An upsert never leaves two rows of one key and does not touch a table   *)
(* that has no key.                                                        *)
THEOREM UpsertKeepsKeysUniqueHolds == Spec => []UpsertKeepsKeysUnique
<1>1. Init => KeyInv
  BY DEF Init, KeyInv, View
<1>2. \A b : Proved!KeyedOnce(b) <=> KeyedOnce(b)
  BY DEF Proved!KeyedOnce, KeyedOnce, Proved!Row, Row
<1>3. KeyInv /\ Proved!KeysStayUnique => UpsertKeepsKeysUnique
  BY <1>2 DEF KeyInv, Proved!KeysStayUnique, UpsertKeepsKeysUnique
<1>4. Spec => []Proved!KeysStayUnique
  BY SameContract, Refinement, Proved!KeysStayUniqueHolds, PTL
     DEF KeepsContract, Contract!Spec, Proved!Spec
<1> QED BY <1>1, <1>3, <1>4, KeyStep, PgInvariant, PTL DEF Spec

(* Each earlier attempt of an append run was applied once or not at all.   *)
CopiesInv ==
  mode = "append" =>
    /\ attempts = 0 => pc = "idle" /\ base = origin
    /\ pc = "idle" => attempts = 0
    /\ attempts # 0 => \E n \in 0 .. attempts - 1 : base = Copies(origin, data, n)

(* What an append leaves is its base or one more copy.                     *)
LEMMA OneMoreCopy ==
  ASSUME PgInv, CopiesInv, mode = "append", attempts # 0
  PROVE  \E n \in 0 .. attempts :
           /\ tbl.rows = Copies(origin, data, n)
           /\ pc = "ok" => n >= 1
<1>1. PICK n \in 0 .. attempts - 1 : base = Copies(origin, data, n)
  BY DEF CopiesInv
<1>2. attempts \in Nat /\ n \in Nat /\ n + 1 \in 0 .. attempts /\ n \in 0 .. attempts
  BY DEF PgInv, TypeOK
<1>3. Effect(mode, base, data) = Copies(origin, data, n + 1)
  BY <1>1, <1>2, InsertCopies DEF Effect, Put, Kept, PgInv, TypeOK
<1>4. CASE tbl.rows = base /\ pc # "ok"
  BY <1>1, <1>2, <1>4
<1>5. CASE tbl.rows = Effect(mode, base, data)
  BY <1>2, <1>3, <1>5
<1> QED BY <1>4, <1>5 DEF PgInv, CommittedInv

(* A retry starts from what the attempt before it left.                    *)
LEMMA CopiesStep == PgInv /\ CopiesInv /\ [Next]_vars => CopiesInv'
<1> SUFFICES ASSUME PgInv, CopiesInv, [Next]_vars, mode' = "append"
             PROVE  CopiesInv'
  BY DEF CopiesInv
<1>1. CASE BeginRun
  <2>1. attempts' = 1 /\ base' = tbl.rows /\ origin' = tbl.rows /\ pc' = "schema"
    BY <1>1 DEF BeginRun, StartAttempt
  <2>2. tbl.rows \in Bag
    BY DEF PgInv, TypeOK, Table
  <2>3. base' = Copies(origin', data', 0)
    BY <2>1, <2>2, InsertCopies
  <2> QED BY <2>1, <2>3 DEF CopiesInv
<1>2. CASE Retry
  <2>1. /\ attempts' = attempts + 1 /\ base' = tbl.rows /\ pc' = "schema"
        /\ UNCHANGED <<origin, mode, data>>
    BY <1>2 DEF Retry, StartAttempt
  <2>2. attempts \in Nat /\ attempts # 0 /\ mode = "append"
    BY <1>2, <2>1 DEF Retry, CopiesInv, PgInv, TypeOK
  <2>3. PICK n \in 0 .. attempts : tbl.rows = Copies(origin, data, n)
    BY <2>2, OneMoreCopy
  <2>4. base' = Copies(origin', data', n)
    BY <2>1, <2>3 DEF Copies
  <2>5. attempts' - 1 = attempts /\ attempts' # 0
    BY <2>1, <2>2
  <2> QED BY <2>1, <2>3, <2>4, <2>5 DEF CopiesInv
<1>3. CASE Program \/ Environment \/ UNCHANGED vars
  <2>1. UNCHANGED <<attempts, base, origin, mode, data>> /\ (pc' = "idle" <=> pc = "idle")
    BY <1>3
       DEF Program, Environment, vars, Attempt, history, Goto, PgInv, SessionInv,
           EnsureSchema, CreateTable, CreateIndex, CommitEnsure, CheckShape,
           EnsureUniqueKey, BeginWrite, NothingToWrite, Truncate, InsertPage,
           ConstraintFails, CommitWrite, Report, Rollback, StatementFails,
           TransactionFails, CommitReplyLost, Crash, AlterTable,
           Steps, EnsureSteps, WriteSteps
  <2> QED BY <2>1 DEF CopiesInv, Copies
<1> QED BY <1>1, <1>2, <1>3 DEF Next

(* After any number of retries an append shows its earlier rows and whole  *)
(* copies of the run's rows, at most one for each attempt.                 *)
THEOREM AppendedWholeHolds == Spec => []AppendedWhole
<1>1. Init => CopiesInv
  BY DEF Init, CopiesInv
<1>2. PgInv /\ CopiesInv => AppendedWhole
  <2> SUFFICES ASSUME PgInv, CopiesInv, mode = "append"
               PROVE  \E n \in (IF pc = "ok" THEN 1 ELSE 0) .. attempts :
                        tbl.rows = Copies(origin, data, n)
    BY DEF AppendedWhole, Copies
  <2>1. CASE attempts = 0
    <3>1. pc = "idle" /\ tbl.rows = origin /\ origin \in Bag
      BY <2>1 DEF CopiesInv, PgInv, CommittedInv, TypeOK
    <3> QED BY <2>1, <3>1, InsertCopies
  <2>2. CASE attempts # 0
    <3>1. PICK n \in 0 .. attempts : /\ tbl.rows = Copies(origin, data, n)
                                     /\ pc = "ok" => n >= 1
      BY <2>2, OneMoreCopy
    <3> QED BY <3>1
  <2> QED BY <2>1, <2>2
<1> QED BY <1>1, <1>2, CopiesStep, PgInvariant, PTL DEF Spec
=============================================================================
