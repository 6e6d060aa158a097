------------------------- MODULE DuckLakeWriteProofs -------------------------
(***************************************************************************)
(* LakeWarehouse under run_node implements TargetWrite for all keys,       *)
(* values, seed tables and results, and for any number of attempts, of     *)
(* retries of a conflict and of commits of others.                         *)
(***************************************************************************)
EXTENDS DuckLakeWrite, RowsTheorems, TLAPS

(* Where a transaction is open, and what else an open one means.           *)
SessionInv == TransactionEnds

(* A table without the declared layout is seen inside a creation only.     *)
WithLayout(t) == t.layout <=> t.made = "node"
LayoutInv ==
  /\ WithLayout(tbl) /\ WithLayout(snap)
  /\ pc = "layout" => tx.made = "node"
  /\ pc \in InTransaction \ {"layout", "rollback"} => WithLayout(tx)

(* A table that does not exist has no rows, in any snapshot.               *)
EmptyInv ==
  /\ ~Exists(tbl) => tbl.rows = NoRows
  /\ ~Exists(snap) => snap.rows = NoRows
  /\ pc \in InTransaction \ {"rollback"} => (~Exists(tx) => tx.rows = NoRows)
  /\ pc = "create" => ~Exists(tx)

(* The rows the transaction started from, what it has made of them, and    *)
(* what everybody else sees until it commits.                              *)
WriteSteps == {"delete", "put", "commit"}
BeforeCommit ==
  Creating \cup WriteSteps \cup {"check", "unique", "begin", "rollback"}
RowsInv ==
  /\ pc \in BeforeCommit => tbl.rows = base
  /\ pc \in InTransaction \ {"rollback"} => snap.rows = base
  /\ pc \in Creating \cap InTransaction => tx.rows = base
  /\ pc = "delete" => mode = "replace"
  /\ pc = "check" => mode # "replace"
  /\ pc = "put" => tx.rows = Kept(mode, base)
  /\ pc = "commit" => tx.rows = Effect(mode, base, data)
  /\ pc = "report" => tbl.rows = Effect(mode, base, data)
  /\ pc = "idle" => tbl.rows = base

(* ensure_unique_key is before every write of an upsert.                   *)
UniqueInv ==
  /\ pc = "unique" => mode = "upsert"
  /\ pc \in {"begin", "report"} \cup WriteSteps /\ mode = "upsert"
       => UniqueKeys(data)

LakeInv == TypeOK /\ SessionInv /\ LayoutInv /\ EmptyInv /\ RowsInv /\ UniqueInv

(* Every creation lost to a race, and the conflict that may come next, is  *)
(* a commit of somebody else, unless something but a conflict went wrong.  *)
Losing == pc \in Creating \/ (pc = "rollback" /\ raised = "conflict")
RaceInv ==
  /\ moved => rivals >= 1
  /\ ~faulted /\ Losing =>
       /\ tries <= rivals + 1
       /\ moved \/ pc = "rollback" => tries <= rivals
       /\ moved /\ pc = "rollback" => tries + 1 <= rivals

-----------------------------------------------------------------------------
(* A table that does not exist is a table without rows.                    *)
LEMMA NoTableType == NoTable \in Table /\ NoTable.rows = NoRows
BY NoRowsType DEF NoTable, Table

(* Before the first run there is no transaction.                           *)
LEMMA LakeInit == Init => LakeInv /\ RaceInv
<1> SUFFICES ASSUME Init PROVE LakeInv /\ RaceInv
  OBVIOUS
<1>1. tbl \in Table /\ WithLayout(tbl) /\ (~Exists(tbl) => tbl.rows = NoRows)
  <2>1. CASE tbl = NoTable
    BY <2>1, NoTableType DEF WithLayout, NoTable
  <2>2. CASE tbl \in [made : {"before"}, layout : {FALSE}, rows : SeedRows,
                      shape : {"declared", "drifted"}]
    BY <2>2, DuckLakeAssumption DEF Table, WithLayout, Exists
  <2> QED BY <2>1, <2>2 DEF Init
<1>2. tbl.rows \in Bag
  BY <1>1 DEF Table
<1>3. WithLayout(NoTable) /\ NoTable \in Table /\ NoTable.rows = NoRows
  BY NoTableType DEF WithLayout, NoTable
<1>4. TypeOK
  <2>1. moved \in BOOLEAN /\ faulted \in BOOLEAN
    BY DEF Init
  <2>2. tries \in 1 .. ConflictAttempts /\ attempts \in 0 .. MaxAttempts
        /\ rivals \in 0 .. MaxRivals
    BY DuckLakeAssumption DEF Init
  <2>3. mode \in Modes /\ data \in SUBSET Row /\ con \in {"idle", "open"}
        /\ raised \in {"conflict", "error"}
        /\ pc \in Steps \cup {"idle", "ok", "failed"}
    BY DEF Init, Modes
  <2> QED BY <1>1, <1>2, <1>3, <2>1, <2>2, <2>3 DEF Init, TypeOK
<1> QED BY <1>1, <1>3, <1>4
        DEF Init, LakeInv, SessionInv, TransactionEnds, LayoutInv, EmptyInv, RowsInv,
            UniqueInv, RaceInv, Losing, InTransaction, BeforeCommit, WriteSteps,
            Creating

(* What the statements make of a table is a table.                         *)
LEMMA TableUpdates ==
  ASSUME NEW t \in Table
  PROVE  /\ [NoTable EXCEPT !.made = "node"] \in Table
         /\ [NoTable EXCEPT !.made = "rival"] \in Table
         /\ [t EXCEPT !.layout = TRUE] \in Table
         /\ [t EXCEPT !.shape = "drifted"] \in Table
         /\ [t EXCEPT !.rows = NoRows] \in Table
         /\ [t EXCEPT !.rows = Put(mode, @, data)] \in Table
         /\ t.rows \in Bag
<1>1. t.rows \in Bag
  BY DEF Table
<1>2. Put(mode, t.rows, data) \in Bag
  BY <1>1, PutType
<1> QED BY <1>1, <1>2, NoTableType, NoRowsType DEF Table

(* The parts of TypeOK: the tables and their rows, two flags, the rest.    *)
TablesOK == tbl \in Table /\ snap \in Table /\ tx \in Table /\ base \in Bag /\ origin \in Bag
RestOK ==
  /\ con \in {"idle", "open"}
  /\ pc \in Steps \cup {"idle", "ok", "failed"}
  /\ tries \in 1 .. ConflictAttempts
  /\ raised \in {"conflict", "error"}
  /\ data \in SUBSET Row /\ mode \in Modes
  /\ attempts \in 0 .. MaxAttempts /\ rivals \in 0 .. MaxRivals

(* Every statement, failure, retry, crash and commit of others keeps the   *)
(* tables ...                                                              *)
LEMMA TablesStep == TablesOK /\ [Next]_vars => TablesOK'
<1> SUFFICES ASSUME TablesOK, [Next]_vars PROVE TablesOK'
  OBVIOUS
<1>a. /\ [NoTable EXCEPT !.made = "node"] \in Table
      /\ [NoTable EXCEPT !.made = "rival"] \in Table
      /\ [tbl EXCEPT !.shape = "drifted"] \in Table
      /\ [tx EXCEPT !.layout = TRUE] \in Table
      /\ [tx EXCEPT !.rows = NoRows] \in Table
      /\ [tx EXCEPT !.rows = Put(mode, @, data)] \in Table
      /\ tbl.rows \in Bag
  BY TableUpdates DEF TablesOK
<1> USE <1>a DEF TablesOK, lake, session, Run
<1>1. CASE BeginRun
  BY <1>1 DEF BeginRun, StartAttempt
<1>2. CASE Retry
  BY <1>2 DEF Retry, StartAttempt
<1>3. CASE EnsureSchema
  BY <1>3 DEF EnsureSchema
<1>4. CASE BeginCreate
  BY <1>4 DEF BeginCreate, Begin
<1>5. CASE TableExists
  BY <1>5 DEF TableExists, Statement
<1>6. CASE CreateTable
  BY <1>6 DEF CreateTable, Statement
<1>7. CASE ApplyLayout
  BY <1>7 DEF ApplyLayout, Statement
<1>8. CASE CommitCreate
  BY <1>8 DEF CommitCreate, Commit
<1>9. CASE CheckShape
  BY <1>9 DEF CheckShape, Verdict
<1>10. CASE EnsureUniqueKey
  BY <1>10 DEF EnsureUniqueKey, Verdict
<1>11. CASE BeginWrite
  BY <1>11 DEF BeginWrite, Begin
<1>12. CASE DeleteAll
  BY <1>12 DEF DeleteAll, Statement
<1>13. CASE PutRows
  BY <1>13 DEF PutRows, Statement
<1>14. CASE CommitWrite
  BY <1>14 DEF CommitWrite, Commit
<1>15. CASE CommitReplyLost
  BY <1>15 DEF CommitReplyLost
<1>16. CASE Rollback
  BY <1>16 DEF Rollback
<1>17. CASE Report
  BY <1>17 DEF Report
<1>18. CASE Crash
  BY <1>18 DEF Crash
<1>19. CASE RivalCommits
  BY <1>19 DEF RivalCommits
<1>20. CASE UNCHANGED vars
  BY <1>20 DEF vars
<1> QED BY <1>1, <1>2, <1>3, <1>4, <1>5, <1>6, <1>7, <1>8, <1>9, <1>10, <1>11,
           <1>12, <1>13, <1>14, <1>15, <1>16, <1>17, <1>18, <1>19, <1>20
        DEF Next, Program

(* ... the two flags ...                                                   *)
FlagsOK == moved \in BOOLEAN /\ faulted \in BOOLEAN
LEMMA FlagsStep == FlagsOK /\ [Next]_vars => FlagsOK'
<1> SUFFICES ASSUME FlagsOK, [Next]_vars PROVE FlagsOK'
  OBVIOUS
<1> USE DEF FlagsOK, lake, Spend
<1>1. CASE BeginRun
  BY <1>1 DEF BeginRun, StartAttempt
<1>2. CASE Retry
  BY <1>2 DEF Retry, StartAttempt
<1>3. CASE EnsureSchema
  BY <1>3 DEF EnsureSchema, Raise
<1>4. CASE BeginCreate
  BY <1>4 DEF BeginCreate, Begin, Raise
<1>5. CASE TableExists
  BY <1>5 DEF TableExists, Statement
<1>6. CASE CreateTable
  BY <1>6 DEF CreateTable, Statement
<1>7. CASE ApplyLayout
  BY <1>7 DEF ApplyLayout, Statement
<1>8. CASE CommitCreate
  BY <1>8 DEF CommitCreate, Commit, Raise
<1>9. CASE CheckShape
  BY <1>9 DEF CheckShape, Verdict
<1>10. CASE EnsureUniqueKey
  BY <1>10 DEF EnsureUniqueKey, Verdict
<1>11. CASE BeginWrite
  BY <1>11 DEF BeginWrite, Begin, Raise
<1>12. CASE DeleteAll
  BY <1>12 DEF DeleteAll, Statement
<1>13. CASE PutRows
  BY <1>13 DEF PutRows, Statement
<1>14. CASE CommitWrite
  BY <1>14 DEF CommitWrite, Commit, Raise
<1>15. CASE CommitReplyLost
  BY <1>15 DEF CommitReplyLost, Raise
<1>16. CASE Rollback
  BY <1>16 DEF Rollback, Raise
<1>17. CASE Report
  BY <1>17 DEF Report
<1>18. CASE Crash
  BY <1>18 DEF Crash
<1>19. CASE RivalCommits
  BY <1>19 DEF RivalCommits
<1>20. CASE UNCHANGED vars
  BY <1>20 DEF vars
<1> QED BY <1>1, <1>2, <1>3, <1>4, <1>5, <1>6, <1>7, <1>8, <1>9, <1>10, <1>11,
           <1>12, <1>13, <1>14, <1>15, <1>16, <1>17, <1>18, <1>19, <1>20
        DEF Next, Program

(* ... and the other variables in their types.                             *)
LEMMA RestStep == RestOK /\ [Next]_vars => RestOK'
<1> SUFFICES ASSUME RestOK, [Next]_vars PROVE RestOK'
  OBVIOUS
<1>a. ConflictAttempts \in Nat \ {0} /\ MaxAttempts \in Nat /\ MaxRivals \in Nat
      /\ Results \subseteq SUBSET Row
  BY DuckLakeAssumption
<1> USE <1>a
    DEF RestOK, Steps, Creating, InTransaction, lake, session, Run, Errors,
        Spend
<1>1. CASE BeginRun
  BY <1>1 DEF BeginRun, StartAttempt
<1>2. CASE Retry
  BY <1>2 DEF Retry, StartAttempt
<1>3. CASE EnsureSchema
  BY <1>3 DEF EnsureSchema, Raise, RetryOrFail
<1>4. CASE BeginCreate
  BY <1>4 DEF BeginCreate, Begin, Raise, RetryOrFail
<1>5. CASE TableExists
  BY <1>5 DEF TableExists, Statement
<1>6. CASE CreateTable
  BY <1>6 DEF CreateTable, Statement, NoTable
<1>7. CASE ApplyLayout
  BY <1>7 DEF ApplyLayout, Statement
<1>8. CASE CommitCreate
  BY <1>8 DEF CommitCreate, Commit, Raise, RetryOrFail
<1>9. CASE CheckShape
  BY <1>9 DEF CheckShape, Verdict, AfterChecks
<1>10. CASE EnsureUniqueKey
  BY <1>10 DEF EnsureUniqueKey, Verdict, AfterChecks
<1>11. CASE BeginWrite
  BY <1>11 DEF BeginWrite, Begin, Raise, RetryOrFail
<1>12. CASE DeleteAll
  BY <1>12 DEF DeleteAll, Statement
<1>13. CASE PutRows
  BY <1>13 DEF PutRows, Statement
<1>14. CASE CommitWrite
  BY <1>14 DEF CommitWrite, Commit, Raise, RetryOrFail
<1>15. CASE CommitReplyLost
  BY <1>15 DEF CommitReplyLost, Raise, RetryOrFail
<1>16. CASE Rollback
  BY <1>16 DEF Rollback, Raise, RetryOrFail
<1>17. CASE Report
  BY <1>17 DEF Report
<1>18. CASE Crash
  BY <1>18 DEF Crash
<1>19. CASE RivalCommits
  BY <1>19 DEF RivalCommits, NoTable
<1>20. CASE UNCHANGED vars
  BY <1>20 DEF vars
<1> QED BY <1>1, <1>2, <1>3, <1>4, <1>5, <1>6, <1>7, <1>8, <1>9, <1>10, <1>11,
           <1>12, <1>13, <1>14, <1>15, <1>16, <1>17, <1>18, <1>19, <1>20
        DEF Next, Program

(* Every step keeps the variables in their types.                          *)
LEMMA TypeStep == TypeOK /\ [Next]_vars => TypeOK'
BY TablesStep, FlagsStep, RestStep DEF TypeOK, TablesOK, FlagsOK, RestOK

(* Every statement, failure, retry, crash and commit of others keeps the   *)
(* invariant.                                                              *)
LEMMA LakeStep == LakeInv /\ [Next]_vars => LakeInv'
<1> SUFFICES ASSUME LakeInv, [Next]_vars
             PROVE  SessionInv' /\ LayoutInv' /\ EmptyInv' /\ RowsInv' /\ UniqueInv'
  BY TypeStep DEF LakeInv
<1>a. ConflictAttempts \in Nat \ {0} /\ MaxAttempts \in Nat /\ MaxRivals \in Nat
  BY DuckLakeAssumption
<1>b. Put(mode, Kept(mode, base), data) = Effect(mode, base, data)
  BY DEF Effect
<1>c. Put(mode, Kept(mode, base), {}) = Kept(mode, base)
  BY PutNothing, NoRowsType DEF LakeInv, TypeOK, Kept
<1>d. /\ mode # "replace" => Kept(mode, base) = base
      /\ mode = "replace" => Kept(mode, base) = NoRows
  BY DEF Kept
<1>e. NoRows \in Bag
  BY NoRowsType
<1> USE <1>a, <1>b, <1>c, <1>d, <1>e
    DEF LakeInv, TypeOK, SessionInv, TransactionEnds, LayoutInv, EmptyInv,
        RowsInv, UniqueInv, WithLayout, Exists, Table, Steps, Creating,
        InTransaction, WriteSteps, BeforeCommit, lake, session, Run, Errors, Spend
<1>1. CASE BeginRun
  BY <1>1 DEF BeginRun, StartAttempt
<1>2. CASE Retry
  BY <1>2 DEF Retry, StartAttempt
<1>3. CASE EnsureSchema
  BY <1>3 DEF EnsureSchema, Raise, RetryOrFail
<1>4. CASE BeginCreate
  BY <1>4 DEF BeginCreate, Begin, Raise, RetryOrFail
<1>5. CASE TableExists
  BY <1>5 DEF TableExists, Statement
<1>6. CASE CreateTable
  BY <1>6 DEF CreateTable, Statement, NoTable
<1>7. CASE ApplyLayout
  BY <1>7 DEF ApplyLayout, Statement
<1>8. CASE CommitCreate
  BY <1>8 DEF CommitCreate, Commit, Raise, RetryOrFail
<1>9. CASE CheckShape
  BY <1>9 DEF CheckShape, Verdict, AfterChecks
<1>10. CASE EnsureUniqueKey
  BY <1>10 DEF EnsureUniqueKey, Verdict, AfterChecks
<1>11. CASE BeginWrite
  BY <1>11 DEF BeginWrite, Begin, Raise, RetryOrFail
<1>12. CASE DeleteAll
  BY <1>12 DEF DeleteAll, Statement
<1>13. CASE PutRows
  BY <1>13 DEF PutRows, Statement
<1>14. CASE CommitWrite
  BY <1>14 DEF CommitWrite, Commit, Raise, RetryOrFail
<1>15. CASE CommitReplyLost
  BY <1>15 DEF CommitReplyLost, Raise, RetryOrFail
<1>16. CASE Rollback
  BY <1>16 DEF Rollback, Raise, RetryOrFail
<1>17. CASE Report
  BY <1>17 DEF Report
<1>18. CASE Crash
  BY <1>18 DEF Crash
<1>19. CASE RivalCommits
  BY <1>19 DEF RivalCommits, NoTable
<1>20. CASE UNCHANGED vars
  BY <1>20 DEF vars
<1> QED BY <1>1, <1>2, <1>3, <1>4, <1>5, <1>6, <1>7, <1>8, <1>9, <1>10, <1>11,
           <1>12, <1>13, <1>14, <1>15, <1>16, <1>17, <1>18, <1>19, <1>20
        DEF Next, Program

(* The invariant holds throughout.                                         *)
LEMMA LakeInvariant == Spec => []LakeInv
BY LakeInit, LakeStep, PTL DEF Spec

(* The types of all variables.                                             *)
THEOREM TypeCorrect == Spec => []TypeOK
<1>1. LakeInv => TypeOK
  BY DEF LakeInv
<1> QED BY <1>1, LakeInvariant, PTL

(* A session is inside a transaction where transaction() has opened one    *)
(* and not ended it, or a ROLLBACK failed.                                 *)
THEOREM TransactionEndsHolds == Spec => []TransactionEnds
<1>1. LakeInv => TransactionEnds
  BY DEF LakeInv, SessionInv
<1> QED BY <1>1, LakeInvariant, PTL

(* A table has the declared layout if and only if this program made it.    *)
THEOREM LayoutComesWithTheTableHolds == Spec => []LayoutComesWithTheTable
<1>1. LakeInv => LayoutComesWithTheTable
  BY DEF LakeInv, LayoutInv, WithLayout, LayoutComesWithTheTable
<1> QED BY <1>1, LakeInvariant, PTL

-----------------------------------------------------------------------------
(* The contract speaks of the same rows and the same effect.               *)
LEMMA SameRows ==
  /\ Contract!Row = Row /\ Contract!Bag = Bag /\ Contract!Modes = Modes
  /\ \A S : Contract!UniqueKeys(S) <=> UniqueKeys(S)
  /\ \A m, b, S : Contract!Effect(m, b, S) = Effect(m, b, S)
<1>1. Contract!Row = Row
  BY DEF Row, Contract!Row
<1>2. Contract!Bag = Bag
  BY <1>1 DEF Bag, Contract!Bag
<1>3. ASSUME NEW S PROVE Contract!UniqueKeys(S) <=> UniqueKeys(S)
  BY DEF UniqueKeys, Contract!UniqueKeys
<1>4. ASSUME NEW m, NEW b, NEW S
      PROVE  Contract!Effect(m, b, S) = Effect(m, b, S)
  BY <1>1 DEF Effect, Put, Merge, Insert, Kept, NoRows, KeysOf,
         Contract!Effect, Contract!Put, Contract!Merge, Contract!Insert,
         Contract!Kept, Contract!NoRows, Contract!KeysOf
<1> QED BY <1>1, <1>2, <1>3, <1>4 DEF Modes, Contract!Modes

(* The table before the first run is a table of the contract.              *)
LEMMA ContractInit == Init => Contract!Init
<1> SUFFICES ASSUME Init PROVE Contract!Init
  OBVIOUS
<1>1. tbl.rows \in Contract!Bag
  BY LakeInit, SameRows DEF LakeInv, TypeOK, Table
<1>2. Phase = "idle"
  <2>1. pc = "idle"
    BY DEF Init
  <2> QED BY <2>1 DEF Phase, Steps, Creating, InTransaction
<1>3. mode \in Contract!Modes
  BY SameRows DEF Init, Modes
<1> QED BY <1>1, <1>2, <1>3, SameRows DEF Init, Contract!Init

(* The COMMIT of the write is Apply, the report of run_node is Succeed or  *)
(* Fail; creation, also by somebody else, shows no rows.                   *)
LEMMA ContractStep == LakeInv /\ [Next]_vars => [Contract!Next]_(Contract!vars)
<1> SUFFICES ASSUME LakeInv, [Next]_vars
             PROVE  Contract!Next \/ UNCHANGED Contract!vars
  OBVIOUS
<1>a. tbl \in Table /\ NoTable.rows = NoRows
  BY NoTableType DEF LakeInv, TypeOK
<1>b. [NoTable EXCEPT !.made = "rival"].rows = NoRows
  BY <1>a DEF NoTable
<1> USE SameRows, <1>a, <1>b
    DEF LakeInv, TypeOK, EmptyInv, RowsInv, UniqueInv, Exists, Phase, Steps,
        Creating, InTransaction, WriteSteps, BeforeCommit, lake, session, Run,
        Contract!Next, Contract!vars
<1>1. CASE BeginRun
  BY <1>1, DuckLakeAssumption DEF BeginRun, StartAttempt, Contract!BeginRun
<1>2. CASE Retry
  BY <1>2 DEF Retry, StartAttempt, Contract!Retry
<1>3. CASE EnsureSchema
  BY <1>3 DEF EnsureSchema, Raise, RetryOrFail, Contract!Fail
<1>4. CASE BeginCreate
  BY <1>4 DEF BeginCreate, Begin, Raise, RetryOrFail, Contract!Fail
<1>5. CASE TableExists
  BY <1>5 DEF TableExists, Statement
<1>6. CASE CreateTable
  BY <1>6 DEF CreateTable, Statement
<1>7. CASE ApplyLayout
  BY <1>7 DEF ApplyLayout, Statement
<1>8. CASE CommitCreate
  BY <1>8 DEF CommitCreate, Commit, Raise, RetryOrFail, Contract!Fail
<1>9. CASE CheckShape
  BY <1>9 DEF CheckShape, Verdict, AfterChecks, Contract!Fail
<1>10. CASE EnsureUniqueKey
  BY <1>10 DEF EnsureUniqueKey, Verdict, AfterChecks, Contract!Fail
<1>11. CASE BeginWrite
  BY <1>11 DEF BeginWrite, Begin, Raise, RetryOrFail, Contract!Fail
<1>12. CASE DeleteAll
  BY <1>12 DEF DeleteAll, Statement
<1>13. CASE PutRows
  BY <1>13 DEF PutRows, Statement
<1>14. CASE CommitWrite
  BY <1>14 DEF CommitWrite, Commit, Raise, RetryOrFail, Contract!Apply, Contract!Fail
<1>15. CASE CommitReplyLost
  BY <1>15 DEF CommitReplyLost, Raise, RetryOrFail, Contract!Fail
<1>16. CASE Rollback
  BY <1>16 DEF Rollback, Raise, RetryOrFail, Contract!Fail
<1>17. CASE Report
  BY <1>17 DEF Report, Contract!Succeed
<1>18. CASE Crash
  BY <1>18 DEF Crash, Contract!Fail
<1>19. CASE RivalCommits
  BY <1>19 DEF RivalCommits, Table
<1>20. CASE UNCHANGED vars
  BY <1>20 DEF vars
<1> QED BY <1>1, <1>2, <1>3, <1>4, <1>5, <1>6, <1>7, <1>8, <1>9, <1>10, <1>11,
           <1>12, <1>13, <1>14, <1>15, <1>16, <1>17, <1>18, <1>19, <1>20
        DEF Next, Program

(* LakeWarehouse under run_node implements TargetWrite.                    *)
THEOREM Refinement == Spec => KeepsContract
<1>1. Init => Contract!Init
  BY ContractInit
<1>2. LakeInv /\ [Next]_vars => [Contract!Next]_(Contract!vars)
  BY ContractStep
<1> QED BY <1>1, <1>2, LakeInvariant, PTL DEF Spec, KeepsContract, Contract!Spec

-----------------------------------------------------------------------------
(* Each conflict costs one commit of somebody else.                        *)
LEMMA RaceStep == LakeInv /\ RaceInv /\ [Next]_vars => RaceInv'
<1> SUFFICES ASSUME LakeInv, RaceInv, [Next]_vars PROVE RaceInv'
  OBVIOUS
<1>a. /\ ConflictAttempts \in Nat \ {0} /\ tries \in Nat /\ rivals \in Nat
      /\ con = "open" /\ pc \notin InTransaction => faulted
  BY DuckLakeAssumption DEF LakeInv, TypeOK, SessionInv, TransactionEnds
<1>b. ASSUME NEW e, Spend(e) PROVE (moved' => moved) /\ (e = "conflict" => ~moved')
  BY <1>b DEF Spend
<1>c. ASSUME NEW e, Raise(e)
      PROVE  /\ RetryOrFail(e)
             /\ ~faulted' => ~faulted /\ e # "error"
  BY <1>c DEF Raise
<1>d. ASSUME NEW e \in Errors PROVE e = "error" \/ (e = "conflict" /\ moved)
  BY <1>d DEF Errors
<1> USE <1>a, <1>b, <1>c, <1>d
    DEF RaceInv, Losing, Steps, Creating, InTransaction, lake, session, Run
<1>1. CASE BeginRun
  BY <1>1 DEF BeginRun, StartAttempt
<1>2. CASE Retry
  BY <1>2 DEF Retry, StartAttempt
<1>3. CASE EnsureSchema
  BY <1>3 DEF EnsureSchema, RetryOrFail
<1>4. CASE BeginCreate
  BY <1>4 DEF BeginCreate, Begin, RetryOrFail
<1>5. CASE TableExists
  BY <1>5 DEF TableExists, Statement
<1>6. CASE CreateTable
  BY <1>6 DEF CreateTable, Statement
<1>7. CASE ApplyLayout
  BY <1>7 DEF ApplyLayout, Statement
<1>8. CASE CommitCreate
  BY <1>8 DEF CommitCreate, Commit, RetryOrFail
<1>9. CASE CheckShape
  BY <1>9 DEF CheckShape, Verdict, AfterChecks
<1>10. CASE EnsureUniqueKey
  BY <1>10 DEF EnsureUniqueKey, Verdict, AfterChecks
<1>11. CASE BeginWrite
  BY <1>11 DEF BeginWrite, Begin, RetryOrFail
<1>12. CASE DeleteAll
  BY <1>12 DEF DeleteAll, Statement
<1>13. CASE PutRows
  BY <1>13 DEF PutRows, Statement
<1>14. CASE CommitWrite
  BY <1>14 DEF CommitWrite, Commit, RetryOrFail
<1>15. CASE CommitReplyLost
  BY <1>15 DEF CommitReplyLost, RetryOrFail
<1>16. CASE Rollback
  BY <1>16 DEF Rollback, RetryOrFail
<1>17. CASE Report
  BY <1>17 DEF Report
<1>18. CASE Crash
  BY <1>18 DEF Crash
<1>19. CASE RivalCommits
  BY <1>19 DEF RivalCommits
<1>20. CASE UNCHANGED vars
  BY <1>20 DEF vars
<1> QED BY <1>1, <1>2, <1>3, <1>4, <1>5, <1>6, <1>7, <1>8, <1>9, <1>10, <1>11,
           <1>12, <1>13, <1>14, <1>15, <1>16, <1>17, <1>18, <1>19, <1>20
        DEF Next, Program

(* The loser of a creation gives up only to five commits of others.        *)
LEMMA RaceLoses ==
  ASSUME LakeInv, RaceInv, [Next]_vars, Losing, pc' = "failed", ~faulted'
  PROVE  rivals >= ConflictAttempts
<1>a. /\ ConflictAttempts \in Nat /\ tries \in 1 .. ConflictAttempts /\ rivals \in Nat
      /\ con = "open" /\ pc \notin InTransaction => faulted
  BY DuckLakeAssumption DEF LakeInv, TypeOK, SessionInv, TransactionEnds
<1>b. ASSUME NEW e, Raise(e), e # "error" => e = "conflict"
      PROVE  e = "conflict" /\ ~faulted /\ tries = ConflictAttempts
  <2>1. ~faulted /\ e # "error"
    BY <1>b DEF Raise
  <2>2. ~(tries < ConflictAttempts)
    BY <1>b, <2>1 DEF Raise, RetryOrFail, Losing
  <2> QED BY <1>a, <1>b, <2>1, <2>2
<1>c. ASSUME NEW e \in Errors PROVE e = "error" \/ (e = "conflict" /\ moved)
  BY <1>c DEF Errors
<1> USE <1>a, <1>b, <1>c DEF RaceInv, Losing, Creating, InTransaction
<1>1. CASE BeginRun
  BY <1>1 DEF BeginRun, StartAttempt
<1>2. CASE Retry
  BY <1>2 DEF Retry, StartAttempt
<1>3. CASE EnsureSchema
  BY <1>3 DEF EnsureSchema
<1>4. CASE BeginCreate
  BY <1>4 DEF BeginCreate, Begin
<1>5. CASE TableExists
  BY <1>5 DEF TableExists, Statement
<1>6. CASE CreateTable
  BY <1>6 DEF CreateTable, Statement
<1>7. CASE ApplyLayout
  BY <1>7 DEF ApplyLayout, Statement
<1>8. CASE CommitCreate
  BY <1>8 DEF CommitCreate, Commit
<1>9. CASE CheckShape
  BY <1>9 DEF CheckShape, Verdict, AfterChecks
<1>10. CASE EnsureUniqueKey
  BY <1>10 DEF EnsureUniqueKey, Verdict, AfterChecks
<1>11. CASE BeginWrite
  BY <1>11 DEF BeginWrite, Begin
<1>12. CASE DeleteAll
  BY <1>12 DEF DeleteAll, Statement
<1>13. CASE PutRows
  BY <1>13 DEF PutRows, Statement
<1>14. CASE CommitWrite
  BY <1>14 DEF CommitWrite, Commit
<1>15. CASE CommitReplyLost
  BY <1>15 DEF CommitReplyLost
<1>16. CASE Rollback
  BY <1>16 DEF Rollback
<1>17. CASE Report
  BY <1>17 DEF Report
<1>18. CASE Crash
  BY <1>18 DEF Crash
<1>19. CASE RivalCommits
  BY <1>19 DEF RivalCommits
<1>20. CASE UNCHANGED vars
  BY <1>20 DEF vars
<1> QED BY <1>1, <1>2, <1>3, <1>4, <1>5, <1>6, <1>7, <1>8, <1>9, <1>10, <1>11,
           <1>12, <1>13, <1>14, <1>15, <1>16, <1>17, <1>18, <1>19, <1>20
        DEF Next, Program

(* The loser of a race on creation retries, five attempts in all.          *)
THEOREM RaceLosersSucceedHolds == Spec => RaceLosersSucceed
<1>1. Init => RaceInv
  BY LakeInit
<1>2. LakeInv /\ RaceInv /\ [Next]_vars
        => [Losing /\ pc' = "failed" /\ ~faulted' => rivals >= ConflictAttempts]_vars
  BY RaceLoses
<1> QED BY <1>1, <1>2, RaceStep, LakeInvariant, PTL DEF Spec, RaceLosersSucceed, Losing
=============================================================================
