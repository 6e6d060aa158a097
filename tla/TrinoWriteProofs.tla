--------------------------- MODULE TrinoWriteProofs ---------------------------
(***************************************************************************)
(* TrinoAdapter under run_node, whose statements each commit on their own: *)
(* what a replace never loses nor mixes, and that append and upsert        *)
(* implement TargetWrite, for all keys, values, seed tables and results    *)
(* and any number of attempts.                                             *)
(***************************************************************************)
EXTENDS TrinoWrite, RowsTheorems, TLAPS

Stage == stage[token]
Old   == old[token]

(* The uuid of an attempt is fresh: what carries it, the attempt made.     *)
FreshInv ==
  /\ pc = "idle" <=> token = 0
  /\ \A t \in Token : t > token => stage[t] = NoTable /\ old[t] = NoTable

(* Which steps a mode takes, and that an upsert checks its keys first.     *)
ModeInv ==
  /\ pc \in {"swap_out", "swap_in", "recover", "drop_old"} => mode = "replace"
  /\ pc \in {"check", "unique", "final", "drop_stage"} => mode # "replace"
  /\ pc = "unique" => mode = "upsert"
  /\ mode = "upsert" /\ pc \in {"stage", "fill", "final", "drop_stage", "report"} =>
       UniqueKeys(data)
  /\ pc = "idle" => mode = "replace"

(* The attempt's private tables: the stage fills up with the run's rows.   *)
StageInv ==
  /\ left \subseteq data
  /\ pc \in {"ensure", "check", "unique", "stage"} =>
       Stage = NoTable /\ Old = NoTable /\ left = data
  /\ pc \in {"fill", "final", "swap_out", "swap_in"} =>
       Stage.exists /\ Stage.rows = Insert(NoRows, data \ left)
  /\ pc \in {"final", "swap_out", "swap_in"} => left = {}
  /\ pc \in {"fill", "final", "swap_out", "drop_stage"} => Old = NoTable
  /\ pc = "drop_old" => Stage = NoTable

(* The table under the node's name: untouched up to the swap or the one    *)
(* final statement, written after it.                                      *)
Before == {"ensure", "check", "unique", "stage", "fill", "swap_out", "final"}
TargetInv ==
  /\ pc \in {"unique", "stage", "fill", "final", "drop_stage", "swap_out", "drop_old",
            "report"} => target.exists
  /\ pc = "swap_in" => ~target.exists
  /\ pc \in Before => target.rows = base
  /\ pc \in {"drop_stage", "report"} /\ mode # "replace" =>
       target.rows = Effect(mode, base, data)
  /\ pc \in {"drop_old", "report", "ok"} /\ mode = "replace" =>
       target.rows = Insert(NoRows, data)

(* What is left behind when no statement failed.                           *)
CleanInv ==
  pc \in {"report", "ok"} /\ clean =>
    target.exists /\ ~Stage.exists /\ ~Old.exists

(* The old table is dropped only once the new rows are under the node's    *)
(* name, and put back only while there is no table under it.               *)
GoodInv ==
  /\ NeverPartial /\ RowsNeverLost
  /\ pc = "drop_old" => target.rows = good
  /\ pc \in {"swap_in", "recover"} /\ ~target.exists => Old.rows \in {NoRows, good}

(* Each attempt of an upsert run starts from the rows the run started from *)
(* or from the run's own effect on them.                                   *)
RunInv ==
  mode = "upsert" =>
    /\ base \in {origin, Effect(mode, origin, data)}
    /\ target.rows \in {origin, Effect(mode, origin, data)}
    /\ pc = "ok" => target.rows = Effect(mode, origin, data)

TrinoInv ==
  /\ TypeOK /\ FreshInv /\ ModeInv /\ StageInv /\ TargetInv /\ CleanInv
  /\ GoodInv /\ RunInv

-----------------------------------------------------------------------------
(* A table that does not exist is a table without rows.                    *)
LEMMA NoTableType == NoTable \in Table /\ NoTable.rows = NoRows /\ ~NoTable.exists
BY NoRowsType DEF NoTable, Table

(* What the statements make of a table is a table.                         *)
LEMMA TableUpdates ==
  ASSUME NEW t \in Table
  PROVE  /\ t.rows \in Bag
         /\ [NoTable EXCEPT !.exists = TRUE] \in Table
         /\ [t EXCEPT !.rows = NoRows] \in Table
         /\ t.exists => [t EXCEPT !.shape = "drifted"] \in Table
         /\ \A b : t.exists => [t EXCEPT !.rows = Insert(@, b)] \in Table
         /\ \A S : t.exists => [t EXCEPT !.rows = Put(mode, @, S)] \in Table
<1>1. t.rows \in Bag
  BY DEF Table
<1>2. \A b : Insert(t.rows, b) \in Bag
  BY <1>1 DEF Insert, Bag
<1>3. \A S : Put(mode, t.rows, S) \in Bag
  BY <1>1, PutType
<1> QED BY <1>1, <1>2, <1>3, NoTableType, NoRowsType DEF Table, NoTable

TablesOK == target \in Table /\ base \in Bag /\ origin \in Bag /\ good \in Bag
PrivateOK == stage \in [Token -> Table] /\ old \in [Token -> Table]
RestOK ==
  /\ token \in 0 .. MaxAttempts
  /\ pc \in Steps \cup {"idle", "ok", "failed"}
  /\ left \in SUBSET Row /\ data \in SUBSET Row /\ mode \in Modes

(* While an attempt runs it has a uuid.                                    *)
LEMMA HasToken == TypeOK /\ FreshInv /\ pc # "idle" => token \in Token
BY TrinoAssumption DEF TypeOK, FreshInv, Token

(* Every step keeps the variables in their types: the flow of control ...  *)
LEMMA RestStep == RestOK /\ [Next]_vars => RestOK'
<1> SUFFICES ASSUME RestOK, [Next]_vars PROVE RestOK'
  OBVIOUS
<1>a. MaxAttempts \in Nat /\ Results \subseteq SUBSET Row
  BY TrinoAssumption
<1> USE <1>a DEF RestOK, Steps, tables, Run
<1>1. CASE BeginRun
  BY <1>1 DEF BeginRun, StartAttempt
<1>2. CASE Retry
  BY <1>2 DEF Retry, StartAttempt
<1>3. CASE EnsureTable
  BY <1>3 DEF EnsureTable, After
<1>4. CASE CheckShape
  BY <1>4 DEF CheckShape, After
<1>5. CASE EnsureUniqueKey
  BY <1>5 DEF EnsureUniqueKey, After
<1>6. CASE CreateStage
  BY <1>6 DEF CreateStage, After, AfterFill
<1>7. CASE InsertBatch
  BY <1>7 DEF InsertBatch, After, AfterFill
<1>8. CASE DropStage
  BY <1>8 DEF DropStage
<1>9. CASE SwapOut
  BY <1>9 DEF SwapOut, After
<1>10. CASE SwapIn
  BY <1>10 DEF SwapIn, After
<1>11. CASE Recover
  BY <1>11 DEF Recover
<1>12. CASE DropOld
  BY <1>12 DEF DropOld, After
<1>13. CASE FinalStatement
  BY <1>13 DEF FinalStatement, After
<1>14. CASE Report
  BY <1>14 DEF Report
<1>15. CASE Crash
  BY <1>15 DEF Crash
<1>16. CASE AlterTable
  BY <1>16 DEF AlterTable
<1>17. CASE UNCHANGED vars
  BY <1>17 DEF vars
<1> QED BY <1>1, <1>2, <1>3, <1>4, <1>5, <1>6, <1>7, <1>8, <1>9, <1>10, <1>11,
           <1>12, <1>13, <1>14, <1>15, <1>16, <1>17
        DEF Next, Program

(* ... the private tables ...                                              *)
LEMMA PrivateStep == TrinoInv /\ [Next]_vars => PrivateOK'
<1> SUFFICES ASSUME TrinoInv, [Next]_vars PROVE PrivateOK'
  OBVIOUS
<1>a. target.exists => [target EXCEPT !.rows = NoRows] \in Table
  BY TableUpdates DEF TrinoInv, TypeOK
<1>b. ASSUME NEW S, pc = "fill"
      PROVE  [stage[token] EXCEPT !.rows = Insert(@, S)] \in Table
  BY <1>b, HasToken, TableUpdates DEF TrinoInv, TypeOK, StageInv, Stage
<1>c. PrivateOK /\ target \in Table
  BY DEF TrinoInv, TypeOK, PrivateOK
<1> USE <1>a, <1>b, <1>c, NoTableType DEF PrivateOK, tables, Run
<1>1. CASE BeginRun
  BY <1>1 DEF BeginRun, StartAttempt
<1>2. CASE Retry
  BY <1>2 DEF Retry, StartAttempt
<1>3. CASE EnsureTable
  BY <1>3 DEF EnsureTable, After
<1>4. CASE CheckShape
  BY <1>4 DEF CheckShape, After
<1>5. CASE EnsureUniqueKey
  BY <1>5 DEF EnsureUniqueKey, After
<1>6. CASE CreateStage
  BY <1>6 DEF CreateStage, After, AfterFill
<1>7. CASE InsertBatch
  <2>1. PICK reply \in Replies, batch \in SUBSET left \ {{}} :
          /\ stage' = IF reply = "refused" THEN stage
                      ELSE [stage EXCEPT ![token].rows = Insert(@, batch)]
          /\ left' = left \ batch
          /\ After(reply, IF left' = {} THEN AfterFill ELSE "fill",
                   "drop_stage_raising")
    BY <1>7 DEF InsertBatch
  <2>2. pc = "fill" /\ UNCHANGED old
    BY <1>7 DEF InsertBatch
  <2>3. [stage EXCEPT ![token].rows = Insert(@, batch)]
          = [stage EXCEPT ![token] = [stage[token] EXCEPT !.rows = Insert(@, batch)]]
    OBVIOUS
  <2>4. [stage[token] EXCEPT !.rows = Insert(@, batch)] \in Table
    BY <1>b, <2>2
  <2>5. stage' \in [Token -> Table]
    BY <2>1, <2>3, <2>4
  <2> QED BY <2>2, <2>5
<1>8. CASE DropStage
  BY <1>8 DEF DropStage
<1>9. CASE SwapOut
  BY <1>9 DEF SwapOut, After
<1>10. CASE SwapIn
  BY <1>10 DEF SwapIn, After
<1>11. CASE Recover
  BY <1>11 DEF Recover
<1>12. CASE DropOld
  BY <1>12 DEF DropOld, After
<1>13. CASE FinalStatement
  BY <1>13 DEF FinalStatement, After
<1>14. CASE Report
  BY <1>14 DEF Report
<1>15. CASE Crash
  BY <1>15 DEF Crash
<1>16. CASE AlterTable
  BY <1>16 DEF AlterTable
<1>17. CASE UNCHANGED vars
  BY <1>17 DEF vars
<1> QED BY <1>1, <1>2, <1>3, <1>4, <1>5, <1>6, <1>7, <1>8, <1>9, <1>10, <1>11,
           <1>12, <1>13, <1>14, <1>15, <1>16, <1>17
        DEF Next, Program

(* ... and the target.                                                     *)
LEMMA TablesStep == TrinoInv /\ [Next]_vars => TablesOK'
<1> SUFFICES ASSUME TrinoInv, [Next]_vars PROVE TablesOK'
  OBVIOUS
<1>a. /\ target \in Table /\ base \in Bag /\ origin \in Bag /\ good \in Bag
      /\ target.rows \in Bag /\ [NoTable EXCEPT !.exists = TRUE] \in Table
      /\ target.exists => [target EXCEPT !.shape = "drifted"] \in Table
  BY TableUpdates DEF TrinoInv, TypeOK
<1>b. ASSUME NEW S, target.exists
      PROVE  /\ [target EXCEPT !.rows = Put(mode, @, S)] \in Table
             /\ [target EXCEPT !.rows = Put(mode, @, S)].rows \in Bag
  <2>1. [target EXCEPT !.rows = Put(mode, @, S)] \in Table
    BY <1>a, <1>b, TableUpdates
  <2> QED BY <2>1 DEF Table
<1>c. pc # "idle" => /\ stage[token] \in Table /\ old[token] \in Table
                     /\ stage[token].rows \in Bag
  BY HasToken, TableUpdates DEF TrinoInv, TypeOK
<1> USE <1>a, <1>b, <1>c, NoTableType DEF TablesOK, tables, Run
<1>1. CASE BeginRun
  BY <1>1 DEF BeginRun, StartAttempt
<1>2. CASE Retry
  BY <1>2 DEF Retry, StartAttempt
<1>3. CASE EnsureTable
  BY <1>3 DEF EnsureTable, After
<1>4. CASE CheckShape
  BY <1>4 DEF CheckShape, After
<1>5. CASE EnsureUniqueKey
  BY <1>5 DEF EnsureUniqueKey, After
<1>6. CASE CreateStage
  BY <1>6 DEF CreateStage, After, AfterFill
<1>7. CASE InsertBatch
  BY <1>7 DEF InsertBatch, After, AfterFill
<1>8. CASE DropStage
  BY <1>8 DEF DropStage
<1>9. CASE SwapOut
  BY <1>9 DEF SwapOut, After
<1>10. CASE SwapIn
  BY <1>10 DEF SwapIn, After
<1>11. CASE Recover
  BY <1>11 DEF Recover
<1>12. CASE DropOld
  BY <1>12 DEF DropOld, After
<1>13. CASE FinalStatement
  BY <1>13 DEF FinalStatement, After
<1>14. CASE Report
  BY <1>14 DEF Report
<1>15. CASE Crash
  BY <1>15 DEF Crash
<1>16. CASE AlterTable
  BY <1>16 DEF AlterTable
<1>17. CASE UNCHANGED vars
  BY <1>17 DEF vars
<1> QED BY <1>1, <1>2, <1>3, <1>4, <1>5, <1>6, <1>7, <1>8, <1>9, <1>10, <1>11,
           <1>12, <1>13, <1>14, <1>15, <1>16, <1>17
        DEF Next, Program

(* The flag of a clean attempt is one.                                     *)
LEMMA CleanFlag == clean \in BOOLEAN /\ [Next]_vars => clean' \in BOOLEAN
<1> SUFFICES ASSUME clean \in BOOLEAN, [Next]_vars PROVE clean' \in BOOLEAN
  OBVIOUS
<1> USE DEF tables, Run
<1>1. CASE BeginRun
  BY <1>1 DEF BeginRun, StartAttempt
<1>2. CASE Retry
  BY <1>2 DEF Retry, StartAttempt
<1>3. CASE EnsureTable
  BY <1>3 DEF EnsureTable, After
<1>4. CASE CheckShape
  BY <1>4 DEF CheckShape, After
<1>5. CASE EnsureUniqueKey
  BY <1>5 DEF EnsureUniqueKey, After
<1>6. CASE CreateStage
  BY <1>6 DEF CreateStage, After, AfterFill
<1>7. CASE InsertBatch
  BY <1>7 DEF InsertBatch, After, AfterFill
<1>8. CASE DropStage
  BY <1>8 DEF DropStage
<1>9. CASE SwapOut
  BY <1>9 DEF SwapOut, After
<1>10. CASE SwapIn
  BY <1>10 DEF SwapIn, After
<1>11. CASE Recover
  BY <1>11 DEF Recover
<1>12. CASE DropOld
  BY <1>12 DEF DropOld, After
<1>13. CASE FinalStatement
  BY <1>13 DEF FinalStatement, After
<1>14. CASE Report
  BY <1>14 DEF Report
<1>15. CASE Crash
  BY <1>15 DEF Crash
<1>16. CASE AlterTable
  BY <1>16 DEF AlterTable
<1>17. CASE UNCHANGED vars
  BY <1>17 DEF vars
<1> QED BY <1>1, <1>2, <1>3, <1>4, <1>5, <1>6, <1>7, <1>8, <1>9, <1>10, <1>11,
           <1>12, <1>13, <1>14, <1>15, <1>16, <1>17
        DEF Next, Program

(* Every step keeps the variables in their types.                          *)
LEMMA TypeStep == TrinoInv /\ [Next]_vars => TypeOK'
BY RestStep, PrivateStep, TablesStep, CleanFlag
   DEF TrinoInv, TypeOK, RestOK, PrivateOK, TablesOK

(* Only the current attempt's private tables change.                       *)
LEMMA FreshStep == TrinoInv /\ [Next]_vars => FreshInv'
<1> SUFFICES ASSUME TrinoInv, [Next]_vars PROVE FreshInv'
  OBVIOUS
<1>a. /\ MaxAttempts \in Nat /\ token \in 0 .. MaxAttempts /\ Token = 1 .. MaxAttempts
      /\ stage \in [Token -> Table] /\ old \in [Token -> Table]
      /\ FreshInv
  BY TrinoAssumption DEF TrinoInv, TypeOK, Token
<1> USE <1>a DEF tables, Run, Steps, FreshInv
<1>1. CASE BeginRun
  BY <1>1 DEF BeginRun, StartAttempt
<1>2. CASE Retry
  BY <1>2 DEF Retry, StartAttempt
<1>3. CASE EnsureTable
  BY <1>3 DEF EnsureTable, After
<1>4. CASE CheckShape
  BY <1>4 DEF CheckShape, After
<1>5. CASE EnsureUniqueKey
  BY <1>5 DEF EnsureUniqueKey, After
<1>6. CASE CreateStage
  BY <1>6 DEF CreateStage, After, AfterFill
<1>7. CASE InsertBatch
  BY <1>7 DEF InsertBatch, After, AfterFill
<1>8. CASE DropStage
  BY <1>8 DEF DropStage
<1>9. CASE SwapOut
  BY <1>9 DEF SwapOut, After
<1>10. CASE SwapIn
  BY <1>10 DEF SwapIn, After
<1>11. CASE Recover
  BY <1>11 DEF Recover
<1>12. CASE DropOld
  BY <1>12 DEF DropOld, After
<1>13. CASE FinalStatement
  BY <1>13 DEF FinalStatement, After
<1>14. CASE Report
  BY <1>14 DEF Report
<1>15. CASE Crash
  BY <1>15 DEF Crash
<1>16. CASE AlterTable
  BY <1>16 DEF AlterTable
<1>17. CASE UNCHANGED vars
  BY <1>17 DEF vars
<1> QED BY <1>1, <1>2, <1>3, <1>4, <1>5, <1>6, <1>7, <1>8, <1>9, <1>10, <1>11,
           <1>12, <1>13, <1>14, <1>15, <1>16, <1>17
        DEF Next, Program

(* The order of the checks and the statements of each mode.                *)
LEMMA ModeStep == TrinoInv /\ [Next]_vars => ModeInv'
<1> SUFFICES ASSUME TrinoInv, [Next]_vars PROVE ModeInv'
  OBVIOUS
<1>a. ModeInv /\ mode \in Modes
  BY DEF TrinoInv, TypeOK
<1> USE <1>a DEF tables, Run, Steps, ModeInv, Modes
<1>1. CASE BeginRun
  BY <1>1 DEF BeginRun, StartAttempt
<1>2. CASE Retry
  BY <1>2 DEF Retry, StartAttempt
<1>3. CASE EnsureTable
  BY <1>3 DEF EnsureTable, After
<1>4. CASE CheckShape
  BY <1>4 DEF CheckShape, After
<1>5. CASE EnsureUniqueKey
  BY <1>5 DEF EnsureUniqueKey, After
<1>6. CASE CreateStage
  BY <1>6 DEF CreateStage, After, AfterFill
<1>7. CASE InsertBatch
  BY <1>7 DEF InsertBatch, After, AfterFill
<1>8. CASE DropStage
  BY <1>8 DEF DropStage
<1>9. CASE SwapOut
  BY <1>9 DEF SwapOut, After
<1>10. CASE SwapIn
  BY <1>10 DEF SwapIn, After
<1>11. CASE Recover
  BY <1>11 DEF Recover
<1>12. CASE DropOld
  BY <1>12 DEF DropOld, After
<1>13. CASE FinalStatement
  BY <1>13 DEF FinalStatement, After
<1>14. CASE Report
  BY <1>14 DEF Report
<1>15. CASE Crash
  BY <1>15 DEF Crash
<1>16. CASE AlterTable
  BY <1>16 DEF AlterTable
<1>17. CASE UNCHANGED vars
  BY <1>17 DEF vars
<1> QED BY <1>1, <1>2, <1>3, <1>4, <1>5, <1>6, <1>7, <1>8, <1>9, <1>10, <1>11,
           <1>12, <1>13, <1>14, <1>15, <1>16, <1>17
        DEF Next, Program

(* The stage holds the batches inserted so far.                            *)
LEMMA StageStep == TrinoInv /\ [Next]_vars => StageInv'
<1> SUFFICES ASSUME TrinoInv, [Next]_vars PROVE StageInv'
  OBVIOUS
<1>a. /\ MaxAttempts \in Nat /\ token \in 0 .. MaxAttempts /\ Token = 1 .. MaxAttempts
      /\ stage \in [Token -> Table] /\ old \in [Token -> Table] /\ target \in Table
      /\ StageInv /\ FreshInv
      /\ pc # "idle" => token \in Token
      /\ NoRows = Insert(NoRows, data \ data)
  BY TrinoAssumption, HasToken DEF TrinoInv, TypeOK, Token, Insert, NoRows
<1>b. ASSUME NEW batch \in SUBSET left, left \subseteq data
      PROVE  Insert(Insert(NoRows, data \ left), batch) = Insert(NoRows, data \ (left \ batch))
  <2>1. data \ (left \ batch) = (data \ left) \cup batch
    BY <1>b
  <2>2. (data \ left) \in SUBSET Row /\ batch \in SUBSET Row
        /\ (data \ left) \cap batch = {}
    BY <1>b DEF TrinoInv, TypeOK
  <2> QED BY <2>1, <2>2, PutPages, NoRowsType DEF Put
<1>c. \A t \in Token : t > token => stage[t] = NoTable /\ old[t] = NoTable
  BY <1>a DEF FreshInv
<1> USE <1>a, <1>b, <1>c DEF tables, Run, Steps, StageInv, Stage, Old
<1>1. CASE BeginRun
  BY <1>1 DEF BeginRun, StartAttempt
<1>2. CASE Retry
  BY <1>2 DEF Retry, StartAttempt
<1>3. CASE EnsureTable
  BY <1>3 DEF EnsureTable, After
<1>4. CASE CheckShape
  BY <1>4 DEF CheckShape, After
<1>5. CASE EnsureUniqueKey
  BY <1>5 DEF EnsureUniqueKey, After
<1>6. CASE CreateStage
  BY <1>6 DEF CreateStage, After, AfterFill
<1>7. CASE InsertBatch
  <2>1. PICK reply \in Replies, batch \in SUBSET left \ {{}} :
          /\ stage' = IF reply = "refused" THEN stage
                      ELSE [stage EXCEPT ![token].rows = Insert(@, batch)]
          /\ left' = left \ batch
          /\ After(reply, IF left' = {} THEN AfterFill ELSE "fill",
                   "drop_stage_raising")
    BY <1>7 DEF InsertBatch
  <2>2. pc = "fill" /\ UNCHANGED <<token, data, old>> /\ token \in Token
    BY <1>7 DEF InsertBatch
  <2>3. stage[token].exists /\ stage[token].rows = Insert(NoRows, data \ left)
        /\ left \subseteq data /\ old[token] = NoTable
    BY <2>2
  <2>4. CASE reply = "done"
    <3>1. stage'[token] = [stage[token] EXCEPT !.rows = Insert(@, batch)]
      BY <2>1, <2>2, <2>4
    <3>2. stage[token] \in Table
      BY <2>2
    <3>3. stage'[token].exists /\ stage'[token].rows = Insert(NoRows, data \ left')
      <4>1. stage'[token].exists = stage[token].exists
            /\ stage'[token].rows = Insert(stage[token].rows, batch)
        BY <3>1, <3>2 DEF Table
      <4>2. Insert(Insert(NoRows, data \ left), batch)
              = Insert(NoRows, data \ (left \ batch))
        BY <1>b, <2>3
      <4> QED BY <4>1, <4>2, <2>1, <2>3
    <3>4. pc' \in {"fill", "final", "swap_out"} /\ (pc' # "fill" => left' = {})
      BY <2>1, <2>4 DEF After, AfterFill
    <3> QED BY <3>3, <3>4, <2>1, <2>2, <2>3
  <2>5. CASE reply # "done"
    <3>1. pc' = "drop_stage_raising"
      BY <2>1, <2>5 DEF After
    <3> QED BY <3>1, <2>1, <2>2, <2>3
  <2> QED BY <2>4, <2>5
<1>8. CASE DropStage
  BY <1>8 DEF DropStage
<1>9. CASE SwapOut
  BY <1>9 DEF SwapOut, After
<1>10. CASE SwapIn
  BY <1>10 DEF SwapIn, After
<1>11. CASE Recover
  BY <1>11 DEF Recover
<1>12. CASE DropOld
  BY <1>12 DEF DropOld, After
<1>13. CASE FinalStatement
  BY <1>13 DEF FinalStatement, After
<1>14. CASE Report
  BY <1>14 DEF Report
<1>15. CASE Crash
  BY <1>15 DEF Crash
<1>16. CASE AlterTable
  BY <1>16 DEF AlterTable
<1>17. CASE UNCHANGED vars
  BY <1>17 DEF vars
<1> QED BY <1>1, <1>2, <1>3, <1>4, <1>5, <1>6, <1>7, <1>8, <1>9, <1>10, <1>11,
           <1>12, <1>13, <1>14, <1>15, <1>16, <1>17
        DEF Next, Program

(* The rows of a filled stage are the run's rows, each once.               *)
LEMMA StageRows ==
  TrinoInv /\ pc \in {"final", "swap_in"} =>
    /\ stage[token].exists /\ stage[token].rows = Insert(NoRows, data)
    /\ {r \in Row : stage[token].rows[r] > 0} = data
<1> SUFFICES ASSUME TrinoInv, pc \in {"final", "swap_in"}
             PROVE  /\ stage[token].exists
                    /\ stage[token].rows = Insert(NoRows, data)
                    /\ {r \in Row : stage[token].rows[r] > 0} = data
  OBVIOUS
<1>1. left = {} /\ stage[token].exists
      /\ stage[token].rows = Insert(NoRows, data \ left)
  BY DEF TrinoInv, StageInv, Stage
<1>2. stage[token].rows = Insert(NoRows, data)
  BY <1>1
<1>3. \A r \in Row : Insert(NoRows, data)[r] > 0 <=> r \in data
  BY DEF Insert, NoRows
<1>4. data \subseteq Row
  BY DEF TrinoInv, TypeOK
<1> QED BY <1>1, <1>2, <1>3, <1>4

(* The target before and after the write.                                  *)
LEMMA TargetStep == TrinoInv /\ [Next]_vars => TargetInv'
<1> SUFFICES ASSUME TrinoInv, [Next]_vars PROVE TargetInv'
  OBVIOUS
<1>a. TargetInv /\ ModeInv /\ target \in Table /\ mode \in Modes
      /\ NoTable.rows = NoRows /\ ~NoTable.exists
  BY NoTableType DEF TrinoInv, TypeOK
<1>b. ~target.exists => target.rows = NoRows
  BY <1>a DEF Table
<1>c. /\ data = {} => Effect(mode, base, data) = Kept(mode, base)
      /\ mode # "replace" => Kept(mode, base) = base
      /\ Effect(mode, base, data) = Put(mode, Kept(mode, base), data)
  BY PutNothing, NoRowsType DEF TrinoInv, TypeOK, Effect, Kept
<1>d. pc \in {"final", "swap_in"} =>
        /\ stage[token].exists /\ stage[token].rows = Insert(NoRows, data)
        /\ {r \in Row : stage[token].rows[r] > 0} = data
  BY StageRows
<1> USE <1>a, <1>b, <1>c, <1>d DEF tables, Run, Steps, TargetInv, Before, ModeInv, Modes
<1>1. CASE BeginRun
  BY <1>1 DEF BeginRun, StartAttempt
<1>2. CASE Retry
  BY <1>2 DEF Retry, StartAttempt
<1>3. CASE EnsureTable
  BY <1>3 DEF EnsureTable, After
<1>4. CASE CheckShape
  BY <1>4 DEF CheckShape, After
<1>5. CASE EnsureUniqueKey
  BY <1>5 DEF EnsureUniqueKey, After
<1>6. CASE CreateStage
  BY <1>6 DEF CreateStage, After, AfterFill
<1>7. CASE InsertBatch
  BY <1>7 DEF InsertBatch, After, AfterFill
<1>8. CASE DropStage
  BY <1>8 DEF DropStage
<1>9. CASE SwapOut
  BY <1>9 DEF SwapOut, After
<1>10. CASE SwapIn
  BY <1>10 DEF SwapIn, After
<1>11. CASE Recover
  BY <1>11 DEF Recover
<1>12. CASE DropOld
  BY <1>12 DEF DropOld, After
<1>13. CASE FinalStatement
  BY <1>13 DEF FinalStatement, After
<1>14. CASE Report
  BY <1>14 DEF Report
<1>15. CASE Crash
  BY <1>15 DEF Crash
<1>16. CASE AlterTable
  BY <1>16 DEF AlterTable
<1>17. CASE UNCHANGED vars
  BY <1>17 DEF vars
<1> QED BY <1>1, <1>2, <1>3, <1>4, <1>5, <1>6, <1>7, <1>8, <1>9, <1>10, <1>11,
           <1>12, <1>13, <1>14, <1>15, <1>16, <1>17
        DEF Next, Program

(* What a clean attempt leaves behind.                                     *)
LEMMA CleanStep == TrinoInv /\ [Next]_vars => CleanInv'
<1> SUFFICES ASSUME TrinoInv, [Next]_vars PROVE CleanInv'
  OBVIOUS
<1>a. /\ stage \in [Token -> Table] /\ old \in [Token -> Table] /\ ~NoTable.exists
      /\ pc # "idle" => token \in Token
      /\ pc \in {"unique", "drop_stage", "drop_old"} => target.exists
      /\ pc \in {"check", "unique"} => stage[token] = NoTable
      /\ pc \in {"check", "unique", "drop_stage"} => old[token] = NoTable
      /\ pc = "drop_old" => stage[token] = NoTable
      /\ CleanInv
  BY HasToken, NoTableType DEF TrinoInv, TypeOK, TargetInv, StageInv, Stage, Old
<1> USE <1>a DEF tables, Run, CleanInv, Stage, Old
<1>1. CASE BeginRun
  BY <1>1 DEF BeginRun, StartAttempt
<1>2. CASE Retry
  BY <1>2 DEF Retry, StartAttempt
<1>3. CASE EnsureTable
  BY <1>3 DEF EnsureTable, After
<1>4. CASE CheckShape
  BY <1>4 DEF CheckShape, After
<1>5. CASE EnsureUniqueKey
  BY <1>5 DEF EnsureUniqueKey, After
<1>6. CASE CreateStage
  BY <1>6 DEF CreateStage, After, AfterFill
<1>7. CASE InsertBatch
  BY <1>7 DEF InsertBatch, After, AfterFill
<1>8. CASE DropStage
  BY <1>8 DEF DropStage
<1>9. CASE SwapOut
  BY <1>9 DEF SwapOut, After
<1>10. CASE SwapIn
  BY <1>10 DEF SwapIn, After
<1>11. CASE Recover
  BY <1>11 DEF Recover
<1>12. CASE DropOld
  BY <1>12 DEF DropOld, After
<1>13. CASE FinalStatement
  BY <1>13 DEF FinalStatement, After
<1>14. CASE Report
  BY <1>14 DEF Report
<1>15. CASE Crash
  BY <1>15 DEF Crash
<1>16. CASE AlterTable
  BY <1>16 DEF AlterTable
<1>17. CASE UNCHANGED vars
  BY <1>17 DEF vars
<1> QED BY <1>1, <1>2, <1>3, <1>4, <1>5, <1>6, <1>7, <1>8, <1>9, <1>10, <1>11,
           <1>12, <1>13, <1>14, <1>15, <1>16, <1>17
        DEF Next, Program

(* Where the rows of the last finished write are.                          *)
LEMMA GoodStep == TrinoInv /\ [Next]_vars => GoodInv'
<1> SUFFICES ASSUME TrinoInv, [Next]_vars PROVE GoodInv'
  OBVIOUS
<1>a. /\ stage \in [Token -> Table] /\ old \in [Token -> Table] /\ target \in Table
      /\ NoTable.rows = NoRows /\ ~NoTable.exists /\ GoodInv
      /\ pc # "idle" => token \in Token
  BY HasToken, NoTableType DEF TrinoInv, TypeOK
<1>b. ~target.exists => target.rows = NoRows
  BY <1>a DEF Table
<1>c. /\ pc = "swap_in" => ~target.exists
      /\ pc = "swap_out" => old[token] = NoTable
      /\ pc = "swap_in" => stage[token].exists
      /\ pc # "drop_old" \/ target.rows = good
  BY <1>a DEF TrinoInv, TargetInv, StageInv, Stage, Old, GoodInv
<1> USE <1>a, <1>b, <1>c DEF tables, Run, GoodInv, NeverPartial, RowsNeverLost, Old
<1>1. CASE BeginRun
  BY <1>1 DEF BeginRun, StartAttempt
<1>2. CASE Retry
  BY <1>2 DEF Retry, StartAttempt
<1>3. CASE EnsureTable
  BY <1>3 DEF EnsureTable, After
<1>4. CASE CheckShape
  BY <1>4 DEF CheckShape, After
<1>5. CASE EnsureUniqueKey
  BY <1>5 DEF EnsureUniqueKey, After
<1>6. CASE CreateStage
  BY <1>6 DEF CreateStage, After, AfterFill
<1>7. CASE InsertBatch
  BY <1>7 DEF InsertBatch, After, AfterFill
<1>8. CASE DropStage
  BY <1>8 DEF DropStage
<1>9. CASE SwapOut
  BY <1>9 DEF SwapOut, After
<1>10. CASE SwapIn
  BY <1>10 DEF SwapIn, After
<1>11. CASE Recover
  BY <1>11 DEF Recover
<1>12. CASE DropOld
  BY <1>12 DEF DropOld, After
<1>13. CASE FinalStatement
  BY <1>13 DEF FinalStatement, After
<1>14. CASE Report
  BY <1>14 DEF Report
<1>15. CASE Crash
  BY <1>15 DEF Crash
<1>16. CASE AlterTable
  BY <1>16 DEF AlterTable
<1>17. CASE UNCHANGED vars
  BY <1>17 DEF vars
<1> QED BY <1>1, <1>2, <1>3, <1>4, <1>5, <1>6, <1>7, <1>8, <1>9, <1>10, <1>11,
           <1>12, <1>13, <1>14, <1>15, <1>16, <1>17
        DEF Next, Program

(* A retry of an upsert starts where the run started or where it ends.     *)
LEMMA RunStep == TrinoInv /\ [Next]_vars => RunInv'
<1> SUFFICES ASSUME TrinoInv, [Next]_vars PROVE RunInv'
  OBVIOUS
<1>a. RunInv /\ ModeInv /\ target \in Table /\ NoTable.rows = NoRows
  BY NoTableType DEF TrinoInv, TypeOK
<1>b. ~target.exists => target.rows = NoRows
  BY <1>a DEF Table
<1>c. mode = "upsert" =>
        Effect(mode, Effect(mode, origin, data), data) = Effect(mode, origin, data)
  BY EffectIdempotent DEF TrinoInv, TypeOK
<1>d. /\ pc = "report" /\ mode # "replace" => target.rows = Effect(mode, base, data)
      /\ pc = "final" => target.rows = base
      /\ pc = "final" => {r \in Row : stage[token].rows[r] > 0} = data
      /\ mode # "replace" => Effect(mode, base, data) = Put(mode, base, data)
  BY StageRows DEF TrinoInv, TargetInv, Before, Effect, Kept
<1> USE <1>a, <1>b, <1>c, <1>d DEF tables, Run, RunInv, ModeInv
<1>1. CASE BeginRun
  BY <1>1 DEF BeginRun, StartAttempt
<1>2. CASE Retry
  BY <1>2 DEF Retry, StartAttempt
<1>3. CASE EnsureTable
  BY <1>3 DEF EnsureTable, After
<1>4. CASE CheckShape
  BY <1>4 DEF CheckShape, After
<1>5. CASE EnsureUniqueKey
  BY <1>5 DEF EnsureUniqueKey, After
<1>6. CASE CreateStage
  BY <1>6 DEF CreateStage, After, AfterFill
<1>7. CASE InsertBatch
  BY <1>7 DEF InsertBatch, After, AfterFill
<1>8. CASE DropStage
  BY <1>8 DEF DropStage
<1>9. CASE SwapOut
  BY <1>9 DEF SwapOut, After
<1>10. CASE SwapIn
  BY <1>10 DEF SwapIn, After
<1>11. CASE Recover
  BY <1>11 DEF Recover
<1>12. CASE DropOld
  BY <1>12 DEF DropOld, After
<1>13. CASE FinalStatement
  BY <1>13 DEF FinalStatement, After
<1>14. CASE Report
  BY <1>14 DEF Report
<1>15. CASE Crash
  BY <1>15 DEF Crash
<1>16. CASE AlterTable
  BY <1>16 DEF AlterTable
<1>17. CASE UNCHANGED vars
  BY <1>17 DEF vars
<1> QED BY <1>1, <1>2, <1>3, <1>4, <1>5, <1>6, <1>7, <1>8, <1>9, <1>10, <1>11,
           <1>12, <1>13, <1>14, <1>15, <1>16, <1>17
        DEF Next, Program

(* Before the first run.                                                   *)
LEMMA TrinoInit == Init => TrinoInv
<1> SUFFICES ASSUME Init PROVE TrinoInv
  OBVIOUS
<1>1. target \in Table
  BY NoTableType, TrinoAssumption DEF Init, Table
<1>2. target.rows \in Bag
  BY <1>1 DEF Table
<1>3. TypeOK
  BY <1>1, <1>2, NoTableType, TrinoAssumption DEF Init, TypeOK, Modes
<1> QED BY <1>3
        DEF Init, TrinoInv, FreshInv, ModeInv, StageInv, TargetInv, Before, CleanInv,
            GoodInv, NeverPartial, RowsNeverLost, RunInv

(* The conjunction of all of this is an invariant of every run.            *)
LEMMA TrinoInvariant == Spec => []TrinoInv
<1>1. TrinoInv /\ [Next]_vars => TrinoInv'
  BY TypeStep, FreshStep, ModeStep, StageStep, TargetStep, CleanStep, GoodStep, RunStep
     DEF TrinoInv
<1> QED BY TrinoInit, <1>1, PTL DEF Spec

-----------------------------------------------------------------------------
(* Every variable stays in its type.                                       *)
THEOREM TypeCorrect == Spec => []TypeOK
<1>1. TrinoInv => TypeOK
  BY DEF TrinoInv
<1> QED BY TrinoInvariant, <1>1, PTL

(* A replace shows the rows of a finished write or no rows, never a part.  *)
THEOREM NeverPartialHolds == Spec => []NeverPartial
<1>1. TrinoInv => NeverPartial
  BY DEF TrinoInv, GoodInv
<1> QED BY TrinoInvariant, <1>1, PTL

(* No sequence of failures, lost replies, crashes and retries of any       *)
(* length drops the rows of the last finished write.                       *)
THEOREM RowsNeverLostHolds == Spec => []RowsNeverLost
<1>1. TrinoInv => RowsNeverLost
  BY DEF TrinoInv, GoodInv
<1> QED BY TrinoInvariant, <1>1, PTL

(* A successful attempt without a failed statement leaves no private table *)
(* behind it.                                                              *)
THEOREM CleanAttemptHolds == Spec => []CleanAttemptLeavesNothing
<1>1. TrinoInv => CleanAttemptLeavesNothing
  BY DEF TrinoInv, CleanInv, Stage, Old, CleanAttemptLeavesNothing
<1> QED BY TrinoInvariant, <1>1, PTL

(* The contract speaks of the same rows and the same effect.               *)
LEMMA SameRows ==
  /\ Contract!Row = Row /\ Contract!Bag = Bag /\ Contract!Modes = Modes
  /\ \A S : Contract!UniqueKeys(S) <=> UniqueKeys(S)
  /\ \A m, b, S : Contract!Effect(m, b, S) = Effect(m, b, S)
<1>1. Contract!Row = Row
  BY DEF Row, Contract!Row
<1>2. Contract!Bag = Bag
  BY <1>1 DEF Bag, Contract!Bag
<1>3. ASSUME NEW S PROVE Contract!UniqueKeys(S) <=> UniqueKeys(S)
  BY DEF UniqueKeys, Contract!UniqueKeys
<1>4. ASSUME NEW m, NEW b, NEW S
      PROVE  Contract!Effect(m, b, S) = Effect(m, b, S)
  BY <1>1 DEF Effect, Put, Merge, Insert, Kept, NoRows, KeysOf,
         Contract!Effect, Contract!Put, Contract!Merge, Contract!Insert,
         Contract!Kept, Contract!NoRows, Contract!KeysOf
<1> QED BY <1>1, <1>2, <1>3, <1>4 DEF Modes, Contract!Modes

(* In append and upsert the final statement is Apply, the report is        *)
(* Succeed, whatever fails is Fail, and no other step shows.               *)
LEMMA ContractStep ==
  TrinoInv /\ [Next]_vars /\ mode # "replace" => [Contract!Next]_(Contract!vars)
<1> SUFFICES ASSUME TrinoInv, [Next]_vars, mode # "replace"
             PROVE  Contract!Next \/ UNCHANGED Contract!vars
  OBVIOUS
<1>a. /\ target \in Table /\ NoTable.rows = NoRows /\ data \in SUBSET Row
      /\ ModeInv /\ pc \in Steps \cup {"idle", "ok", "failed"}
  BY NoTableType DEF TrinoInv, TypeOK
<1>b. ~target.exists => target.rows = NoRows
  BY <1>a DEF Table
<1>c. /\ pc \in Before => target.rows = base
      /\ pc = "report" => target.rows = Effect(mode, base, data)
      /\ pc = "final" => {r \in Row : stage[token].rows[r] > 0} = data
      /\ Effect(mode, base, data) = Put(mode, base, data)
  BY StageRows DEF TrinoInv, TargetInv, Effect, Kept
<1> USE SameRows, <1>a, <1>b, <1>c
    DEF Phase, Steps, Before, ModeInv, tables, Run, Contract!Next, Contract!vars
<1>1. CASE BeginRun
  BY <1>1, TrinoAssumption DEF BeginRun, StartAttempt, Contract!BeginRun
<1>2. CASE Retry
  BY <1>2 DEF Retry, StartAttempt, Contract!Retry
<1>3. CASE EnsureTable
  BY <1>3 DEF EnsureTable, After, Contract!Fail
<1>4. CASE CheckShape
  BY <1>4 DEF CheckShape, After, Contract!Fail
<1>5. CASE EnsureUniqueKey
  BY <1>5 DEF EnsureUniqueKey, After, Contract!Fail
<1>6. CASE CreateStage
  BY <1>6 DEF CreateStage, After, AfterFill, Contract!Fail
<1>7. CASE InsertBatch
  BY <1>7 DEF InsertBatch, After, AfterFill
<1>8. CASE DropStage
  BY <1>8 DEF DropStage, Contract!Fail
<1>9. CASE SwapOut
  BY <1>9 DEF SwapOut, After
<1>10. CASE SwapIn
  BY <1>10 DEF SwapIn, After
<1>11. CASE Recover
  BY <1>11 DEF Recover
<1>12. CASE DropOld
  BY <1>12 DEF DropOld, After
<1>13. CASE FinalStatement
  BY <1>13 DEF FinalStatement, After, Contract!Apply
<1>14. CASE Report
  BY <1>14 DEF Report, Contract!Succeed
<1>15. CASE Crash
  BY <1>15 DEF Crash, Contract!Fail
<1>16. CASE AlterTable
  BY <1>16 DEF AlterTable
<1>17. CASE UNCHANGED vars
  BY <1>17 DEF vars
<1> QED BY <1>1, <1>2, <1>3, <1>4, <1>5, <1>6, <1>7, <1>8, <1>9, <1>10, <1>11,
           <1>12, <1>13, <1>14, <1>15, <1>16, <1>17
        DEF Next, Program

(* TrinoAdapter implements TargetWrite in its append and upsert runs.      *)
THEOREM Refinement == Spec => KeepsContract
<1>1. Init => Contract!Init
  <2> SUFFICES ASSUME Init PROVE Contract!Init
    OBVIOUS
  <2>1. target.rows \in Bag
    BY TrinoInit DEF TrinoInv, TypeOK, Table
  <2>2. Phase = "idle"
    BY DEF Init, Phase, Steps
  <2> QED BY <2>1, <2>2, SameRows DEF Init, Contract!Init, Modes
<1>2. TrinoInv /\ [Next]_vars
        => [mode # "replace" => Contract!Next]_(Contract!vars)
  BY ContractStep
<1> QED BY <1>1, <1>2, TrinoInvariant, PTL DEF Spec, KeepsContract

(* A replace or upsert run that ends in success leaves what one attempt    *)
(* would have left.                                                        *)
THEOREM RetrySafeHolds == Spec => []RetrySafe
<1>1. TrinoInv => RetrySafe
  <2> SUFFICES ASSUME TrinoInv, Contract!Idempotent, Phase = "ok"
               PROVE  target.rows = Effect(mode, origin, data)
    BY SameRows DEF RetrySafe, Contract!RetrySafe
  <2>1. pc = "ok"
    BY DEF Phase, Steps
  <2>2. CASE mode = "upsert"
    BY <2>1, <2>2 DEF TrinoInv, RunInv
  <2>3. CASE mode = "replace"
    BY <2>1, <2>3 DEF TrinoInv, TargetInv, Effect, Kept, Put
  <2> QED BY <2>2, <2>3 DEF Contract!Idempotent
<1> QED BY TrinoInvariant, <1>1, PTL
=============================================================================
