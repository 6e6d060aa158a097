---------------------------- MODULE HarnessProofs ----------------------------
(* run_node for every contract, every set of reads and any number of       *)
(* rewrites of the inputs.  The safety properties of Harness do not talk   *)
(* about the steps between the raise and the block, so none is inductive;  *)
(* HarnessInv adds what run_node knows at each of its calls.               *)
EXTENDS Harness, FiniteSetTheorems, TLAPS

(* While a call of run_node is under way nothing was raised or printed.    *)
Busy == Calls \ {"report", "close", "exited"}

AfterConfig == Busy \ {"contract", "adapter", "config"}
AfterWriter == AfterConfig \ {"writer"}

(* A memoized read was fetched once and is all the script was given.       *)
MemoInv ==
  \A r \in Reads :
    IF memo[r] = None THEN seen[r] = {} /\ fetched[r] = 0
    ELSE seen[r] \subseteq {memo[r]} /\ fetched[r] = 1

(* The block printed is the one of the exception that was raised.          *)
BlockInv ==
  /\ pc \in Busy => raised = "none"
  /\ pc = "report" => raised # "none"
  /\ pc \notin {"close", "exited"} => blocks = <<>> /\ code = "running"
  /\ pc \in {"close", "exited"} =>
       \/ /\ code = "0" /\ raised = "none"
          /\ blocks = <<[status |-> "success", class |-> "none"]>>
       \/ /\ code = "1" /\ raised \in Errors \ {"Exit"}
          /\ blocks = <<[status |-> "error",
                         class |-> IF raised = "Other" THEN "ScriptError"
                                   ELSE raised]>>
       \/ /\ code = "exit" /\ raised # "none" /\ blocks = <<>>
          /\ raised = "Exit" \/ unprinted

(* The table is touched late, and what is raised after that says so.       *)
TableInv ==
  /\ pc \in {"ensure", "shape", "write", "success"} => conformed
  /\ touched =>
       /\ conformed
       /\ pc \in {"shape", "write", "success", "report", "close", "exited"}
       /\ raised \in {"none", "LoadError", "ConformError"} \/ unprinted
  /\ pc = "success" => wrote = "yes"
  /\ pc \in {"close", "exited"} /\ raised = "none" => wrote = "yes"
  /\ wrote = "yes" => \/ pc \in {"success", "close", "exited"} /\ raised = "none"
                      \/ unprinted
  /\ wrote = "maybe" => raised = "LoadError"

(* What the two early checks of run_node established.                      *)
CostInv ==
  /\ pc \in AfterConfig => (node.tripwire => node.configOk)
  /\ pc \in AfterWriter => (node.mode = "replace" \/ node.capable)
  /\ ran => (node.tripwire => node.configOk)
  /\ ran \/ touched => (node.mode = "replace" \/ node.capable)
  /\ pc \in {"shape", "write", "success"} \/ wrote # "no" => node.configOk

(* close is called in the finally block and nowhere else.                  *)
CloseInv ==
  IF pc = "exited" THEN closes = (IF adapter = "none" THEN 0 ELSE 1)
  ELSE closes = 0 /\ adapter # "closed"

HarnessInv == /\ TypeOK /\ MemoInv /\ BlockInv
              /\ TableInv /\ CostInv /\ CloseInv

-----------------------------------------------------------------------------
(* Every step of run_node, of the script and of other nodes keeps the      *)
(* invariant.                                                              *)
LEMMA HarnessStep == HarnessInv /\ [Next]_vars => HarnessInv'
<1> SUFFICES ASSUME HarnessInv, [Next]_vars PROVE HarnessInv'
  OBVIOUS
<1> USE HarnessAssumption
    DEF HarnessInv, TypeOK, MemoInv, BlockInv, TableInv, CostInv, CloseInv,
        HarnessErrors, Errors, Calls, Busy, AfterConfig, AfterWriter, Blocks,
        Version, outcome, script, table
<1>1. CASE LoadContract
  BY <1>1 DEF LoadContract, Return, Raise
<1>2. CASE BuildAdapter
  BY <1>2 DEF BuildAdapter, Return, Raise, Wrap
<1>3. CASE ValidateConfigEarly
  BY <1>3 DEF ValidateConfigEarly, Return, Raise, Wrap
<1>4. CASE WriterFor
  BY <1>4 DEF WriterFor, Return, Raise
<1>5. CASE LoadScript
  <2>1. CASE Return("import", "script") /\ ran' = TRUE
    BY <1>5, <2>1 DEF LoadScript, Return
  <2>2. CASE Raise("import", {"ContractError"}) /\ UNCHANGED ran
    BY <1>5, <2>2 DEF LoadScript, Raise
  <2>3. CASE Raise("import", {"ScriptError", "Exit"}) /\ ran' = TRUE
    BY <1>5, <2>3 DEF LoadScript, Raise
  <2> QED BY <1>5, <2>1, <2>2, <2>3 DEF LoadScript
<1>6. CASE ScriptEnds
  BY <1>6 DEF ScriptEnds, Return, Raise, Wrap
<1>7. CASE ToArrow
  BY <1>7 DEF ToArrow, Return, Raise
<1>8. CASE ProduceCsv
  BY <1>8 DEF ProduceCsv, Return, Raise
<1>9. CASE Conform
  <2>1. CASE Return("conform", "ensure") /\ conformed' = TRUE
    BY <1>9, <2>1 DEF Conform, Return
  <2>2. CASE Raise("conform", {"ConformError", "Other"}) /\ UNCHANGED conformed
    BY <1>9, <2>2 DEF Conform, Raise
  <2> QED BY <1>9, <2>1, <2>2 DEF Conform
<1>10. CASE EnsureTable
  BY <1>10 DEF EnsureTable, Return, Raise, Wrap
<1>11. CASE CheckShape
  BY <1>11 DEF CheckShape, Return, Raise, Wrap
<1>12. CASE Write
  BY <1>12 DEF Write, Return, Raise, Wrap
<1>13. CASE PrintSuccess
  <2>1. CASE Return("success", "close") /\ UNCHANGED unprinted
    <3>1. /\ pc = "success" /\ pc' = "close" /\ code' = "0"
          /\ blocks' = <<[status |-> "success", class |-> "none"]>>
          /\ UNCHANGED <<node, raised, world, adapter, closes, unprinted, script, table>>
      BY <1>13, <2>1 DEF PrintSuccess, Return, Raise, PrintBlock
    <3>2. TypeOK'
      BY <3>1
    <3>3. MemoInv' /\ BlockInv'
      BY <3>1
    <3>4. TableInv' /\ CostInv' /\ CloseInv'
      BY <3>1
    <3> QED BY <3>2, <3>3, <3>4
  <2>2. CASE Raise("success", {"Other"}) /\ unprinted' = TRUE /\ UNCHANGED <<blocks, code>>
    <3>1. /\ pc = "success" /\ pc' = "report" /\ raised' = "Other" /\ unprinted' = TRUE
          /\ UNCHANGED <<node, world, adapter, closes, blocks, code, script, table>>
      BY <1>13, <2>2 DEF PrintSuccess, Raise
    <3>2. TypeOK'
      BY <3>1
    <3>3. MemoInv' /\ BlockInv'
      BY <3>1
    <3>4. TableInv' /\ CostInv' /\ CloseInv'
      BY <3>1
    <3> QED BY <3>2, <3>3, <3>4
  <2> QED BY <1>13, <2>1, <2>2 DEF PrintSuccess
<1>14. CASE ReportError
  <2>0. /\ pc = "report" /\ pc' = "close" /\ UNCHANGED raised
        /\ UNCHANGED <<node, world, adapter, closes, script, table>>
    BY <1>14 DEF ReportError, Return
  <2>1. CASE code' = "exit" /\ UNCHANGED blocks
    <3>1. \/ raised = "Exit" /\ UNCHANGED unprinted
          \/ unprinted' = TRUE
      BY <1>14, <2>1 DEF ReportError
    <3>2. TypeOK'
      BY <2>0, <2>1, <3>1
    <3>3. MemoInv' /\ BlockInv'
      BY <2>0, <2>1, <3>1
    <3>4. TableInv' /\ CostInv' /\ CloseInv'
      BY <2>0, <2>1, <3>1
    <3> QED BY <3>2, <3>3, <3>4
  <2>2. CASE ~(code' = "exit" /\ UNCHANGED blocks)
    <3> DEFINE c == IF raised = "Other" THEN "ScriptError" ELSE raised
    <3>1. c \in HarnessErrors
      BY <1>14, <2>2 DEF ReportError, Return
    <3>2. blocks' = <<[status |-> "error", class |-> c]>>
      BY <1>14, <2>2 DEF ReportError, Return, PrintBlock
    <3>3. blocks' \in Seq(Blocks)
      BY <3>1, <3>2
    <3> QED BY <1>14, <2>2, <3>2, <3>3 DEF ReportError, Return
  <2> QED BY <2>1, <2>2
<1>15. CASE CloseAdapter
  BY <1>15 DEF CloseAdapter, Return
<1>16. CASE ScriptPrints
  BY <1>16 DEF ScriptPrints, Redirected, InScript
<1>17. CASE InputsChange
  BY <1>17 DEF InputsChange
<1>18. ASSUME NEW r \in Reads, ReadMemoized(r) PROVE HarnessInv'
  BY <1>18 DEF ReadMemoized, InScript
<1>19. ASSUME NEW r \in Reads, ReadFetched(r) PROVE HarnessInv'
  BY <1>19 DEF ReadFetched, InScript, None
<1>20. ASSUME NEW name \in Names, ReadFails(name) PROVE HarnessInv'
  BY <1>20 DEF ReadFails, InScript, Return, Raise
<1>21. CASE UNCHANGED vars
  BY <1>21 DEF vars
<1> QED BY <1>1, <1>2, <1>3, <1>4, <1>5, <1>6, <1>7, <1>8, <1>9, <1>10, <1>11, <1>12, <1>13, <1>14, <1>15, <1>16, <1>17, <1>18, <1>19, <1>20, <1>21
        DEF Next, Progress, ScriptReads

(* run_node starts in the invariant: nothing ran, nothing was read.        *)
LEMMA HarnessInit == Init => HarnessInv
<1> SUFFICES ASSUME Init PROVE HarnessInv
  OBVIOUS
<1>1. TypeOK
  <2>1. 0 \in Version
    BY HarnessAssumption DEF Version
  <2>2. blocks \in Seq(Blocks)
    BY DEF Init
  <2> QED BY <2>1, <2>2 DEF Init, TypeOK, Calls, Errors
<1>2. MemoInv
  BY DEF Init, MemoInv
<1>3. BlockInv /\ TableInv /\ CostInv /\ CloseInv
  BY DEF Init, BlockInv, TableInv, CostInv, CloseInv, Busy, AfterConfig,
         AfterWriter, Calls
<1> QED BY <1>1, <1>2, <1>3 DEF HarnessInv

(* Whatever the script, the engine and other nodes do, run_node stays in   *)
(* the invariant.                                                          *)
THEOREM HarnessInvariant == Spec => []HarnessInv
BY HarnessInit, HarnessStep, PTL DEF Spec

-----------------------------------------------------------------------------
(* The state of run_node keeps its types, in particular only HarnessErrors *)
(* appear in a block.                                                      *)
THEOREM TypeCorrect == Spec => []TypeOK
<1>1. HarnessInv => TypeOK
  BY DEF HarnessInv
<1> QED BY <1>1, HarnessInvariant, PTL

(* A run that returns printed one block, which agrees with its return code *)
(* and with the write.                                                     *)
THEOREM ReportAgreement == Spec => []ReportAgrees
<1>1. HarnessInv => ReportAgrees
  <2> SUFFICES ASSUME HarnessInv, pc = "exited", code # "exit"
               PROVE  /\ Len(blocks) = 1
                      /\ blocks[1].status = "success" <=> code = "0"
                      /\ code = "0" => wrote = "yes"
                      /\ wrote = "yes" => code = "0" \/ unprinted
    BY DEF ReportAgrees
  <2>1. code \in {"0", "1"} /\ (code = "0" <=> raised = "none")
    BY DEF HarnessInv, BlockInv, Errors, HarnessErrors
  <2>2. \E b : blocks = <<b>> /\ (b.status = "success" <=> code = "0")
    BY DEF HarnessInv, BlockInv
  <2>3. /\ code = "0" => wrote = "yes"
        /\ wrote = "yes" => code = "0" \/ unprinted
    BY <2>1 DEF HarnessInv, TableInv
  <2> QED BY <2>2, <2>3
<1> QED BY <1>1, HarnessInvariant, PTL

(* The class in an error block tells whether the table may have changed.   *)
THEOREM ErrorClassSound == Spec => []ErrorClassTellsTheTable
<1>1. HarnessInv => ErrorClassTellsTheTable
  <2> SUFFICES ASSUME HarnessInv, NEW i \in DOMAIN blocks,
                      blocks[i].status = "error", ~unprinted
               PROVE  /\ blocks[i].class # "LoadError" => wrote = "no"
                      /\ touched => blocks[i].class \in {"LoadError", "ConformError"}
    BY DEF ErrorClassTellsTheTable
  <2> DEFINE c == IF raised = "Other" THEN "ScriptError" ELSE raised
  <2>1. pc \in {"close", "exited"}
    BY DEF HarnessInv, BlockInv
  <2>2. raised # "none" /\ blocks = <<[status |-> "error", class |-> c]>>
    BY <2>1 DEF HarnessInv, BlockInv, Errors, HarnessErrors
  <2>3. blocks[i].class = c
    BY <2>2
  <2>4. wrote # "yes" /\ (wrote = "maybe" => c = "LoadError")
    BY <2>1, <2>2 DEF HarnessInv, TableInv
  <2>5. touched => c \in {"LoadError", "ConformError"}
    BY <2>2 DEF HarnessInv, TableInv
  <2> QED BY <2>3, <2>4, <2>5 DEF HarnessInv, TypeOK
<1> QED BY <1>1, HarnessInvariant, PTL

(* A run that cannot succeed is stopped before its script or its DDL.      *)
THEOREM EarlyRejection == Spec => []RejectedBeforeItCosts
<1>1. HarnessInv => RejectedBeforeItCosts
  BY DEF HarnessInv, TableInv, CostInv, RejectedBeforeItCosts
<1> QED BY <1>1, HarnessInvariant, PTL

(* A script is given one version of each input, fetched once, however      *)
(* often the inputs are rewritten.                                         *)
THEOREM OneVersionPerRead == Spec => []RepeatableReads
<1>1. HarnessInv => RepeatableReads
  <2> SUFFICES ASSUME HarnessInv, NEW r \in Reads
               PROVE  Cardinality(seen[r]) <= 1 /\ fetched[r] <= 1
    BY DEF RepeatableReads
  <2>1. fetched[r] <= 1 /\ (seen[r] = {} \/ seen[r] = {memo[r]})
    BY DEF HarnessInv, MemoInv
  <2>2. Cardinality({}) = 0 /\ Cardinality({memo[r]}) = 1
    BY FS_EmptySet, FS_Singleton
  <2> QED BY <2>1, <2>2
<1> QED BY <1>1, HarnessInvariant, PTL

(* The adapter that was built is closed exactly once on every path.        *)
THEOREM ClosedExactlyOnce == Spec => []AdapterClosedOnce
<1>1. HarnessInv => AdapterClosedOnce
  BY DEF HarnessInv, CloseInv, AdapterClosedOnce
<1> QED BY <1>1, HarnessInvariant, PTL
=============================================================================
