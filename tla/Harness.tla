------------------------------- MODULE Harness -------------------------------
(***************************************************************************)
(* harness.run_node: one container runs one node.  The steps are the calls *)
(* of run_node in their order; each either goes on or raises, and what it  *)
(* raises is wrapped the way the code around the call wraps it before it   *)
(* reaches the except clauses of run_node.  The node's script is an actor  *)
(* of its own from its import until what it returned is converted: it      *)
(* prints, reads declared inputs through RunContext in any order while     *)
(* other nodes rewrite them, catches or passes on the errors of its reads, *)
(* raises, or calls sys.exit.                                              *)
(***************************************************************************)
EXTENDS Naturals, Sequences, FiniteSets

CONSTANTS
  Reads,        \* names the node's contract declares under reads:
  Names,        \* names the script asks for; some may be undeclared
  MaxWorld      \* bound: rewrites of the inputs by other nodes

ASSUME HarnessAssumption == Reads \subseteq Names /\ MaxWorld \in Nat

HarnessErrors ==
  {"ContractError", "ReadError", "ScriptError", "ConformError", "LoadError"}

(* Other: an Exception that is no HarnessError; Exit: the SystemExit of a  *)
(* script's sys.exit, which no except clause of run_node names.            *)
Errors == HarnessErrors \cup {"Other", "Exit"}

None == 0 - 1   \* a read that is not memoized

Node == {n \in [kind : {"python-node", "python-api", "python-csv"},
                mode : {"replace", "append", "upsert"},
                capable : BOOLEAN,      \* the adapter supports the mode
                tripwire : BOOLEAN,     \* it provides validate_config
                configOk : BOOLEAN] :   \* it accepts the node's config
           n.kind = "python-csv" => n.mode = "replace"}

Blocks == [status : {"success", "error"}, class : HarnessErrors \cup {"none"}]

VARIABLES
  node,       \* the node selected from the contract
  pc,         \* the next call of run_node
  raised,     \* the exception on its way to run_node's except clauses
  adapter,    \* none, open, closed
  memo,       \* RunContext._memo
  world,      \* version of the node's inputs in the warehouse
  blocks,     \* result blocks printed to stdout
  code,       \* how the process ends: a return code, or the exception itself
  \* history
  closes,     \* calls of adapter.close
  seen,       \* versions the script was given under each read name
  fetched,    \* successful fetches of each read
  stray,      \* calls during which script output reached the real stdout
  unprinted,  \* a print to the real stdout failed
  ran,        \* code of the script was executed
  conformed,  \* conform returned
  touched,    \* ensure_table was called
  wrote       \* no, maybe (the write raised), yes (it returned)

vars == <<node, pc, raised, adapter, memo, world, blocks, code, closes, seen,
          fetched, stray, unprinted, ran, conformed, touched, wrote>>

outcome == <<adapter, blocks, code, closes, unprinted>>
script  == <<memo, seen, fetched, stray, ran>>
table   == <<conformed, touched, wrote>>

Calls == {"contract", "adapter", "config", "writer", "import", "script",
          "to_arrow", "csv", "conform", "ensure", "shape", "write", "success",
          "report", "close", "exited"}

Version == 0 .. MaxWorld

TypeOK ==
  /\ node \in Node
  /\ pc \in Calls
  /\ raised \in Errors \cup {"none"}
  /\ adapter \in {"none", "open", "closed"}
  /\ memo \in [Reads -> Version \cup {None}]
  /\ world \in Version
  /\ blocks \in Seq(Blocks)
  /\ code \in {"running", "0", "1", "exit"}
  /\ closes \in Nat
  /\ seen \in [Reads -> SUBSET Version]
  /\ fetched \in [Reads -> Nat]
  /\ stray \in SUBSET Calls /\ unprinted \in BOOLEAN
  /\ ran \in BOOLEAN /\ conformed \in BOOLEAN /\ touched \in BOOLEAN
  /\ wrote \in {"no", "maybe", "yes"}

Init ==
  /\ node \in Node
  /\ pc = "contract" /\ raised = "none" /\ adapter = "none"
  /\ memo = [r \in Reads |-> None] /\ world = 0
  /\ blocks = <<>> /\ code = "running" /\ closes = 0
  /\ seen = [r \in Reads |-> {}] /\ fetched = [r \in Reads |-> 0]
  /\ stray = {} /\ unprinted = FALSE /\ ran = FALSE
  /\ conformed = FALSE /\ touched = FALSE /\ wrote = "no"

-----------------------------------------------------------------------------
(* A call returns and run_node goes on, or it raises.                      *)

Return(from, to) == pc = from /\ pc' = to /\ UNCHANGED raised
Raise(from, errors) ==
  /\ pc = from /\ pc' = "report"
  /\ raised' \in errors

(* except HarnessError: raise; except Exception as exc: raise c from exc.  *)
Wrap(errors, c) == {IF e = "Other" THEN c ELSE e : e \in errors}

-----------------------------------------------------------------------------
(* The environment variables, load_contract_dir and select_node.           *)
LoadContract ==
  /\ \/ Return("contract", "adapter")
     \/ Raise("contract", {"ContractError", "Other"})
  /\ UNCHANGED <<node, world, outcome, script, table>>

(* build_adapter: one entry point, its required_env, from_env.             *)
BuildAdapter ==
  /\ \/ Return("adapter", "config") /\ adapter' = "open"
     \/ Raise("adapter", Wrap({"LoadError", "Other"}, "LoadError"))
        /\ UNCHANGED adapter
  /\ UNCHANGED <<node, world, blocks, code, closes, unprinted, script, table>>

ValidateConfigEarly ==
  /\ \/ (node.tripwire => node.configOk) /\ Return("config", "writer")
     \/ node.tripwire /\ ~node.configOk
        /\ Raise("config", Wrap({"Other"}, "LoadError"))
  /\ UNCHANGED <<node, world, outcome, script, table>>

WriterFor_Unchecked ==         \* fault: the capability is not asked for
  /\ Return("writer", IF node.kind = "python-csv" THEN "csv" ELSE "import")
  /\ UNCHANGED <<node, world, outcome, script, table>>

WriterFor ==
  /\ \/ /\ node.mode = "replace" \/ node.capable
        /\ Return("writer", IF node.kind = "python-csv" THEN "csv" ELSE "import")
     \/ /\ node.mode # "replace" /\ ~node.capable
        /\ Raise("writer", {"LoadError"})
  /\ UNCHANGED <<node, world, outcome, script, table>>

(* load_script: the path checks, then the script's module-level code.      *)
LoadScript ==
  /\ \/ Return("import", "script") /\ ran' = TRUE
     \/ Raise("import", {"ContractError"}) /\ UNCHANGED ran
     \/ Raise("import", {"ScriptError", "Exit"}) /\ ran' = TRUE
  /\ UNCHANGED <<node, world, outcome, memo, seen, fetched, stray, table>>

ProduceCsv ==
  /\ \/ Return("csv", "conform")
     \/ Raise("csv", {"LoadError", "Other"})
  /\ UNCHANGED <<node, world, outcome, script, table>>

-----------------------------------------------------------------------------
(* The script.  stdout is redirected while it is imported and run, not     *)
(* while to_arrow converts what it returned, an object whose               *)
(* __arrow_c_stream__ may call back into ctx.read.                         *)

Redirected == pc \in {"import", "script"}
InScript   == pc \in {"script", "to_arrow"}

ScriptPrints ==
  /\ pc = "import" \/ InScript
  /\ stray' = IF Redirected THEN stray ELSE stray \cup {pc}
  /\ UNCHANGED <<node, pc, raised, world, outcome, memo, seen, fetched, ran,
                 table>>

(* RunContext._reads: a python-api node declares no reads.                 *)
Declared == IF node.kind = "python-api" THEN {} ELSE Reads

(* ctx.read of a memoized name.                                            *)
ReadMemoized(r) ==
  /\ InScript /\ r \in Declared /\ memo[r] # None
  /\ seen' = [seen EXCEPT ![r] = @ \cup {memo[r]}]
  /\ UNCHANGED <<node, pc, raised, world, outcome, memo, fetched, stray, ran,
                 table>>

ReadFetched_NotKept(r) ==      \* fault: the result is not memoized
  /\ InScript /\ r \in Declared /\ memo[r] = None
  /\ fetched' = [fetched EXCEPT ![r] = @ + 1]
  /\ seen' = [seen EXCEPT ![r] = @ \cup {world}]
  /\ UNCHANGED <<node, pc, raised, world, outcome, memo, stray, ran, table>>

(* ctx.read of a name not memoized yet: fetched as the warehouse holds it. *)
ReadFetched(r) ==
  /\ InScript /\ r \in Declared /\ memo[r] = None
  /\ memo' = [memo EXCEPT ![r] = world]
  /\ fetched' = [fetched EXCEPT ![r] = @ + 1]
  /\ seen' = [seen EXCEPT ![r] = @ \cup {world}]
  /\ UNCHANGED <<node, pc, raised, world, outcome, stray, ran, table>>

(* ctx.read raises ReadError: an undeclared name, or a fetch that failed   *)
(* and is not memoized.  The script catches it and goes on, or does not.   *)
ReadFails(n) ==
  /\ InScript
  /\ n \in Declared => memo[n] = None
  /\ Return(pc, pc) \/ Raise(pc, {"ReadError"})
  /\ UNCHANGED <<node, world, outcome, script, table>>

(* run(ctx) returns, raises, or leaves with sys.exit; a HarnessError of    *)
(* any class, its own or one a read gave it earlier, passes as it is.      *)
ScriptEnds ==
  /\ \/ Return("script", "to_arrow")
     \/ Raise("script", Wrap(Errors, "ScriptError"))
  /\ UNCHANGED <<node, world, outcome, script, table>>

(* A value that is not convertible is a ScriptError; what the conversion   *)
(* itself raises, in the script's own object, is not wrapped.              *)
ToArrow ==
  /\ \/ Return("to_arrow", "conform")
     \/ Raise("to_arrow", Errors)
  /\ UNCHANGED <<node, world, outcome, script, table>>
-----------------------------------------------------------------------------
Conform ==
  /\ \/ Return("conform", "ensure") /\ conformed' = TRUE
     \/ Raise("conform", {"ConformError", "Other"}) /\ UNCHANGED conformed
  /\ UNCHANGED <<node, world, outcome, script, touched, wrote>>

(* ensure_table, which validates the config again, in the try block that   *)
(* turns DuplicateKeyError into ConformError and the rest into LoadError.  *)
EnsureTable ==
  /\ \/ /\ node.configOk
        /\ Return("ensure", IF node.mode = "replace" THEN "write" ELSE "shape")
     \/ Raise("ensure", Wrap({"Other"}, "LoadError"))
  /\ touched' = TRUE
  /\ UNCHANGED <<node, world, outcome, script, conformed, wrote>>

CheckShape ==
  /\ \/ Return("shape", "write")
     \/ Raise("shape", Wrap({"LoadError", "Other"}, "LoadError"))
  /\ UNCHANGED <<node, world, outcome, script, table>>

Write_BestEffort ==            \* fault: a failed write is only logged
  /\ Return("write", "success")
  /\ wrote' \in {"yes", "maybe"}
  /\ UNCHANGED <<node, world, outcome, script, conformed, touched>>

Write_BlamesTheRows ==         \* fault: every failure is the rows' fault
  /\ \/ Return("write", "success") /\ wrote' = "yes"
     \/ Raise("write", Wrap({"Other"}, "ConformError")) /\ wrote' = "maybe"
  /\ UNCHANGED <<node, world, outcome, script, conformed, touched>>

(* load, append or upsert.  One that raises may have committed; upsert     *)
(* raises DuplicateKeyError before it writes anything.                     *)
Write ==
  /\ \/ Return("write", "success") /\ wrote' = "yes"
     \/ Raise("write", Wrap({"Other"}, "LoadError")) /\ wrote' = "maybe"
     \/ /\ node.mode = "upsert"
        /\ Raise("write", {"ConformError"}) /\ UNCHANGED wrote
  /\ UNCHANGED <<node, world, outcome, script, conformed, touched>>

-----------------------------------------------------------------------------
PrintBlock(status, class) == blocks' = Append(blocks, [status |-> status, class |-> class])

(* The print is inside the try: when it fails, the except clause reports.  *)
PrintSuccess ==
  /\ \/ /\ Return("success", "close")
        /\ PrintBlock("success", "none") /\ code' = "0" /\ UNCHANGED unprinted
     \/ /\ Raise("success", {"Other"})
        /\ unprinted' = TRUE /\ UNCHANGED <<blocks, code>>
  /\ UNCHANGED <<node, world, adapter, closes, script, table>>

ReportError_Unmapped ==        \* fault: the block names the class as raised
  /\ Return("report", "close")
  /\ IF raised = "Exit" THEN UNCHANGED blocks /\ code' = "exit"
     ELSE PrintBlock("error", raised) /\ code' = "1"
  /\ UNCHANGED <<node, world, adapter, closes, unprinted, script, table>>

ReportError_LeavesOpen ==      \* fault: close in the handlers, not in finally
  /\ pc = "report" /\ UNCHANGED raised
  /\ pc' = IF raised = "Exit" THEN "exited" ELSE "close"
  /\ IF raised = "Exit" THEN UNCHANGED blocks /\ code' = "exit"
     ELSE /\ PrintBlock("error", IF raised = "Other" THEN "ScriptError" ELSE raised)
          /\ code' = "1"
  /\ UNCHANGED <<node, world, adapter, closes, unprinted, script, table>>

(* The except clauses of run_node: any other Exception is reported as a    *)
(* ScriptError; an Exit passes them all, and so does a print that fails.   *)
ReportError ==
  /\ Return("report", "close")
  /\ \/ /\ raised # "Exit" /\ UNCHANGED unprinted
        /\ PrintBlock("error", IF raised = "Other" THEN "ScriptError" ELSE raised)
        /\ code' = "1"
     \/ /\ code' = "exit" /\ UNCHANGED blocks
        /\ IF raised = "Exit" THEN UNCHANGED unprinted ELSE unprinted' = TRUE
  /\ UNCHANGED <<node, world, adapter, closes, script, table>>

(* finally: close the adapter if there is one; its failure is only logged. *)
CloseAdapter ==
  /\ Return("close", "exited")
  /\ IF adapter = "none" THEN UNCHANGED <<adapter, closes>>
     ELSE adapter' = "closed" /\ closes' = closes + 1
  /\ UNCHANGED <<node, world, blocks, code, unprinted, script, table>>

(* Another node rewrites the tables this node reads.                       *)
InputsChange ==
  /\ world < MaxWorld
  /\ world' = world + 1
  /\ UNCHANGED <<node, pc, raised, outcome, script, table>>

-----------------------------------------------------------------------------
ScriptReads ==
  \/ \E r \in Reads : ReadMemoized(r) \/ ReadFetched(r)
  \/ \E n \in Names : ReadFails(n)

Progress ==
  \/ LoadContract \/ BuildAdapter \/ ValidateConfigEarly \/ WriterFor
  \/ LoadScript \/ ScriptEnds \/ ToArrow \/ ProduceCsv \/ Conform
  \/ EnsureTable \/ CheckShape \/ Write
  \/ PrintSuccess \/ ReportError \/ CloseAdapter

Next == Progress \/ ScriptReads \/ ScriptPrints \/ InputsChange

Spec == Init /\ [][Next]_vars

-----------------------------------------------------------------------------
(* A run that returns printed exactly one block, and block, return code    *)
(* and write agree: success is code 0 after a write that returned, which   *)
(* is reported as anything else only when its block could not be printed.  *)
ReportAgrees ==
  pc = "exited" /\ code # "exit" =>
    /\ Len(blocks) = 1
    /\ blocks[1].status = "success" <=> code = "0"
    /\ code = "0" => wrote = "yes"
    /\ wrote = "yes" => code = "0" \/ unprinted

(* What an error block says of the table: every class but LoadError leaves *)
(* it as it was, and only LoadError and a repeated key come after DDL.     *)
(* The block that follows one which could not be printed tells nothing.    *)
ErrorClassTellsTheTable ==
  \A i \in DOMAIN blocks : blocks[i].status = "error" /\ ~unprinted =>
    /\ blocks[i].class # "LoadError" => wrote = "no"
    /\ touched => blocks[i].class \in {"LoadError", "ConformError"}

(* What cannot succeed costs nothing: a config the engine rejects is never *)
(* written with, and the script runs on it only under an adapter without   *)
(* validate_config; a mode the engine lacks runs no script and issues no   *)
(* DDL; a result that does not conform issues none either                  *)
(* (_validate_config_early, _writer_for, conform before ensure_table).     *)
RejectedBeforeItCosts ==
  /\ ~node.configOk => wrote = "no" /\ (node.tripwire => ~ran)
  /\ node.mode # "replace" /\ ~node.capable => ~ran /\ ~touched
  /\ touched => conformed

(* However often the script reads a name, whatever failed in between and   *)
(* however the inputs change, it is given one version, fetched once.       *)
RepeatableReads ==
  \A r \in Reads : Cardinality(seen[r]) <= 1 /\ fetched[r] <= 1

(* The finally of run_node: an adapter that was built is closed once, also *)
(* when the script leaves with sys.exit, and one that was not is not.      *)
AdapterClosedOnce ==
  pc = "exited" => closes = (IF adapter = "none" THEN 0 ELSE 1)

(* "Exactly one sentinel-framed result block is printed to stdout per run" *)
(* (docstring of harness.py); a script's sys.exit prints none.             *)
ExactlyOneBlock == pc = "exited" /\ ~unprinted => Len(blocks) = 1

(* "stdout is reserved for exactly one sentinel-framed result block"       *)
(* (boundary-contract 13.4); to_arrow calls into the script's own object   *)
(* after the redirection ended.                                            *)
StdoutReserved == stray = {}
=============================================================================
