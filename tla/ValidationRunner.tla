--------------------------- MODULE ValidationRunner ---------------------------
(***************************************************************************)
(* validation/runner.py main: one container that checks its inputs, finds  *)
(* its adapter, connects (Connect), runs one operation of the release gate *)
(* against the candidate schema and leaves with one result block and an    *)
(* exit code.                                                              *)
(***************************************************************************)
EXTENDS Connect, Sequences

CONSTANT MaxReads      \* bound: declared reads of a node

ASSUME RunnerAssumption == MaxReads \in Nat \ {0}

VARIABLES
  op,        \* VALIDATION_OP
  unset,     \* environment variables that are missing or empty
  object,    \* what the candidate's URI leads to
  defect,    \* what is wrong with a parsed spec
  source,    \* the csv_source of the spec, and what its header says
  reads,     \* per declared read: does it bind against the candidate schema
  pc,
  next,      \* the read to be checked next
  ensured, built, dropped,   \* effects in the warehouse
  blocks,    \* the result blocks printed
  exit,      \* the exit code; a main that returns exits with 0
  closes     \* calls of adapter.close()

inputs  == <<op, unset, object, defect, source, reads>>
effects == <<ensured, built, dropped>>
report  == <<blocks, exit>>
vars == <<connection, inputs, pc, next, effects, report, closes>>

NodeOps   == {"build_from_sql", "clone_from_prod", "build_from_columns", "check_binds"}
SchemaOps == {"ensure_schema", "drop_schema"}
SqlOps    == {"build_from_sql", "check_binds"}

Env     == {"DBT_TARGET_SCHEMA", "TABLE_NAME", "PROD_SCHEMA", "required_env"}
Objects == {"unset", "bad_uri", "unreachable", "empty", "malformed", "good"}
Defects == {"none", "no_columns", "config_no_object", "csv_no_string"}
Sources == {"none", "bad_uri", "unreadable", "headerless", "missing_column",
            "extra_column", "conforms"}

Labels == {"env", "inputs", "discover", "connect", "schema", "header", "binds",
           "build", "raised", "close_raising", "close", "report", "ended"}

TypeOK ==
  /\ ConnectTypeOK
  /\ op \in NodeOps \cup SchemaOps \cup {"unknown"}
  /\ unset \subseteq Env
  /\ object \in Objects /\ defect \in Defects /\ source \in Sources
  /\ reads \in Seq(BOOLEAN)
  /\ pc \in Labels /\ next \in 1 .. MaxReads + 1
  /\ ensured \in BOOLEAN /\ built \in BOOLEAN /\ dropped \in BOOLEAN
  /\ blocks \in Seq({"success", "error"})
  /\ exit \in 0 .. 2 /\ closes \in 0 .. 1

Init ==
  /\ ConnectInit
  /\ op \in NodeOps \cup SchemaOps \cup {"unknown"}
  /\ unset \in {{}} \cup {{v} : v \in Env}
  /\ object \in IF op \in SqlOps \cup {"build_from_columns"} THEN Objects ELSE {"good"}
  /\ defect \in IF op = "build_from_columns" THEN Defects ELSE {"none"}
  /\ source \in IF op = "build_from_columns" THEN Sources ELSE {"none"}
  /\ reads \in CASE op = "build_from_columns" ->
                      UNION {[1 .. n -> BOOLEAN] : n \in 0 .. MaxReads}
                 [] op = "check_binds" -> [1 .. 1 -> BOOLEAN]
                 [] OTHER -> {<<>>}
  /\ pc = "env" /\ next = 1
  /\ ensured = FALSE /\ built = FALSE /\ dropped = FALSE
  /\ blocks = <<>> /\ exit = 0 /\ closes = 0

-----------------------------------------------------------------------------
(* Before the adapter: a print of the error block, then sys.exit.          *)

Reject(code) ==
  /\ blocks' = Append(blocks, "error") /\ exit' = code /\ pc' = "ended"

RequireEnv ==
  /\ pc = "env"
  /\ IF \/ "DBT_TARGET_SCHEMA" \in unset
        \/ op \in NodeOps /\ "TABLE_NAME" \in unset
        \/ op = "clone_from_prod" /\ "PROD_SCHEMA" \in unset
        \/ op = "unknown"
       THEN Reject(2)
       ELSE pc' = "inputs" /\ UNCHANGED report
  /\ UNCHANGED <<connection, inputs, next, effects, closes>>

LoadCandidate ==
  /\ pc = "inputs"
  /\ CASE object = "unreachable" -> Reject(1)
       [] op \in SqlOps /\ object \in {"bad_uri", "malformed"} -> Reject(1)
       [] op \in SqlOps /\ object \in {"unset", "empty"} -> Reject(2)
       [] op = "build_from_columns" /\ object # "unreachable"
          /\ (object # "good" \/ defect # "none") -> Reject(2)
       [] OTHER -> pc' = "discover" /\ UNCHANGED report
  /\ UNCHANGED <<connection, inputs, next, effects, closes>>

Discover ==
  /\ pc = "discover"
  /\ \/ Reject(2)
     \/ "required_env" \notin unset /\ pc' = "connect" /\ UNCHANGED report
  /\ UNCHANGED <<connection, inputs, next, effects, closes>>

-----------------------------------------------------------------------------
(* Inside the try: every failure leads to the except clause.               *)

FromEnv ==
  /\ pc = "connect" /\ ConnectStep
  /\ pc' = CASE at' = "connected" -> "schema" [] at' = "raised" -> "raised"
             [] OTHER -> pc
  /\ UNCHANGED <<inputs, next, effects, report, closes>>

AfterSchema ==
  CASE op \in SchemaOps -> "close"
    [] op = "check_binds" -> "binds"
    [] op = "build_from_columns" -> IF source = "none" THEN "binds" ELSE "header"
    [] OTHER -> "build"

(* ensure_schema for every operation but drop_schema.  A call that fails   *)
(* may have taken effect.                                                  *)
SchemaOp ==
  /\ pc = "schema"
  /\ IF op = "drop_schema" THEN dropped' \in BOOLEAN /\ UNCHANGED ensured
     ELSE ensured' \in BOOLEAN /\ UNCHANGED dropped
  /\ pc' \in {"raised"} \cup IF ensured' \/ dropped' THEN {AfterSchema} ELSE {}
  /\ UNCHANGED <<connection, inputs, next, built, report, closes>>

CheckHeader_ByTruth ==         \* fault: an empty header line counts as none given
  /\ pc = "header"
  /\ pc' = IF source \in {"bad_uri", "unreadable", "missing_column"}
             THEN "raised" ELSE "binds"
  /\ UNCHANGED <<connection, inputs, next, effects, report, closes>>

CheckHeader ==
  /\ pc = "header"
  /\ pc' = IF source \in {"extra_column", "conforms"} THEN "binds" ELSE "raised"
  /\ UNCHANGED <<connection, inputs, next, effects, report, closes>>

CheckBinds ==
  /\ pc = "binds"
  /\ \/ /\ next <= Len(reads) /\ reads[next]
        /\ next' = next + 1 /\ UNCHANGED pc
     \/ /\ next <= Len(reads)
        /\ pc' = "raised" /\ UNCHANGED next
     \/ /\ next > Len(reads)
        /\ pc' = IF op = "check_binds" THEN "close" ELSE "build"
        /\ UNCHANGED next
  /\ UNCHANGED <<connection, inputs, effects, report, closes>>

Build ==
  /\ pc = "build"
  /\ built' \in BOOLEAN
  /\ pc' \in {"raised"} \cup IF built' THEN {"close"} ELSE {}
  /\ UNCHANGED <<connection, inputs, next, ensured, dropped, report, closes>>

-----------------------------------------------------------------------------
(* The except clause prints before the finally closes; success is printed  *)
(* after it.                                                               *)

ReportError ==
  /\ pc = "raised"
  /\ blocks' = Append(blocks, "error") /\ exit' = 1
  /\ pc' = IF at = "connected" THEN "close_raising" ELSE "ended"
  /\ UNCHANGED <<connection, inputs, next, effects, closes>>

CloseAdapter_FailureRaised ==  \* fault: an error of close() leaves the finally
  /\ pc \in {"close", "close_raising"}
  /\ \E fails \in BOOLEAN :
       /\ CloseConnection(fails)
       /\ pc' = IF pc = "close" /\ ~fails THEN "report" ELSE "ended"
       /\ exit' = IF fails THEN 1 ELSE exit
  /\ closes' = closes + 1
  /\ UNCHANGED <<inputs, next, effects, blocks>>

CloseAdapter ==
  /\ pc \in {"close", "close_raising"}
  /\ \E fails \in BOOLEAN : CloseConnection(fails)
  /\ pc' = IF pc = "close" THEN "report" ELSE "ended"
  /\ closes' = closes + 1
  /\ UNCHANGED <<inputs, next, effects, report>>

ReportSuccess ==
  /\ pc = "report"
  /\ blocks' = Append(blocks, "success") /\ pc' = "ended"
  /\ UNCHANGED <<connection, inputs, next, effects, exit, closes>>

Next ==
  \/ RequireEnv \/ LoadCandidate \/ Discover \/ FromEnv
  \/ SchemaOp \/ CheckHeader \/ CheckBinds \/ Build
  \/ ReportError \/ CloseAdapter \/ ReportSuccess

Spec == Init /\ [][Next]_vars
-----------------------------------------------------------------------------
Untouched == ~ensured /\ ~built /\ ~dropped

Effective ==      \* the operation did what its name says
  CASE op = "ensure_schema" -> ensured
    [] op = "drop_schema" -> dropped
    [] op = "check_binds" -> \A i \in DOMAIN reads : reads[i]
    [] OTHER -> ensured /\ built

(* The scheduler reads one block and an exit code, and they agree with the *)
(* warehouse: 0 is a success block of an operation that took effect, also  *)
(* when close() failed after it; 2 says that the inputs were refused       *)
(* before any connection was made.                                         *)
BlockAgreesWithExit ==
  pc = "ended" =>
    /\ blocks = IF exit = 0 THEN <<"success">> ELSE <<"error">>
    /\ exit = 0 => Effective
    /\ exit = 2 => Untouched /\ at = "start"

(* The release gate holds: no table is built for a node whose csv source   *)
(* lacks a declared column, cannot be read or has no header, nor for one   *)
(* of whose reads does not bind.                                           *)
GateHolds ==
  built => /\ source \in {"none", "conforms", "extra_column"}
           /\ \A i \in DOMAIN reads : reads[i]

(* Whatever fails, from_env and the finally leave no connection open that  *)
(* close() was not asked to close, and no passfile on disk.                *)
NothingLeaks ==
  pc = "ended" => /\ passfile # "kept"
                  /\ open = 0 \/ (open = 1 /\ closes = 1)
=============================================================================
