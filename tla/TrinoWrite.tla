----------------------------- MODULE TrinoWrite -----------------------------
(***************************************************************************)
(* One node's target table on Trino/Iceberg, statement by statement: the   *)
(* write part of harness.run_node over TrinoAdapter.  There are no         *)
(* transactions: every statement commits on its own, and the client learns *)
(* of it only if the reply arrives.  load fills a stage table and renames  *)
(* it into place; append and upsert fill a stage table and move its rows   *)
(* with one statement.  Stage and old tables carry the attempt's uuid, so  *)
(* those of earlier attempts stay where a failure left them.               *)
(***************************************************************************)
EXTENDS Rows

CONSTANTS
  SeedRows,      \* what an existing table may hold before the first run
  Results,       \* the conformed rows a run may have
  MaxAttempts    \* bound: attempts over all runs

ASSUME TrinoAssumption ==
  /\ SeedRows \subseteq Bag /\ Results \subseteq SUBSET Row
  /\ MaxAttempts \in Nat

VARIABLES
  target,        \* the table under the node's own name
  stage, old,    \* the private tables of each attempt's uuid
  token,         \* the current attempt's uuid
  pc,            \* the next statement of the attempt
  left,          \* rows not yet inserted into the stage
  mode,          \* mode_type of the node in this run
  data,          \* the conformed rows of the run
  base, origin,  \* history: rows at the start of the attempt, run
  good,          \* history: the last rows a finished write put in place
  clean          \* history: no statement of the attempt has failed

vars == <<target, stage, old, token, pc, left, mode, data, base, origin, good,
          clean>>
tables == <<target, stage, old>>

Token == 1 .. MaxAttempts

Table   == {t \in [exists : BOOLEAN, shape : {"declared", "drifted"},
                   rows : Bag] : ~t.exists => t.rows = NoRows}
NoTable == [exists |-> FALSE, shape |-> "declared", rows |-> NoRows]

Steps == {"ensure", "check", "unique", "stage", "fill", "swap_out", "swap_in",
          "recover", "drop_old", "final", "drop_stage", "drop_stage_raising",
          "report"}

TypeOK ==
  /\ target \in Table
  /\ stage \in [Token -> Table] /\ old \in [Token -> Table]
  /\ token \in 0 .. MaxAttempts
  /\ pc \in Steps \cup {"idle", "ok", "failed"}
  /\ left \in SUBSET Row /\ data \in SUBSET Row /\ mode \in Modes
  /\ base \in Bag /\ origin \in Bag /\ good \in Bag
  /\ clean \in BOOLEAN

Init ==
  /\ target \in {NoTable} \cup [exists : {TRUE}, rows : SeedRows,
                                shape : {"declared", "drifted"}]
  /\ stage = [t \in Token |-> NoTable] /\ old = [t \in Token |-> NoTable]
  /\ token = 0 /\ pc = "idle"
  /\ left = {} /\ data = {} /\ mode = "replace"
  /\ base = target.rows /\ origin = target.rows /\ good = target.rows
  /\ clean = TRUE

-----------------------------------------------------------------------------
(* The scheduler: one container at a time, retries after a failure.  A     *)
(* node becomes an upsert node over a table that repeats no key (Merge).   *)

StartAttempt ==
  /\ token < MaxAttempts
  /\ token' = token + 1
  /\ pc' = "ensure"
  /\ base' = target.rows
  /\ clean' = TRUE
  /\ UNCHANGED <<tables, good>>

BeginRun ==
  /\ pc \in {"idle", "ok", "failed"}
  /\ StartAttempt
  /\ origin' = target.rows
  /\ mode' \in Modes /\ data' \in Results /\ left' = data'
  /\ mode' = "upsert" => KeyedOnce(target.rows)

Retry ==
  /\ pc = "failed"
  /\ StartAttempt
  /\ left' = data
  /\ UNCHANGED <<origin, mode, data>>

Run == UNCHANGED <<token, mode, data, base, origin>>

(* A statement takes effect and its reply arrives, or is refused, or takes *)
(* effect and its reply is lost; _execute raises in the last two cases.    *)
Replies == {"done", "refused", "lost"}

After(reply, next, handler) ==
  /\ pc' = IF reply = "done" THEN next ELSE handler
  /\ clean' = (clean /\ reply = "done")

-----------------------------------------------------------------------------
(* ensure_table, _check_shape, ensure_unique_key.                          *)

EnsureTable ==
  /\ pc = "ensure"
  /\ \E reply \in Replies :
       /\ target' = IF target.exists \/ reply = "refused" THEN target
                    ELSE [NoTable EXCEPT !.exists = TRUE]
       /\ After(reply, IF mode = "replace" THEN "stage" ELSE "check", "failed")
  /\ UNCHANGED <<stage, old, left, good>> /\ Run

CheckShape ==
  /\ pc = "check"
  /\ \E reply \in {"done", "refused"} :
       After(IF target.exists /\ target.shape = "declared" THEN reply
             ELSE "refused",
             IF mode = "upsert" THEN "unique"
             ELSE IF data = {} THEN "report" ELSE "stage", "failed")
  /\ UNCHANGED <<tables, left, good>> /\ Run

EnsureUniqueKey ==
  /\ pc = "unique"
  /\ After(IF UniqueKeys(data) THEN "done" ELSE "refused",
           IF data = {} THEN "report" ELSE "stage", "failed")
  /\ UNCHANGED <<tables, left, good>> /\ Run

-----------------------------------------------------------------------------
(* The stage: _create_stage, _insert_batches, _drop_stage.  When           *)
(* _create_stage raises, no caller knows of a stage to drop.               *)

AfterFill == IF mode = "replace" THEN "swap_out" ELSE "final"

CreateStage_Assumed ==         \* fault: the stage is taken to be there
  /\ pc = "stage"
  /\ After("done", IF data = {} THEN AfterFill ELSE "fill", "failed")
  /\ UNCHANGED <<tables, left, good>> /\ Run

CreateStage_CopiesRows ==      \* fault: CREATE TABLE AS instead of LIKE
  /\ pc = "stage"
  /\ \E reply \in IF target.exists THEN Replies ELSE {"refused"} :
       /\ stage' = IF reply = "refused" THEN stage
                   ELSE [stage EXCEPT ![token] = target]
       /\ After(reply, IF data = {} THEN AfterFill ELSE "fill", "failed")
  /\ UNCHANGED <<target, old, left, good>> /\ Run

CreateStage ==
  /\ pc = "stage"
  /\ \E reply \in IF target.exists THEN Replies ELSE {"refused"} :
       /\ stage' = IF reply = "refused" THEN stage
                   ELSE [stage EXCEPT ![token] =
                           [target EXCEPT !.rows = NoRows]]
       /\ After(reply, IF data = {} THEN AfterFill ELSE "fill", "failed")
  /\ UNCHANGED <<target, old, left, good>> /\ Run

InsertBatch_IntoTarget ==      \* fault: the batches go to the target itself
  /\ pc = "fill"
  /\ \E reply \in Replies, batch \in SUBSET left \ {{}} :
       /\ target' = IF reply = "refused" THEN target
                    ELSE [target EXCEPT !.rows = Insert(@, batch)]
       /\ left' = left \ batch
       /\ After(reply, IF left' = {} THEN AfterFill ELSE "fill",
                "drop_stage_raising")
  /\ UNCHANGED <<stage, old, good>> /\ Run

InsertBatch ==
  /\ pc = "fill"
  /\ \E reply \in Replies, batch \in SUBSET left \ {{}} :
       /\ stage' = IF reply = "refused" THEN stage
                   ELSE [stage EXCEPT ![token].rows = Insert(@, batch)]
       /\ left' = left \ batch
       /\ After(reply, IF left' = {} THEN AfterFill ELSE "fill",
                "drop_stage_raising")
  /\ UNCHANGED <<target, old, good>> /\ Run

(* Best-effort: a failure is only logged, the outcome stays what it was.   *)
DropStage ==
  /\ pc \in {"drop_stage", "drop_stage_raising"}
  /\ \E reply \in IF stage[token].exists THEN Replies ELSE {"refused"} :
       /\ stage' = IF reply = "refused" THEN stage
                   ELSE [stage EXCEPT ![token] = NoTable]
       /\ clean' = (clean /\ reply = "done")
  /\ pc' = IF pc = "drop_stage" THEN "report" ELSE "failed"
  /\ UNCHANGED <<target, old, left, good>> /\ Run

-----------------------------------------------------------------------------
(* load: the two renames, the recovery of a failed second one, the drop of *)
(* the old table.  A rename onto a taken name or of a missing table is     *)
(* refused.                                                                *)

SwapOut ==
  /\ pc = "swap_out"
  /\ \E reply \in IF target.exists THEN Replies ELSE {"refused"} :
       /\ IF reply = "refused" THEN UNCHANGED <<target, old>>
          ELSE old' = [old EXCEPT ![token] = target] /\ target' = NoTable
       /\ After(reply, "swap_in", "drop_stage_raising")
  /\ UNCHANGED <<stage, left, good>> /\ Run

SwapIn_DropsOldAnyway ==       \* fault: the old table is dropped in a finally
  /\ pc = "swap_in"
  /\ \E reply \in IF target.exists THEN {"refused"} ELSE Replies :
       /\ IF reply = "refused" THEN UNCHANGED <<target, stage, good>>
          ELSE /\ target' = stage[token]
               /\ stage' = [stage EXCEPT ![token] = NoTable]
               /\ good' = stage[token].rows
       /\ After(reply, "drop_old", "drop_old")
  /\ UNCHANGED <<old, left>> /\ Run

SwapIn ==
  /\ pc = "swap_in"
  /\ \E reply \in IF target.exists THEN {"refused"} ELSE Replies :
       /\ IF reply = "refused" THEN UNCHANGED <<target, stage, good>>
          ELSE /\ target' = stage[token]
               /\ stage' = [stage EXCEPT ![token] = NoTable]
               /\ good' = stage[token].rows
       /\ After(reply, "drop_old", "recover")
  /\ UNCHANGED <<old, left>> /\ Run

Recover ==
  /\ pc = "recover"
  /\ \E reply \in IF target.exists \/ ~old[token].exists THEN {"refused"}
                  ELSE Replies :
       IF reply = "refused" THEN UNCHANGED <<target, old>>
       ELSE target' = old[token] /\ old' = [old EXCEPT ![token] = NoTable]
  /\ pc' = "drop_stage_raising"
  /\ UNCHANGED <<stage, left, good, clean>> /\ Run

DropOld ==
  /\ pc = "drop_old"
  /\ \E reply \in IF old[token].exists THEN Replies ELSE {"refused"} :
       /\ old' = IF reply = "refused" THEN old
                 ELSE [old EXCEPT ![token] = NoTable]
       /\ After(reply, "report", "failed")
  /\ UNCHANGED <<target, stage, left, good>> /\ Run

FinalStatement_InsertsOnly ==  \* fault: INSERT ... SELECT for an upsert as well
  /\ pc = "final"
  /\ \E reply \in IF target.exists THEN Replies ELSE {"refused"} :
       /\ target' = IF reply = "refused" THEN target
                    ELSE [target EXCEPT !.rows =
                            Insert(@, {r \in Row : stage[token].rows[r] > 0})]
       /\ good' = IF reply = "refused" THEN good ELSE target'.rows
       /\ After(reply, "drop_stage", "drop_stage_raising")
  /\ UNCHANGED <<stage, old, left>> /\ Run

FinalStatement_KeepsStage ==   \* fault: the stage is dropped only on failure
  /\ pc = "final"
  /\ \E reply \in IF target.exists THEN Replies ELSE {"refused"} :
       /\ target' = IF reply = "refused" THEN target
                    ELSE [target EXCEPT !.rows =
                            Put(mode, @, {r \in Row : stage[token].rows[r] > 0})]
       /\ good' = IF reply = "refused" THEN good ELSE target'.rows
       /\ After(reply, "report", "drop_stage_raising")
  /\ UNCHANGED <<stage, old, left>> /\ Run

(* append and _upsert: one INSERT ... SELECT or MERGE out of the stage.    *)
FinalStatement ==
  /\ pc = "final"
  /\ \E reply \in IF target.exists THEN Replies ELSE {"refused"} :
       /\ target' = IF reply = "refused" THEN target
                    ELSE [target EXCEPT !.rows =
                            Put(mode, @, {r \in Row : stage[token].rows[r] > 0})]
       /\ good' = IF reply = "refused" THEN good ELSE target'.rows
       /\ After(reply, "drop_stage", "drop_stage_raising")
  /\ UNCHANGED <<stage, old, left>> /\ Run

Report ==
  /\ pc = "report"
  /\ pc' = "ok"
  /\ UNCHANGED <<tables, left, good, clean>> /\ Run

-----------------------------------------------------------------------------
(* The container dies: nothing cleans up after it.                         *)
Crash ==
  /\ pc \in Steps
  /\ pc' = "failed"
  /\ clean' = FALSE
  /\ UNCHANGED <<tables, left, good>> /\ Run

(* Somebody changes the table's columns outside the contract.              *)
AlterTable ==
  /\ target.exists /\ target.shape = "declared"
  /\ target' = [target EXCEPT !.shape = "drifted"]
  /\ UNCHANGED <<stage, old, pc, left, good, clean>> /\ Run

Program ==
  \/ EnsureTable \/ CheckShape \/ EnsureUniqueKey
  \/ CreateStage \/ InsertBatch \/ DropStage
  \/ SwapOut \/ SwapIn \/ Recover \/ DropOld \/ FinalStatement \/ Report

Next == BeginRun \/ Retry \/ Program \/ Crash \/ AlterTable

Spec == Init /\ [][Next]_vars
-----------------------------------------------------------------------------
Phase == IF pc \in Steps THEN "running" ELSE pc

Contract == INSTANCE TargetWrite WITH rows <- target.rows, phase <- Phase

(* In append and upsert runs the promise of TargetWrite: the target changes *)
(* in the one statement that moves the stage's rows, and a failed drop of  *)
(* the stage changes neither the rows nor the report (_write_via_stage).   *)
KeepsContract ==
  Contract!Init /\ [][mode # "replace" => Contract!Next]_(Contract!vars)

(* README: "Every write is atomic: all of the run's rows or none."  load   *)
(* renames the target away before it renames the stage into place, so a    *)
(* reader finds neither, and a failure in between leaves it so.            *)
AllOrNone == Contract!AllOrNone

(* A replace or upsert run that ends in success leaves what one attempt    *)
(* would have left, also after attempts that failed between the two        *)
(* renames, where ensure_table of the retry creates an empty target.       *)
RetrySafe == Contract!RetrySafe

(* load never shows a part of its rows: the target holds the rows of the   *)
(* last finished write, or it is the empty table of an ensure_table.       *)
NeverPartial == target.rows \in {NoRows, good}

(* The rows of the last finished write are always in some table: under the *)
(* target's name or under the private old name load renamed them to.  No   *)
(* sequence of failures, lost replies, crashes and retries drops them.     *)
RowsNeverLost ==
  good # NoRows => \/ target.rows = good
                   \/ \E t \in Token : old[t].rows = good

(* A successful attempt without a failed statement leaves the target in    *)
(* place and neither a stage nor an old table behind it.                   *)
CleanAttemptLeavesNothing ==
  pc = "ok" /\ clean => /\ target.exists
                        /\ ~stage[token].exists /\ ~old[token].exists

=============================================================================
