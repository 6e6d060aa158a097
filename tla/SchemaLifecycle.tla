--------------------------- MODULE SchemaLifecycle ---------------------------
(***************************************************************************)
(* The validation containers of one release on one engine.  Each ensures   *)
(* the shared candidate schema, bind-checks its reads and builds its own   *)
(* table (build_empty_from_columns) or builds it from a SELECT or a        *)
(* production table (build_empty_from_sql, clone_empty_from_prod), while   *)
(* other containers do the same, somebody creates the schema without the   *)
(* adapter, and another container drops it.                                *)
(***************************************************************************)
EXTENDS Naturals

CONSTANTS
  Container,
  NoOne,             \* not a container: the advisory lock is free
  ConflictAttempts,  \* _CONFLICT_ATTEMPTS of the DuckLake adapter
  MaxDrops           \* bound: drops of the schema

ASSUME LifecycleAssumption ==
  /\ NoOne \notin Container
  /\ ConflictAttempts \in Nat \ {0, 1} /\ MaxDrops \in Nat

VARIABLES
  engine,    \* the engine of the release
  build,     \* "columns" or "select": what each container builds from
  schema,    \* the schema exists
  drops,     \* how often it was dropped
  table,     \* each container's table: absent, old, bare (no index yet), new
  lock,      \* who holds pg_advisory_lock
  pc, tries,
  con,       \* each connection: idle, or the kind of its open transaction
  tx,        \* the table as the container's transaction sees it
  present,   \* history: the schema existed at some moment of ensure_schema
  excused    \* history: a statement failed on its own, or the schema was dropped

vars == <<engine, build, schema, drops, table, lock, pc, tries, con, tx,
          present, excused>>
server == <<schema, drops, table, lock>>
history == <<present, excused>>

Ensuring == {"lock", "check", "write", "show", "unlock", "unlock_raising"}
Binding  == {"bind_begin", "bind", "bind_end", "bind_end_raising"}
Building == {"begin", "drop", "create", "index", "commit", "rollback"}
Ended    == {"done", "failed"}

Tables == {"absent", "old", "bare", "new"}

TypeOK ==
  /\ engine \in {"postgres", "trino", "ducklake"}
  /\ build \in [Container -> {"columns", "select"}]
  /\ schema \in BOOLEAN /\ drops \in Nat
  /\ table \in [Container -> Tables] /\ tx \in [Container -> Tables]
  /\ lock \in Container \cup {NoOne}
  /\ pc \in [Container -> Ensuring \cup Binding \cup Building \cup Ended
                          \cup {"closing"}]
  /\ tries \in [Container -> 1 .. ConflictAttempts]
  /\ con \in [Container -> {"idle", "readonly", "open"}]
  /\ present \in [Container -> BOOLEAN] /\ excused \in [Container -> BOOLEAN]

Init ==
  /\ engine \in {"postgres", "trino", "ducklake"}
  /\ build \in [Container -> {"columns", "select"}]
  /\ schema \in BOOLEAN /\ drops = 0
  /\ table \in {[c \in Container |-> t] : t \in IF schema THEN {"absent", "old"}
                                                ELSE {"absent"}}
  /\ lock = NoOne
  /\ pc = [c \in Container |-> IF engine = "postgres" THEN "lock" ELSE "check"]
  /\ tries = [c \in Container |-> 1]
  /\ con = [c \in Container |-> "idle"] /\ tx = table
  /\ present = [c \in Container |-> schema]
  /\ excused = [c \in Container |-> FALSE]

Goto(c, from, to) == pc[c] = from /\ pc' = [pc EXCEPT ![c] = to]
Chosen == UNCHANGED <<engine, build>>
Blame(c) == excused' = [excused EXCEPT ![c] = TRUE] /\ UNCHANGED present

-----------------------------------------------------------------------------
(* ensure_schema.  CREATE SCHEMA IF NOT EXISTS looks and then writes; who  *)
(* writes second fails: Postgres with an error the adapter tolerates,      *)
(* Trino with any error, DuckLake with a conflict that _retrying repeats.  *)

AfterEnsure(c) == IF build[c] = "select" THEN "begin"
                  ELSE IF engine = "trino" THEN "bind" ELSE "bind_begin"
Ensured(c) == IF engine = "postgres" THEN "unlock" ELSE AfterEnsure(c)
Raised     == IF engine = "postgres" THEN "unlock_raising" ELSE "closing"

AcquireLock_Xact(c) ==         \* fault: pg_advisory_xact_lock ends with its own statement
  /\ Goto(c, "lock", "check") /\ lock = NoOne
  /\ UNCHANGED <<server, tries, con, tx, history>> /\ Chosen

AcquireLock(c) ==
  /\ Goto(c, "lock", "check") /\ lock = NoOne
  /\ lock' = c
  /\ UNCHANGED <<schema, drops, table, tries, con, tx, history>> /\ Chosen

LookForSchema(c) ==
  /\ Goto(c, "check", IF schema THEN Ensured(c) ELSE "write")
  /\ UNCHANGED <<server, tries, con, tx, history>> /\ Chosen

CreateSchema(c) ==
  /\ Goto(c, "write", Ensured(c)) /\ ~schema
  /\ schema' = TRUE
  /\ present' = [d \in Container |-> present[d] \/ pc[d] \in Ensuring]
  /\ UNCHANGED <<drops, table, lock, tries, con, tx, excused>> /\ Chosen

LostRace_Raised(c) ==          \* fault: the loser's error is taken at its word
  /\ Goto(c, "write", Raised) /\ schema
  /\ UNCHANGED <<server, con, tx, tries, history>> /\ Chosen

LostRace_ForEver(c) ==         \* fault: the attempts are counted, not bounded
  /\ Goto(c, "write", "check") /\ schema /\ engine = "ducklake"
  /\ tries' = [tries EXCEPT ![c] = @ + 1]
  /\ UNCHANGED <<server, con, tx, history>> /\ Chosen

LostRace(c) ==
  /\ pc[c] = "write" /\ schema
  /\ LET retry == engine = "ducklake" /\ tries[c] < ConflictAttempts IN
     /\ Goto(c, "write", CASE engine = "postgres" -> "unlock"
                           [] engine = "trino" -> "show"
                           [] OTHER -> IF retry THEN "check" ELSE "closing")
     /\ tries' = IF retry THEN [tries EXCEPT ![c] = @ + 1] ELSE tries
  /\ UNCHANGED <<server, con, tx, history>> /\ Chosen

ShowSchemas_Trusting(c) ==     \* fault: any failed CREATE counts as a lost race
  /\ Goto(c, "show", AfterEnsure(c))
  /\ UNCHANGED <<server, tries, con, tx, history>> /\ Chosen

ShowSchemas_Polls(c) ==        \* fault: asks until the schema is there
  /\ Goto(c, "show", IF schema THEN AfterEnsure(c) ELSE "show")
  /\ UNCHANGED <<server, tries, con, tx, history>> /\ Chosen

ShowSchemas(c) ==
  /\ Goto(c, "show", IF schema THEN AfterEnsure(c) ELSE "closing")
  /\ UNCHANGED <<server, tries, con, tx, history>> /\ Chosen

(* The finally clause; a session keeps its lock when the unlock fails.     *)
Unlock(c) ==
  /\ \/ Goto(c, "unlock", AfterEnsure(c))
     \/ Goto(c, "unlock_raising", "closing")
  /\ lock' = NoOne
  /\ UNCHANGED <<schema, drops, table, tries, con, tx, history>> /\ Chosen

EnsureFails(c) ==
  /\ \/ Goto(c, "lock", "closing")
     \/ pc[c] \in {"check", "write"} /\ Goto(c, pc[c], Raised)
     \/ pc[c] \in {"check", "write"} /\ engine = "trino" /\ Goto(c, pc[c], "show")
     \/ pc[c] \in {"show", "unlock", "unlock_raising"} /\ Goto(c, pc[c], "closing")
  /\ Blame(c)
  /\ UNCHANGED <<server, tries, con, tx>> /\ Chosen

-----------------------------------------------------------------------------
(* check_binds: EXPLAIN inside a read-only transaction that is always      *)
(* rolled back; on Trino a statement of its own.                           *)

BeginBind(c) ==
  /\ Goto(c, "bind_begin", "bind")
  /\ con' = [con EXCEPT ![c] = "readonly"]
  /\ UNCHANGED <<server, tries, tx, history>> /\ Chosen

Explain(c) ==
  /\ \/ /\ Goto(c, "bind", IF engine = "trino" THEN "begin" ELSE "bind_end")
        /\ UNCHANGED history
     \/ /\ Goto(c, "bind", IF engine = "trino" THEN "closing" ELSE "bind_end_raising")
        /\ Blame(c)
  /\ UNCHANGED <<server, tries, con, tx>> /\ Chosen

EndBind(c) ==
  /\ Goto(c, "bind_end", "begin") \/ Goto(c, "bind_end_raising", "closing")
  /\ \/ con' = [con EXCEPT ![c] = "idle"] /\ UNCHANGED history
     \/ UNCHANGED con /\ Blame(c)
  /\ UNCHANGED <<server, tries, tx>> /\ Chosen

-----------------------------------------------------------------------------
(* The builds: drop, create and, from columns, the declared indexes or     *)
(* layout.  They are one transaction where the adapter opens one.          *)

Transactional(c) ==
  \/ engine = "ducklake"
  \/ engine = "postgres" /\ build[c] = "columns"

BeginBuild_Never(c) ==         \* fault: the rebuild is not in a transaction
  /\ Goto(c, "begin", "drop")
  /\ UNCHANGED <<server, con, tries, tx, history>> /\ Chosen

(* BEGIN inside a transaction is a warning on Postgres and an error on     *)
(* DuckLake.                                                               *)
BeginBuild(c) ==
  /\ IF Transactional(c) /\ con[c] = "readonly" /\ engine = "ducklake"
     THEN Goto(c, "begin", "closing") ELSE Goto(c, "begin", "drop")
  /\ IF Transactional(c) /\ con[c] = "idle"
     THEN /\ con' = [con EXCEPT ![c] = "open"]
          /\ tx' = [tx EXCEPT ![c] = table[c]]
     ELSE UNCHANGED <<con, tx>>
  /\ UNCHANGED <<server, tries, history>> /\ Chosen

(* A statement of the build takes effect in the transaction or at once.    *)
Put(c, t) ==
  IF con[c] = "open" THEN tx' = [tx EXCEPT ![c] = t] /\ UNCHANGED table
  ELSE table' = [table EXCEPT ![c] = t] /\ UNCHANGED tx

BuildStatement(c, from, to, t) ==
  /\ Goto(c, from, to) /\ con[c] # "readonly"
  /\ Put(c, t)
  /\ UNCHANGED <<schema, drops, lock, tries, con, history>> /\ Chosen

AfterBuild(c) == IF Transactional(c) THEN "commit" ELSE "done"

DropTable(c) == BuildStatement(c, "drop", "create", "absent")

CreateTable(c) ==
  /\ schema
  /\ IF Transactional(c) /\ build[c] = "columns"
     THEN BuildStatement(c, "create", "index", "bare")
     ELSE BuildStatement(c, "create", AfterBuild(c), "new")

CreateIndex(c) == BuildStatement(c, "index", AfterBuild(c), "new")

(* COMMIT outside the try; a DuckLake session loses to whoever dropped the *)
(* schema since its BEGIN.                                                 *)
CommitBuild(c) ==
  /\ Goto(c, "commit", "done") /\ schema
  /\ table' = [table EXCEPT ![c] = tx[c]]
  /\ con' = [con EXCEPT ![c] = "idle"]
  /\ UNCHANGED <<schema, drops, lock, tries, tx, history>> /\ Chosen

BuildFails(c) ==
  /\ pc[c] \in Building \ {"rollback"}
  /\ Goto(c, pc[c], IF pc[c] \in {"drop", "create", "index"} /\ Transactional(c)
                    THEN "rollback" ELSE "closing")
  /\ con' = IF pc[c] = "commit" THEN [con EXCEPT ![c] = "idle"] ELSE con
  /\ Blame(c)
  /\ UNCHANGED <<server, tries, tx>> /\ Chosen

RollbackBuild(c) ==
  /\ Goto(c, "rollback", "closing")
  /\ con' = [con EXCEPT ![c] = "idle"]
  /\ UNCHANGED <<server, tries, tx, history>> /\ Chosen

-----------------------------------------------------------------------------
(* The end of a container: the finally of the runner closes the adapter,   *)
(* the server ends the session.  A death does the same at any step.        *)
Leave(c, from) ==
  /\ Goto(c, from, "failed")
  /\ lock' = IF lock = c THEN NoOne ELSE lock
  /\ con' = [con EXCEPT ![c] = "idle"]
  /\ UNCHANGED <<schema, drops, table, tries, tx, present>> /\ Chosen

Close(c) == Leave(c, "closing") /\ UNCHANGED excused
Crash(c) == /\ pc[c] \notin Ended \cup {"closing"} /\ Leave(c, pc[c])
            /\ excused' = [excused EXCEPT ![c] = TRUE]

(* drop_schema of another container; on Postgres the DROP waits for the    *)
(* locks of the open rebuilds.                                             *)
DropSchema ==
  /\ schema /\ drops < MaxDrops
  /\ engine = "postgres" => \A c \in Container : con[c] # "open"
  /\ schema' = FALSE /\ drops' = drops + 1
  /\ table' = [c \in Container |-> "absent"]
  /\ excused' = [c \in Container |-> TRUE]
  /\ UNCHANGED <<lock, pc, tries, con, tx, present>> /\ Chosen

(* Something that does not use the adapter creates the schema.             *)
OutsiderCreates ==
  /\ ~schema
  /\ schema' = TRUE
  /\ present' = [d \in Container |-> present[d] \/ pc[d] \in Ensuring]
  /\ UNCHANGED <<drops, table, lock, pc, tries, con, tx, excused>> /\ Chosen

Program(c) ==
  \/ AcquireLock(c) \/ LookForSchema(c) \/ CreateSchema(c) \/ LostRace(c)
  \/ ShowSchemas(c) \/ Unlock(c)
  \/ BeginBind(c) \/ Explain(c) \/ EndBind(c)
  \/ BeginBuild(c) \/ DropTable(c) \/ CreateTable(c) \/ CreateIndex(c)
  \/ CommitBuild(c) \/ BuildFails(c) \/ RollbackBuild(c) \/ Close(c)

Next ==
  \/ \E c \in Container : Program(c) \/ EnsureFails(c) \/ Crash(c)
  \/ DropSchema \/ OutsiderCreates

Spec == Init /\ [][Next]_vars

(* The driver answers each call of each container, and the server grants   *)
(* a free lock to a session that waits for it.                             *)
FairSpec == Spec /\ \A c \in Container : WF_vars(Program(c))
-----------------------------------------------------------------------------
(* pg_advisory_lock serializes the containers of one release: no two look  *)
(* for the schema or create it at the same time, although each statement   *)
(* commits on its own, and none keeps the others waiting while it binds    *)
(* and builds.  (That the session's end frees the lock is the server's.)   *)
LockSerializes ==
  engine = "postgres" =>
    \A c, d \in Container :
      /\ {pc[c], pc[d]} \subseteq {"check", "write"} => c = d
      /\ pc[c] \in Binding \cup Building \cup Ended => lock # c

(* ensure_schema returns only when the schema existed at some moment of    *)
(* the call: on Trino, whose errors do not tell a lost race from a failed  *)
(* CREATE, because the end state is looked up.                             *)
EnsuredWasPresent ==
  \A c \in Container : pc[c] \in Binding \cup Building \cup {"done"} => present[c]

(* Losing the race is not a failure, and a bind check leaves the connection *)
(* fit for the build: a container whose own statements all work, in a      *)
(* schema nobody drops, builds its table.                                  *)
RaceIsNoFailure ==
  \A c \in Container :
    pc[c] \in {"unlock_raising", "bind_end_raising", "closing", "failed"} => excused[c]

(* A transactional rebuild shows its old table until it commits the whole  *)
(* new one: no failure leaves the table dropped, or built without the      *)
(* declared indexes or layout.                                             *)
RebuildIsAtomic ==
  [][\A c \in Container :
       Transactional(c) /\ schema' /\ table'[c] # table[c]
         => table'[c] = "new"]_vars

(* Every container ends: a session that waits for the lock gets it, the    *)
(* retries of a lost race run out, and the end state of a failed CREATE is *)
(* looked up once, also when nobody ever creates the schema.               *)
ContainersEnd == \A c \in Container : <>(pc[c] \in Ended)
=============================================================================
