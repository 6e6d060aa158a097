# A TLA+ development of the Continuo Python runtime

The repository runs one node of a data pipeline per container: it loads the
node's contract, obtains rows (from a script or a CSV file), checks them against
the declared columns and writes them to one table through a warehouse adapter
(Postgres, Trino/Iceberg, DuckLake). A scheduler starts the containers, reads
one result block from the container's log and retries failed runs. Before a
release, other containers build the same tables empty in a candidate schema, and
the merge of the release decides by a content hash which nodes changed at all.
Nothing coordinates the container, the warehouse and the scheduler, so what a
failure leaves behind depends on the order of a few statements. These modules
state and check what that order guarantees.

Paths below are relative to the repository; `harness.py`, `context.py` and the
like are in `src/continuo_python_runtime/`, `port.py` and `keys.py` in
`src/contract/continuo_engine_contract/`, "the Postgres adapter" is
`src/adapters/postgres/continuo_postgres_adapter/adapter.py`, and so on.

## 1. The system

### Components

| component | state it keeps | operations | correct when |
|---|---|---|---|
| harness (`harness.py`, `context.py`, `errors.py`) | the node, the adapter it built, the memo of reads, the exception under way | `run_node` and the calls it makes, `RunContext.read` | one block that agrees with the exit code and the table; the error class tells whether the table may have changed; doomed runs stop before they cost anything; one version per read; adapter closed once |
| write contract of an engine (`port.py`, `keys.py`) | none | `ensure_table`, `load`, `append`, `upsert`, `table_columns`, `ensure_unique_key` | all of a run's rows or none; replace and upsert can be repeated; rows that repeat a key are not written |
| Postgres adapter, write path | the connection and its open transaction; the table | `ensure_table`, `table_columns`, `load`, `append`, `_upsert`, `_transaction` | implements the write contract under failure of any statement, lost COMMIT replies and death of the container |
| Trino adapter, write path | the target, a stage and an old table per attempt | the same over autocommitted statements | staged append and upsert implement the contract; a replace never loses or mixes rows |
| DuckLake adapter, write path (`application/warehouse.py`, `infrastructure/session.py`) | the DuckDB transaction and its snapshot, the shared catalog | the same, with catalog conflicts | implements the contract with a COMMIT that may conflict; a lost creation race is retried; the layout comes with the table |
| schema lifecycle and validation builds (all adapters) | schemas shared by many containers, the advisory lock | `ensure_schema`, `drop_schema`, the bind checks, `build_empty_from_columns`, `build_empty_from_sql`, `clone_empty_from_prod` | concurrent creators all succeed; under the lock of Postgres they look and write one at a time; a transactional rebuild is atomic; nobody waits for ever |
| connecting (`from_env`, `DuckLakeSession.connect`, `passfile.py`) | the attempt count, open connections, a passfile on disk | connect and retry, `close` | bounded attempts, one timeout at most; no connection and no passfile is left |
| validation runner (`validation/runner.py`) | the adapter, the block, the exit code | one schema or node operation per container | one block, the right exit code, no table built past a failed check |
| conforming (`conform.py`, `types.py`) | none | `to_arrow`, `conform` | each declared column is filled from the produced column of its name, with values the contract allows; a cast changes values only for the pairs section 5 names |
| shape comparison (`shape.py`) | none | `shape_diff` | finds a difference exactly when there is one |
| csv sources (`csv_loader.py`, `csv_source.py`, `csv_readers/`) | the header buffer | ranged probes, whole fetch | the header line, whole, or an error |
| import closure and content hash (`closure.py`, `hashing.py`) | the worklist | `resolve_closure`, `content_hash` | a node is not skipped when what its run executes, or what its contract says, has changed |
| contract loader, kinds, merge (`contract/`) | none | load, validate, merge | the rules per kind and mode |
| lint, CLI, build scripts, template | none | parsing and dispatch | not part of the running system |

### How they interact

The harness calls the adapter through `port.py`, synchronously and from one
thread; the adapter speaks to a server that other containers use too. The
script is the harness's callback: it runs inside `run_node`, calls back into
`RunContext.read`, prints, raises and may leave with `sys.exit`. The scheduler
sees only the exit of the container and the block. The shared state is the
warehouse: the target table (written by this node, read by others), the input
tables (written by others at any time) and the schema. The validation runner is
a second program over the same adapters; what it lets through (a csv header,
bound reads) the harness checks again, with other code, in every run.

### What is hard

* **Failure between two statements.** The container may die anywhere; a
  statement may fail; a COMMIT or a rename may be applied and its reply lost, so
  a run is reported failed whose rows are in place. Then the scheduler retries.
* **Three engines, one contract.** Postgres has transactions, Trino has none,
  DuckLake has transactions whose COMMIT loses races, and the code builds the
  same promise out of all three.
* **Races between containers** that create one schema, lock it, rebuild tables
  in it, or initialise one catalog.
* **Two implementations of one rule**: the csv gate (`csv.reader` on one line) and
  the run (pyarrow on the whole object, then `conform`), `shape_diff`
  and the engines' idea of a column name, `resolve_closure` and Python's import.
* **A callback that owns control flow.** A script can end `run_node` with an
  exception no except clause names, and its objects run code after the script
  returned.
* **Reads of moving inputs**, with failed reads the script may swallow.
* **Order of checks.** What can be refused must be refused before the script
  runs and before DDL.

`PROJECT.json` lists 40 hazards, each at its line. One has no property: a change
of the table's columns between `_check_shape` and the write, where the code
makes no promise (section 7).

## 2. The modules

| module | what it models |
|---|---|
| `Rows` | a table as a bag of rows, and what `load`, `append`, `upsert` do to it (pure operators) |
| `TargetWrite` | the abstract write contract: runs and attempts of one node, with one visible step for the write |
| `PostgresWrite`, `TrinoWrite`, `DuckLakeWrite` | `ensure_table`, `_check_shape` and the write over each adapter, statement by statement |
| `SchemaLifecycle` | N validation containers of one release on one engine: schema, lock, bind checks, rebuilds |
| `Connect` | `from_env` of the three adapters and `close` |
| `ValidationRunner` | `validation/runner.py` main, over `Connect` |
| `CsvHeader` | `fetch_header_line` of both csv readers, probe by probe |
| `Columns` | the three comparisons of column lists (pure operators) |
| `CsvNode` | the columns of a node from the release gate to the write, over `CsvHeader` and `Columns` |
| `Closure` | the merge's worklist and hash, against Python's own import |
| `Harness` | `run_node`, the script, other nodes rewriting the inputs |
| `RowsTheorems`, `TargetWriteProofs`, `PostgresWriteProofs`, `TrinoWriteProofs`, `DuckLakeWriteProofs`, `ReleaseProofs`, `ReleaseGateProofs`, `HarnessProofs` | theorems |
| `MCPostgresWrite`, `MCTrinoWrite`, `MCDuckLakeWrite`, `MCSchemaLifecycle`, `MCValidationRunner`, `MCCsvNode`, `MCClosure`, `MCHarness` | finite instances for TLC |

The three engine modules EXTEND `Rows` and INSTANCE `TargetWrite` as `Contract`,
mapping `rows` to the rows readers see under the target's name and `phase` to
what the scheduler knows. `Contract!Spec` is then a property (`KeepsContract`)
of the detailed module. `ValidationRunner` EXTENDS `Connect` and takes its
steps inside `FromEnv` and `CloseAdapter`; `CsvNode` EXTENDS `CsvHeader` and
`Columns` the same way.

### Rows

A row is a key and one value standing for all other columns. A table maps each
row to how often it is stored, so that a row appended twice differs from a row
appended once. A run's output is a *set* of rows: rows of one run that repeat a
key with different values are in it, rows repeated identically are not.
`Insert` is `_insert_rows`, `Merge` is `ON CONFLICT DO UPDATE` or `MERGE`.

### TargetWrite

`BeginRun` and `Retry` are the scheduler. `Apply` is the one step in which the
rows become visible; `Succeed` and `Fail` are what the block reports. `Fail`
promises nothing about the rows, because a commit may be applied and its reply
lost. `mode` is chosen anew by each run, since a release may change a node's
mode_type. `origin` holds the rows when the run began, `base` those when the
attempt began: these two are history, kept to state the properties.

### PostgresWrite

`pc` names the next statement, `session` the transaction of the adapter's
autocommit connection (`none`, `begun` after BEGIN, `working` after the first
statement, `aborted` after a failure), `tbl` the committed table, `work` the
table as the transaction sees it.

| action | code |
|---|---|
| `EnsureSchema`, `CreateTable`, `CreateIndex`, `CommitEnsure` | `ensure_table`: checks and `ensure_schema`, BEGIN, CREATE TABLE IF NOT EXISTS with the primary key of an upsert node, one CREATE INDEX IF NOT EXISTS, COMMIT |
| `CheckShape` | `_check_shape` over `table_columns`, in append and upsert only |
| `EnsureUniqueKey` | `UpsertCapable.upsert`, before `_upsert` |
| `BeginWrite`, `NothingToWrite`, `Truncate`, `InsertPage`, `CommitWrite` | `_transaction`, `load`, `append`, `_upsert`, `_insert_rows`; 0 rows of append and upsert open no transaction |
| `ConstraintFails` | ON CONFLICT on a table without the key, or a plain INSERT that repeats a key of a table that has it |
| `StatementFails`, `TransactionFails`, `CommitReplyLost`, `Rollback` | the except clauses; a ROLLBACK that fails itself is only logged |
| `Crash` | the container dies, the server discards the transaction |
| `AlterTable` | somebody changes the table's columns outside the contract, when no transaction holds a lock on it |

The code inserts pages of 1000 rows in order; the model splits a run's rows
into pages anywhere, which includes that split. The read-committed
isolation of Postgres is in `View`: a transaction sees what is committed when
its first statement runs. A table with the key repeats none of its values from
the start, as its PRIMARY KEY sees to.

### TrinoWrite

There are no transactions; every statement has three outcomes (`Replies`): it
is applied and answered, it is refused, it is applied and the answer lost;
`_execute` raises in the last two. `stage` and `old` hold the private tables of
each attempt, named by the attempt's uuid (the model's `token`), so what an
earlier attempt left stays and is never reused. `SwapOut`, `SwapIn`, `Recover`,
`DropOld` are the four statements of `load` after the stage is filled;
`FinalStatement` is the INSERT ... SELECT or MERGE of `_write_via_stage`;
`DropStage` is best-effort and remembers in `pc` whether an exception is under
way. Every effect takes place while the client waits for the answer: a
statement that the server applies after the container died is not modelled.
Trino and DuckLake enforce no key; what their MERGE does to a table that
already repeats one is not modelled, so a run in upsert mode begins on a table
that repeats none.

### DuckLakeWrite

`tbl` is the table in the newest snapshot of the catalog, `con` the DuckDB
connection, `snap` and `tx` the table as the transaction found it and as it has
made it; `moved` says that somebody committed since. A conflict costs one commit
of somebody else (`Errors`, `Spend`); without one only other errors happen.

| action | code |
|---|---|
| `EnsureSchema`, `BeginCreate`, `TableExists`, `CreateTable`, `ApplyLayout`, `CommitCreate` | `ensure_table`: `_retrying` around `ensure_schema` and `_create_if_absent`; `made` and `layout` record who created the table and whether its partitioning was applied |
| `Begin`, `Statement`, `Commit`, `Rollback` | `transaction()`: the statements of the with block, COMMIT outside the try, ROLLBACK whose failure is only logged |
| `RetryOrFail` | `_guarded` and `_retrying`: a conflict of a creation starts it again, anything else raises. A BEGIN inside a transaction raises a TransactionException, which `_guarded` takes for a conflict: the model keeps that |
| `CheckShape`, `EnsureUniqueKey`, `BeginWrite`, `DeleteAll`, `PutRows`, `CommitWrite` | `_check_shape`, `upsert`, `load`, `append`, `_upsert` |
| `CommitReplyLost`, `Crash` | a COMMIT is applied and raises; the container dies |
| `RivalCommits` | another session commits: elsewhere, or it creates this table, or changes its columns |

### SchemaLifecycle

Each container runs one validation operation; `engine` is the release's,
`build` what the container builds from. CREATE SCHEMA IF NOT EXISTS is two steps
(`LookForSchema`, `CreateSchema`), and who writes second takes `LostRace`: on
Postgres an error the adapter tolerates, on Trino any error, settled by
`ShowSchemas`, on DuckLake a conflict that `_retrying` repeats. On Postgres all
of it happens between `AcquireLock` and `Unlock`, the finally clause. A container
that skipped its `Unlock` would still lose the lock with its session, which the
runner's own finally ends (`Close`), so no property here rests on `Unlock` alone.
`BeginBind`, `Explain`, `EndBind` are the read-only transaction of the bind
checks, whose ROLLBACK may fail and leave the connection inside it: the BEGIN of
the build then is a warning on Postgres (and its first DDL fails) and an error
on DuckLake. `BeginBuild` to `RollbackBuild` are the builds, in one transaction
where the adapter opens one (`Transactional`). `DropSchema` is another
container, `OutsiderCreates` something without the adapter; `Crash` and `Close`
end the session, which frees its lock.

### Connect and ValidationRunner

`Connect` gives a host name several addresses, each of which refuses, stays
silent, rejects or accepts, and anew for each attempt. `Unreachable` is the
adapters' test for a retry: libpq and the DuckLake catalog report every address,
urllib3 raises the last one's error, so the Trino adapter also compares the
attempt's duration with its deadline. `OpenPassfile`, `GiveUp` and
`CloseConnection` are the passfile's life; `AttachDuckLake` includes the first
ATTACH that races another container's initialisation.

`ValidationRunner` follows `main` from the environment (`RequireEnv`) over the
candidate object (`LoadCandidate`), the adapter's discovery, the connection, the
schema operation, the csv header check, the binds and the build to the block.
Everything after `Discover` is inside the try, so a failure goes to
`ReportError`, which prints before the finally closes; success is printed after
it. The candidate's content is a verdict chosen at the start (`object`,
`defect`, `source`, `reads`).

### CsvHeader, Columns and CsvNode

`CsvHeader` keeps an object as its size and the place of its first newline, and a
buffer as how many bytes were read. `Probe` is a ranged request, `Unsatisfiable`
a range past the end, `ReadChunk` the bounded read from a server that ignores
Range. `Columns` has `check_header` (`MissingFromHeader`), `conform`
(`Conforms`, `RejectLossyCast`, `Selected`) and `shape_diff` (`Pairing`,
`ShapeDiffers`). `CsvNode` runs them in the order a node meets them: the gate,
perhaps a replaced source, `produce_csv` or a script, `conform`, `_check_shape`.
`fetch_header_line` is the header part of a node's gate, so `GateHeader` waits
for `FetchHeader` to come to an end; the gate of a script looks at no header.

The gate and the run have parsers of their own, so a source has two lists of
names: `names`, what `read_csv` finds in the object, and `spelled`, what
`csv.reader` finds in the line the probes returned (`ReadFirstLine`). `first` is
the shape of that line. On a `plain` one both find the same; of a `blank` one
(empty, or nothing but carriage returns or a byte-order mark) the gate says "no header
line", while pyarrow goes on to the next line; a `broken` one makes the gate
raise; a `split` one ends inside quotes, and the last name the gate reads is
cut short. `ShapeFits` ties the shape to the object: a line of no bytes is blank.

A produced column carries its type and the worst its values are: null, too
long, or `inexact`, which is a value the declared type cannot hold as it is.
`CastChanges` is what pyarrow's safe cast then changes without an error, from
pyarrow's behaviour and independent of `RejectLossyCast`; any other cast of such
a value raises.

### Closure

A path is the sequence of its directories and the stem of its file; a file's
body is its imports, the attributes it defines, its `__all__`, its state for the
walk and the lint, and the dynamic names it mentions. `VisitFile` is one turn of
`resolve_closure`'s worklist, `Candidates` its resolution of names over the two
roots, `HashParts` what `content_hash` digests. `Import` and `Execution` are
Python's import over the same files as `ensure_import_paths` arranges them, the
reference the walk is compared with: `Enter` looks up one part of a dotted name
under the roots that are left for it (a package, a module file, or else the
directories without `__init__` of all of them), `Submodules` are the names of a
from-import that the module does not define itself, `Loaded` follows imports from
imports. A statement that raises stops a real run unless the script catches the
error; the model goes on, and `ImportFails` tells that there is one. A contract
entry keeps what its reads say (`query`) apart from two kinds of whitespace: the
layout between tokens (`spaces`), and what stands inside a literal, around a `--`
comment or in a csv uri (`text`). `CanonicalEntry` loses both. Between two releases `NextRelease` writes,
removes or renames one file, edits the script, or changes the entry.

### Harness

`pc` is the next call of `run_node`, `raised` the exception on its way to the
except clauses. `Raise(from, Wrap(errors, c))` is the code's pattern of a try
block that lets HarnessErrors pass and turns any other Exception into `c`;
`"Exit"` is SystemExit, which no clause names. The script acts between import
and the end of `to_arrow`, which may call back into its object: `ScriptPrints`,
`ReadMemoized`, `ReadFetched`, `ReadFails` in any order, interleaved with
`InputsChange`; `ScriptEnds` lets it return, raise any HarnessError or other
exception, or exit. The print of a block may itself fail (`unprinted`), of a
success inside the try. What a call computes is a verdict; which calls are made, in which
order, and what their exceptions become is the model.

## 3. The runs

All configurations set `CHECK_DEADLOCK FALSE`: the system really stops. A
container exits after one node, the scheduler gives up after a bounded number of
attempts, a merge ends.

| run | asks | distinct states |
|---|---|---|
| `harness_run` | does every path through `run_node` end in a block that agrees with code and table, in the right order of checks, with the adapter closed once and one version per read? | 44 490 |
| `postgres` | does the Postgres write path implement `TargetWrite` in every mode, over runs that change the mode, and does every attempt end? | 57 189 |
| `trino` | do staged append and upsert implement `TargetWrite`, and does the two-rename swap of a replace keep the rows through failures, lost replies, deaths, retries and changes of mode? | 1 093 568 |
| `ducklake` | does the DuckLake write path implement `TargetWrite` while others commit, and does a creation survive lost races? | 135 226 |
| `schema` | do containers of one release, on each engine, get through a race for the schema, and are their rebuilds atomic where they are transactions? | 37 374 |
| `validation` | does one validation container, over every way of connecting, leave one block, the right exit code, no leak and no table past a failed check? | 89 666 |
| `csv_node` | on which sources do the gate and the run differ, does only what the contract declares reach the table, does `shape_diff` pair columns rightly, and is the header line whole? | 3 438 004 |
| `closure` | does a release with an unchanged hash run unchanged code under an unchanged contract? | 2 774 644 |
| `harness_sysexit` | violated: `ExactlyOneBlock` (section 5) | |
| `harness_stdout` | violated: `StdoutReserved` (section 5) | |
| `trino_swap` | violated: `AllOrNone` (section 5) | |
| `csv_limit` | violated: `HeaderAsDocumented` (section 5) | |

What the properties say, beyond one type invariant per run:

* `KeepsContract`: the detailed module implements `TargetWrite` (Postgres and
  DuckLake in all three modes, Trino in append and upsert). It contains that all
  of an attempt's rows are visible or none, and that rows which repeat a key
  are not written. `RetrySafe` is an invariant of `TargetWrite`, seen through
  the refinement mapping; on Trino it is checked for a replace as well, where
  the refinement fails.
* `AppendedWhole`: after any number of retries the table is its earlier rows
  plus whole copies of the run's rows, no more than one per attempt. That a
  retried append may store rows twice is documented; that it never stores a
  part of them is what this adds.
* `DriftStopsWrite`: a table whose columns had changed when the attempt began
  is not written by append or upsert.
* `AttemptEnds`: every attempt on Postgres ends in a report.
* `NeverPartial`, `RowsNeverLost`: a Trino replace shows the rows of the last
  finished write or an empty table, and those rows are always in some table,
  if only under a private old name. These are what remains of the contract's
  atomicity in the swap.
* `CleanAttemptLeavesNothing`: without a failed statement no private table is
  left behind.
* `TransactionEnds`: a DuckLake session is inside a transaction exactly where
  the with block says so, unless something other than a conflict failed.
* `LayoutComesWithTheTable`: a table has its partitioning exactly when this
  program created it.
* `RaceLosersSucceed`: no creation is given up after fewer commits of others
  than it has attempts.
* `LockSerializes`: on Postgres one container at a time looks for the schema and
  writes it, although every statement commits on its own, and none holds the
  lock past `ensure_schema`. `EnsuredWasPresent`, `RaceIsNoFailure`,
  `RebuildIsAtomic`: what `ensure_schema` promises on return, that a container
  whose own statements work never fails, the atomicity of a transactional
  rebuild. `ContainersEnd`: the retries of a lost race, the look at the schemas
  after it and the wait for the lock all end, also when the schema is dropped
  again. It says nothing of a dropped `Unlock`, which the end of a session makes
  up for.
* `BlockAgreesWithExit`, `GateHolds`, `NothingLeaks`, `AtMostOneTimeout`: the
  validation container.
* `HeaderWhole`: wherever probes cut it, the header line is the first line.
  `GateMatchesRun`: on one source the gate refuses what the run would take only
  where the first line is blank, broken or split, a request failed, the line is over
  the limit, or an object read in ranges is whole probes without a newline; and
  what it promotes fails on its names only under `raise`, for a repeated name or
  behind a quoted newline. TLC finds a counterexample when any one of these
  exemptions is left out.
  `WrittenIsDeclared`: each declared column comes from the one produced column of
  its name, without a null or a length the contract excludes, and an inexact
  value is changed on the way by the three casts of `Unguarded` only; each of
  them happens. `DriftIsSeen` compares the greedy pairing with all pairings.
* `ChangeIsSeen`: two releases with one hash have contracts that say the same but
  for whitespace in literals and comments of their reads, and execute the same
  bodies, up to the blind spots of section 5; a change of the timeout or of the
  layout of a read alone keeps the hash.
* `ReportAgrees`, `ErrorClassTellsTheTable`, `RejectedBeforeItCosts`,
  `RepeatableReads`, `AdapterClosedOnce`: see `Harness`. The first two speak of runs
  whose blocks could be printed: a success whose print fails is reported as a
  ScriptError after a committed write.

Every property of a passing run has a mutant in `PROJECT.json`: a definition of
the module changed as a plausible fault would change it (operators marked
`fault:`), under which TLC finds the property violated.

### Bounds and why they are enough

* **Rows.** Two keys and two values: a run can overwrite a key, repeat one, add
  one, and be split into pages. A seed table is absent or holds one row
  that a run may overwrite; on Postgres also empty, with or without key and
  index, declared or drifted.
* **Attempts.** Postgres: three attempts in each of two runs, so that a retry
  meets what a failure left, fails in its turn, and another follows, and a
  second run may have another mode. Trino: three attempts over all runs; a lost
  row would need a private table of an earlier attempt to be touched by a
  later one, and three tokens allow that twice. DuckLake: two attempts and two
  commits of others against `_CONFLICT_ATTEMPTS` cut from five to two, so that
  one conflict is survived and two exhaust the loop. The proofs hold for any
  number.
* **Containers.** Two, on each engine, with one drop and any number of
  outside creations while the schema is absent: every race here is between two
  writers. With `_retrying` at two attempts and one drop a container can lose twice.
* **Connecting.** Two addresses, so that one may be silent and the other refuse;
  the five attempts of the code. Up to two declared reads, the second of which
  may be the one that does not bind.
* **Header.** Probes of two bytes, a limit of two probes and objects of up to
  seven bytes: objects and lines that end before, at and after every probe boundary,
  the limit and the probe that crosses it.
* **Columns.** Three names, two of which fold together; contracts of one and two
  columns; produced tables of up to two columns over all seven types, exact and inexact
  (two of the types with nulls and lengths), headers of up to three names, of
  every shape of the first line.
* **Closure.** A script in a directory beside a package and a top-level package
  of the same name, so that both roots, both forms of a module, relative and
  star imports meet; up to two more files at the first release and any one edit.
  A chain of imports through three files is shorter than the six that `Loaded`
  follows; the proof holds for any number.
* **Harness.** Two declared reads and an undeclared name, inputs rewritten
  twice. The violated runs need no rewrites.

### Fairness

`PostgresWrite!FairSpec` adds `WF_vars(Program)`: if the program can take its
next statement it eventually does, or fails it. The drivers answer every call
with a result or an exception, and `run_node` is sequential. `AttemptEnds`
therefore says that the control flow has no loop and no state without a next
statement. `SchemaLifecycle!FairSpec` is weak fairness of each container's
`Program(c)`, and as the lock is taken with a step of it, Postgres grants a free
lock to a session that waits. Weak fairness is enough for a lock here because
every container takes it once: the others run out. No fairness is
assumed of the scheduler, of failures, of deaths or of other writers; a server
that never answers is outside the model.

## 4. The proofs

TLAPS checks every theorem for every value of the constants that the module
assumes: seed tables are bags and results sets of rows, bounds are naturals,
`_CONFLICT_ATTEMPTS` is positive (at least two in `SchemaLifecycle`: with one,
losing the race would be a failure), the advisory lock's "nobody" is no
container, a host has an address, declared reads are among the names a script
may ask for, the header limit is a multiple of the probe (`csv_source.py` has
64 KiB and 1 MiB), a contract names no column twice (the loader refuses that),
headers (with a name at least), script results and live tables are sequences
of columns, a repository is
finite, holds the script, and its import statements are those the grammar
allows. `Rows` and `TargetWrite` assume nothing.

**`RowsTheorems`.** `Insert`, `Merge` and `Put` keep bags, compose over disjoint
pages, and repeat without effect in the modes that promise it.

**`TargetWriteProofs`.** What any engine inherits that implements the contract:
`RetrySafeHolds`, since a retry of an idempotent run starts from the run's
origin or from the run's own effect (`BaseInv`), and writing twice is writing
once.

**`PostgresWriteProofs`.** `PgInv` says which transaction is open at each
statement (`SessionInv`), that the open transaction sees the attempt's base plus
the pages inserted so far (`RowsInv`, by `PutPages`), and what everybody else
sees (`CommittedInv`). From it `Refinement` (`Spec => KeepsContract`): the COMMIT
of the write maps to `Apply`, the report to `Succeed` or `Fail`, everything else
to a stutter. `RetrySafeHolds`, `AllOrNoneHolds` and `DuplicateKeysRefused` are
inherited: `Proved == INSTANCE TargetWriteProofs` under the same mapping. Three
properties go beyond the contract and have an invariant of their own: `DriftInv`,
`KeyInv` (only `ensure_table` gives a table its key, and a table without it has
not been written by the run) and `CopiesInv` (an attempt of an append run starts
from the run's origin plus one copy for each earlier attempt that was applied).

**`TrinoWriteProofs`.** Without transactions the invariant is about the private
tables. `FreshInv`: what carries an attempt's uuid, the attempt made. `StageInv`:
the stage fills up with the run's rows. `TargetInv`: the target is untouched up
to the swap or the one final statement. `GoodInv` strengthens `RowsNeverLost`:
the old table is dropped only once the new rows are under the node's name
(`pc = "drop_old"`), and put back only while nothing is there. `RunInv` is
`BaseInv` of the contract, proved again because a run may follow one whose swap
broke. `CleanInv` gives `CleanAttemptHolds`. `Refinement` maps the final
statement to `Apply`.

**`DuckLakeWriteProofs`.** `LakeInv`: where a transaction is open, that it works
on a snapshot whose rows are the attempt's base and stay so for everybody
else until its COMMIT (`RowsInv`), and that a table without its layout is seen
inside a creation only (`LayoutInv`). `RaceInv` counts: every creation lost so
far, and the conflict that may come next, is a commit of somebody else; that is
`RaceLosersSucceedHolds` for any number of attempts and of rivals.

**`ReleaseProofs`, first part: `SchemaLifecycle`.** `LifecycleInv` for any set
of containers: `LockInv` adds to the property where the lock is *not* held,
`PresentInv` carries what `ensure_schema` saw into the build, `RaceInv` says that
a container without a failure loses the race at most once and comes to its build
with an idle connection, `BuildInv` that what a build commits is whole.

**`ReleaseProofs`, second part: `Closure`.** `ChangeIsSeenHolds`, for every
repository, path, import statement, edit and length of import chains. The two
programs it compares share no code, so the argument follows one statement
through both:

1. *One root.* Outside `SplitPackage` Python's import of a dotted name stays under
   its `Home`, the first root that has anything under the name's first part
   (`ImportInv`, kept part by part: `ImportFirst`, `ImportNext`). It loads the
   modules `Passed` on the way there and nothing else.
2. *One place.* Python resolves a relative import by the module's package, the
   walk by the directory of its file; the names differ by the root, and lead to
   the same place (`TargetAimed`).
3. *Coverage.* So the candidates of a statement hold every file the statement
   loads (`TargetWalked`, `SubmoduleWalked`, `StatementWalked`), but for links
   that leave the repository; by induction over the chain of imports a set of
   files that is closed under candidates covers the whole run (`LoadedCovered`).
4. *Agreement.* Two trees that agree on such a set load the same files of it
   (`ImportAgrees`, `StatementAgrees`, `ExecutionAgrees`). The hard case is a name
   that only one of them has a file for: the other would then find it elsewhere,
   and that is one of the blind spots or a failing import.
5. *The merge.* `MergeInv`: the files found are closed under candidates but for
   those still in the queue, none was found in vain (`Least`), and the second
   tree is the first one after one edit. `MergeInvariant` proves it of every
   order of the queue. TLC checked it on repositories of the script and one
   file before it was proved.
6. *The hash.* Equal hash parts are entries that say the same but for whitespace
   (`Says`, `SpacesInText`), equal scripts and equal numbers of files with each
   body. One edit cannot exchange bodies among the same
   members, so the two trees agree on the closure (`DigestsTell`), and 4 applies.

Each exemption is needed: without it TLC finds a counterexample.

**`ReleaseGateProofs`.** First the validation runner. `ConnectInv` says what each
attempt has left open (`OpenInv`) and that nothing is tried after an attempt that
waited (`TimeoutInv`). `RunnerInv` carries it through `main`: `CloseInv` (only the
finally closes), `GateInv` (the checks that are behind), `BlockInv` (block, exit
code and effects). Then the columns of a node. `NodeInv` has one part per
program: `HeaderInv` (no newline in what was probed so far, and no more than the
limit of it), `RaisedInv` (every ranged probe before the last was full, so a header
is refused for one of the reasons the property names), `NodeTypes`,
`PromotedInv` (the gate's verdict is that of the names `csv.reader` spelled, which
are the run's on a plain line), `FilledInv` (what is selected comes from a table that conforms),
`ShapeInv` (a live table was decided by `shape_diff`). What `Pairing` computes
holds for any number of columns: it is a recursive function, whose induction is
done on the set of depths at which the claim holds (`Induction`, from the least
element of a set of naturals, `LeastNat`). `DriftIsSeenHolds` compares the greedy
pairing with all pairings. `GatesAgree` joins the two halves: the verdict that
`ValidationRunner` takes as given is what the gate of `CsvNode` computes.

**`HarnessProofs`.** The safety properties speak of the end of a run, so none
is inductive. `HarnessInv` adds what `run_node` knows at each call: before a
block is printed nothing else was (`BlockInv`), after DDL only a LoadError or
a ConformError can be under way, or the error of a print (`TableInv`), which checks are behind each call
(`CostInv`), a memoized read was fetched once (`MemoInv`), only the finally
closes (`CloseInv`).

**Only model-checked.** Every invariant and every safety property of the passing
runs is proved. What stays with TLC is liveness under fairness
(`AttemptEnds`, `ContainersEnd`), which is out of the prover's reach together with
ENABLED. The four violated runs show counterexamples, which need no proof. No
module uses a RECURSIVE operator; recursion is by recursive functions, and an
induction over them is stated for a set of naturals, as the library's induction
theorems take an operator that no backend can instantiate.

## 5. Findings

1. **`harness_sysexit`.** A script that calls `sys.exit` (at import or in
   `run`) ends the container without a result block: `run_node` catches
   `HarnessError` and `Exception`, and SystemExit is neither. `harness.py:7-9`
   and `cli.py:169` promise exactly one block. `ReportAgrees` and
   `AdapterClosedOnce` hold in this case too: no false success is reported and
   the adapter is closed.
2. **`harness_stdout`.** stdout is redirected while the script is imported and
   run, but not while `to_arrow` converts what it returned; for an object with
   `__arrow_c_stream__` the conversion calls the script's own code, whose prints
   reach the stdout that `docs/boundary-contract.md:403` reserves for the block.
3. **`trino_swap`.** Between the two renames of a replace on Trino readers find
   no table, and a failure there leaves the target missing, then (after the
   retry's `ensure_table`) empty. `README.md:217` and `port.py:183` promise
   atomic writes; the adapter's own module docstring describes the window.
   `RowsNeverLost` shows that the rows survive under the old name.
4. **`csv_limit`.** `csv_source.py:91-92` says that a reader returns the first
   line and raises on a header longer than `MAX_HEADER_BYTES`. A last short
   probe without a newline is returned unmeasured (`s3.py:43`), so a longer
   header passes; and an object without a newline whose size is a multiple of
   the probe is taken for unreadable, because the next range is past its end.
   `https.py:102-107` does the same.

`Closure` met four layouts in which the walk of imports and Python part; the
last two were found by the proof, whose induction broke on them. They are
stated as exemptions of `ChangeIsSeen`, since in each a changed file can leave
the hash unchanged, which `closure.py:13` calls "a correctness bug". The search
roots are the same list in the walk and in Python (`closure.py:22`); what is
done with them differs:

* `StarExport`: `from pkg import *` imports the submodules that `__all__` names;
  the walk reads no `__all__`.
* `SplitPackage`: a directory without `__init__.py` at the repository's root and
  a module or package of the same name beside the script. The walk takes
  the first root that has the full name; Python prefers the regular package, or
  the module, of the later root.
* `HidingLink`: a symbolic link that leaves the repository is no candidate
  (`closure.py:260`), yet `_resolve_name` returns it (`closure.py:199`), so the
  walk has no other file for the name. Where the link stands in the way of a
  module or package of the same name, creating or removing it changes
  which file Python runs.
* `BareDirectory`: a directory without `__init__.py` inside a package. `import a.b`
  runs `a/__init__.py`; the walk finds no file `a/b` and drops the whole name,
  its packages included (`closure.py:250-252`).
* Bodies that moved between paths: digests are of contents only, as
  `docs/boundary-contract.md:222-229` says.

Releases in which an import fails are exempt as well. Such a run ends before it
writes, unless the script catches the ImportError: for `import a.b.c` without a file
`a/b/c` Python has then run `a/__init__.py`, which the walk dropped with the name.

Other places where a document or a comment says more than the code does, each
named in the property it would break:

* `hashing.py:47-49` joins the words of a read with single spaces, also inside an SQL
  literal and behind a `--` comment: `'a  b'` may become `'a b'`, or a line leave a
  comment, under the old hash. `docs/boundary-contract.md:239-242` says that any
  semantic edit to reads changes it (`SpacesInText` in `ChangeIsSeen`).
* `docs/boundary-contract.md:260-261` names the importing file's own directory as
  the second search root; `closure.py:222-226` and Python use the script's.
* `conform.py:3-8` promises to raise "rather than silently truncating or
  corrupting data". `_reject_lossy_cast` knows three kinds of pairs;
  `table.cast(safe=True)` also takes decimals and texts to the nearest double and a
  zoned timestamp to one without a zone (`Unguarded` in `WrittenIsDeclared`).
* The gate says "no header line (empty or unreadable)" (`runner.py:260-264`) of a
  source that begins with a blank line, which pyarrow skips; it raises on a bare
  carriage return, which pyarrow takes for the end of the line; it reads half a
  name where a quoted newline follows; and it refuses the newline-less headers of
  finding 4. The run takes all of these (`GateMatchesRun`).
* `run_node` prints the success block inside the try (`harness.py:392`). If that print
  fails, the write is committed and the block, if any, says ScriptError
  (`unprinted` in `ReportAgrees`, `ErrorClassTellsTheTable`, `ExactlyOneBlock`).

## 6. What is left

1. The contract loader's rules per kind and mode, as a relation between a
   document and the node it becomes; `Harness` takes the outcome as a verdict.
2. `NodeRun`: `Harness` composed with an engine module, several nodes and a
   scheduler, so that `RepeatableReads` and the write contract meet.

## 7. Not modelled, and why

* The content of rows and conversions of values: pyarrow and the drivers do
  them. `Columns` knows which pairs of types lose values, and that a cast may
  fail. What pyarrow does (`CastChanges`, the lines it skips) is taken from its
  documented behaviour. How `read_csv` reads a cell of a declared column is not
  modelled, except that it may be null or too long.
* A change of the table's columns between `_check_shape` and the write: the
  action exists in all three engine modules, but the code makes no promise
  there.
* Rows of one run that are identical in every column; concurrent containers of
  one node (the scheduler runs one); statements the server applies after the
  client is gone; MERGE on a Trino or DuckLake table that already repeats a key.
* Symbolic links between two places inside the repository: the walk and Python
  then give one file two names.
* Loader rules, lint rules, CLI parsing, SQL rendering and quoting, type and
  config grammars: functions of one document or value, without state. A
  rejected value is an error outcome of `Harness` or `ValidationRunner`.
* Output that fails only when the interpreter flushes it at its exit, after
  `run_node` returned.
* Logging, secrets, the conformance suite, build scripts, release tooling,
  images and templates.
