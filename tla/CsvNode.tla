------------------------------- MODULE CsvNode -------------------------------
(***************************************************************************)
(* The columns of one node from the release gate to the write: the gate    *)
(* compares a csv source's header with the contract (CsvHeader), the run   *)
(* produces a table from that source or from a script, conforms it, and an *)
(* append or upsert compares the live table's shape (Columns).             *)
(***************************************************************************)
EXTENDS CsvHeader, Columns

CONSTANTS
  Contracts,  \* the output_columns a contract may declare
  Headers,    \* the column names a header line may spell
  Scripts,    \* the tables a script may return
  LiveTables  \* the columns of the target table before an append or upsert

VARIABLES
  kind,       \* "csv" or "script"
  declared,   \* output_columns
  policy,     \* extra_columns
  stage,
  first,      \* the shape of the source's first line, as "Shapes" lists them
  names,      \* the column names read_csv finds in the source, <<>> if none
  spelled,    \* the names csv.reader finds in its first line, <<>> until then
  changed,    \* the source was replaced after the gate
  produced,   \* the table before conform
  live,       \* the target's columns as the engine reports them
  filled      \* which produced column fills each declared one

contract == <<kind, declared, policy>>
source_csv == <<first, names, changed>>
node == <<probe, contract, stage, source_csv, spelled, produced, live, filled>>

Column       == [name : ColumnName, type : SourceTypes,
                 values : {"fine", "null", "long", "inexact"}]
OutputColumn == [name : ColumnName, type : Types, nullable : BOOLEAN]
LiveColumn   == [name : ColumnName, nullable : BOOLEAN]

(* The loader refuses a contract that declares a column twice; a header, a *)
(* script's table or a live table may name one twice.                      *)
ASSUME ColumnsAssumption ==
  /\ Contracts \subseteq Seq(OutputColumn) /\ \A c \in Contracts : Distinct(c)
  /\ Headers \subseteq Seq(ColumnName) \ {<<>>}
  /\ Scripts \subseteq Seq(Column)
  /\ LiveTables \subseteq Seq(LiveColumn)

Stages == {"gate", "refused", "promoted", "conform", "shape", "written", "failed"}

(* The gate reads the first line with csv.reader, the run the object with  *)
(* read_csv.  They agree on a "plain" line.  A "blank" one has no text, and *)
(* read_csv goes on to the next; "broken" has a bare CR, a field over the  *)
(* csv module's limit or no UTF-8, on which the gate raises; "split" ends  *)
(* in a quoted newline, so that the header goes on in the next line.       *)
Shapes == {"plain", "blank", "broken", "split"}

ShapeFits ==
  /\ FirstLine = 0 => first = "blank"
  /\ first = "split" => nl > 0
  /\ names = <<>> => first = "blank"
  /\ first = "blank" /\ nl \in {0, size} => names = <<>>

NodeTypeOK ==
  /\ HeaderTypeOK
  /\ kind \in {"csv", "script"} /\ declared \in Contracts
  /\ policy \in {"raise", "warn"} /\ stage \in Stages
  /\ first \in Shapes /\ names \in Headers \cup {<<>>} /\ changed \in BOOLEAN
  /\ spelled \in Seq(ColumnName)
  /\ produced \in Seq(Column) /\ live \in LiveTables \cup {<<>>}
  /\ DOMAIN filled \subseteq DOMAIN declared
  /\ \A i \in DOMAIN filled : filled[i] \in DOMAIN produced

(* The gate of a script looks at no header.                                *)
NodeInit ==
  /\ HeaderInit
  /\ kind \in {"csv", "script"} /\ declared \in Contracts
  /\ policy \in {"raise", "warn"}
  /\ first \in Shapes /\ names \in Headers \cup {<<>>} /\ ShapeFits
  /\ kind = "script" => server = "s3" /\ size = 0
  /\ stage = IF kind = "csv" THEN "gate" ELSE "promoted"
  /\ spelled = <<>> /\ changed = FALSE
  /\ produced = <<>> /\ live = <<>> /\ filled = <<>>

FetchHeader ==
  /\ stage = "gate" /\ FetchHeaderLine
  /\ UNCHANGED <<contract, stage, source_csv, spelled, produced, live, filled>>

(* Where a quoted newline ends the line, the last name read is cut short.  *)
ReadFirstLine ==
  \/ first = "plain" /\ spelled' = names
  \/ /\ first = "split"
     /\ \E k \in DOMAIN names, n \in ColumnName :
          spelled' = Append(SubSeq(names, 1, k - 1), n)

(* No line, one without text and one that csv.reader raises on fail the    *)
(* gate; extra columns are only logged.                                    *)
GateHeader ==
  /\ stage = "gate" /\ header # Probing
  /\ IF header.state = "line" /\ first \in {"plain", "split"}
       THEN /\ ReadFirstLine
            /\ stage' = IF MissingFromHeader(spelled', declared) = {}
                          THEN "promoted" ELSE "refused"
       ELSE stage' = "refused" /\ UNCHANGED spelled
  /\ UNCHANGED <<probe, contract, source_csv, produced, live, filled>>

SourceChanges ==
  /\ kind = "csv" /\ stage = "promoted" /\ ~changed
  /\ names' \in Headers \cup {<<>>} /\ changed' = TRUE
  /\ UNCHANGED <<probe, contract, stage, first, spelled, produced, live, filled>>

(* read_csv parses a declared column as its declared type and infers the   *)
(* type of any other; without a line of text it raises.                    *)
Parsed(values) ==
  [i \in DOMAIN names |->
     [name |-> names[i], values |-> values[i],
      type |-> IF names[i] \in Names(declared)
                 THEN declared[Named(declared, names[i])].type ELSE "varchar"]]

ProduceCsv ==
  /\ stage = "promoted" /\ kind = "csv"
  /\ \/ \E values \in [DOMAIN names -> {"fine", "null", "long"}] :
          names # <<>> /\ produced' = Parsed(values) /\ stage' = "conform"
     \/ stage' = "failed" /\ UNCHANGED produced
  /\ UNCHANGED <<probe, contract, source_csv, spelled, live, filled>>

ProduceScript ==
  /\ stage = "promoted" /\ kind = "script"
  /\ produced' \in Scripts /\ stage' = "conform"
  /\ UNCHANGED <<probe, contract, source_csv, spelled, live, filled>>

(* A cast that is not lossy may still fail on the values.                  *)
Conform ==
  /\ stage = "conform"
  /\ \/ /\ Conforms(produced, declared, policy)
        /\ filled' = Selected(produced, declared)
        /\ stage' \in {"shape", "written"}      \* replace compares no shape
     \/ stage' = "failed" /\ UNCHANGED filled
  /\ UNCHANGED <<probe, contract, source_csv, spelled, produced, live>>

CheckShape ==
  /\ stage = "shape"
  /\ live' \in LiveTables
  /\ stage' = IF ShapeDiffers(declared, live') THEN "failed" ELSE "written"
  /\ UNCHANGED <<probe, contract, source_csv, spelled, produced, filled>>

NodeNext ==
  \/ FetchHeader \/ GateHeader \/ SourceChanges
  \/ ProduceCsv \/ ProduceScript \/ Conform \/ CheckShape

NodeSpec == NodeInit /\ [][NodeNext]_node
-----------------------------------------------------------------------------
AsTable(header_names) ==
  [i \in DOMAIN header_names |->
     [name |-> header_names[i], type |-> "varchar", values |-> "fine"]]

(* The gate and the run, two programs with a parser each, on one source.   *)
(* The gate refuses a source whose columns conform would take only where   *)
(* the first line is blank, broken or split, a request failed, the line is *)
(* over the limit, or an object read in ranges is whole probes without a   *)
(* newline.  What it promotes fails on its names only for what it merely   *)
(* logs or cannot see: undeclared columns under "raise", a repeated name,  *)
(* and what follows a quoted newline.                                      *)
GateMatchesRun ==
  kind = "csv" /\ stage # "gate" /\ ~changed =>
    IF stage = "refused"
      THEN \/ ~NamesConform(AsTable(names), declared, "warn")
           \/ first # "plain" \/ failed \/ FirstLine > MaxHeader
           \/ server # "whole" /\ nl = 0 /\ WholeProbes(size)
      ELSE \/ NamesConform(AsTable(names), declared, "warn")
           \/ ~Distinct(AsTable(names)) \/ first = "split"

(* The casts that change values and that _reject_lossy_cast lets through.  *)
Unguarded == {<<"decimal", "double">>, <<"varchar", "double">>, <<"zoned", "timestamp">>}

(* Whatever a script returns or a changed source holds, each declared      *)
(* column is written from the one produced column of its name, without a   *)
(* null or a length the contract excludes; a value that its type cannot    *)
(* hold is changed on the way only by one of three casts.                  *)
WrittenIsDeclared ==
  stage = "written" =>
    \A i \in DOMAIN declared :
      LET from == produced[filled[i]] IN
      /\ from.name = declared[i].name
      /\ \A j \in DOMAIN produced : produced[j].name = from.name => j = filled[i]
      /\ from.values = "null" => declared[i].nullable
      /\ from.values = "long" => declared[i].type # "varchar"
      /\ from.values = "inexact" => <<from.type, declared[i].type>> \in Unguarded

(* A pairing of all declared with all live columns, by names of the same   *)
(* key and with equal nullability.                                         *)
Pairs(f, columns, live_columns, key) ==
  /\ {f[i] : i \in DOMAIN columns} = DOMAIN live_columns
  /\ \A i \in DOMAIN columns :
       /\ key[columns[i].name] = key[live_columns[f[i]].name]
       /\ columns[i].nullable = live_columns[f[i]].nullable

Matches(key) ==
  /\ Len(declared) = Len(live)
  /\ \E f \in [DOMAIN declared -> DOMAIN live] : Pairs(f, declared, live, key)

Exact == [n \in ColumnName |-> n]

(* shape_diff pairs greedily: no append or upsert writes a table whose     *)
(* columns cannot be paired with the declared ones, and none is refused    *)
(* when the table has exactly the declared columns, in any order and also  *)
(* when two of them differ only in case.                                   *)
DriftIsSeen ==
  live # <<>> =>
    /\ stage = "written" => Matches(Fold)
    /\ stage = "failed"  => ~Matches(Exact)
=============================================================================
