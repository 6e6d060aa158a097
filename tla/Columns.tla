------------------------------- MODULE Columns -------------------------------
(***************************************************************************)
(* The three comparisons of column lists: check_header of the csv gate,    *)
(* conform of a produced table, and shape_diff of a live table, each with  *)
(* the declared output columns.  A list of columns is a sequence of        *)
(* records; Fold maps a name to its case-folded form.                      *)
(***************************************************************************)
EXTENDS Naturals, Sequences

CONSTANTS
  Fold        \* casefold(), a function on the column names

ColumnName == DOMAIN Fold
Types == {"varchar", "decimal", "double", "bool", "timestamp", "date"}

(* A script may also return timestamps of a time zone; none is declared.   *)
SourceTypes == Types \cup {"zoned"}
Times       == {"timestamp", "zoned"}

Names(columns) == {columns[i].name : i \in DOMAIN columns}
Distinct(columns) ==
  \A i, j \in DOMAIN columns : columns[i].name = columns[j].name => i = j

(* check_header: presence only, exact names, in any order.                 *)
MissingFromHeader_Folded(names, declared) ==   \* fault: names compared like shape_diff
  {n \in Names(declared) : Fold[n] \notin {Fold[names[i]] : i \in DOMAIN names}}

MissingFromHeader(names, declared) ==
  {n \in Names(declared) : n \notin {names[i] : i \in DOMAIN names}}

-----------------------------------------------------------------------------
(* conform.  A produced column carries the worst its values do: "null" or  *)
(* "long" values, or "inexact" ones, which the declared type cannot hold   *)
(* as they are, or none.                                                   *)

RejectLossyCast_ByTarget(source, target) ==    \* fault: any number will do for a BOOLEAN
  \/ target = "decimal" /\ source = "double"
  \/ target = "date" /\ source \in Times

RejectLossyCast(source, target) ==
  \/ target = "decimal" /\ source = "double"
  \/ target = "bool" /\ source # "bool"
  \/ target = "date" /\ source \in Times

(* The casts of pyarrow that change a value without an error, also with    *)
(* safe=True; any other cast of a value that does not fit raises.          *)
CastChanges(source, target) ==
  \/ target = "bool" /\ source # "bool"
  \/ target = "decimal" /\ source = "double"
  \/ target = "double" /\ source \in {"decimal", "varchar"}
  \/ target = "date" /\ source \in Times
  \/ target = "timestamp" /\ source = "zoned"

NamesConform(produced, declared, policy) ==
  /\ Distinct(produced)
  /\ policy = "raise" => Names(produced) \subseteq Names(declared)
  /\ Names(declared) \subseteq Names(produced)

Named(columns, name) == CHOOSE i \in DOMAIN columns : columns[i].name = name

ValueConforms(column, declared) ==
  /\ ~RejectLossyCast(column.type, declared.type)
  /\ column.values = "inexact" => CastChanges(column.type, declared.type)
  /\ column.values = "null" => declared.nullable
  /\ column.values = "long" => declared.type # "varchar"

Conforms(produced, declared, policy) ==
  /\ NamesConform(produced, declared, policy)
  /\ \A i \in DOMAIN declared :
       ValueConforms(produced[Named(produced, declared[i].name)], declared[i])

(* table.select(declared): which produced column fills each declared one.  *)
Selected(produced, declared) ==
  [i \in DOMAIN declared |-> Named(produced, declared[i].name)]

-----------------------------------------------------------------------------
(* shape_diff: each declared column in turn takes, of the live columns     *)
(* that are left, the one of its exact name, else the first that folds to  *)
(* the same name; 0 is no live column.                                     *)

First(S) == IF S = {} THEN 0 ELSE CHOOSE k \in S : \A l \in S : k <= l

ExactIn(left, column, live)  == {k \in left : live[k].name = column.name}
FoldedIn(left, column, live) == {k \in left : Fold[live[k].name] = Fold[column.name]}

Counterpart_FoldedOnly(left, column, live) ==   \* fault: the exact name has no precedence
  First(FoldedIn(left, column, live))

Counterpart(left, column, live) ==
  First(IF ExactIn(left, column, live) # {}
          THEN ExactIn(left, column, live) ELSE FoldedIn(left, column, live))

Left(paired, i, live) == DOMAIN live \ {paired[j] : j \in 1 .. i - 1}

Pairing(declared, live) ==
  LET paired[i \in DOMAIN declared] ==
        Counterpart(Left(paired, i, live), declared[i], live)
  IN paired

ShapeDiffers(declared, live) ==
  LET paired == Pairing(declared, live) IN
  \/ \E i \in DOMAIN declared : paired[i] = 0
  \/ DOMAIN live # {paired[i] : i \in DOMAIN declared}
  \/ \E i \in DOMAIN declared : live[paired[i]].nullable # declared[i].nullable
=============================================================================
