------------------------------ MODULE MCCsvNode ------------------------------
(* Probes of 2 bytes and a limit of two probes: objects of 0 to 8 bytes     *)
(* end before, at and after every probe boundary, the limit and the probe   *)
(* that crosses it.  Names a and A fold together; contracts declare both or *)
(* one of them, with equal and different nullability.                       *)
EXTENDS CsvNode

CONSTANTS a, A, b

MCFold == [n \in {a, A, b} |-> IF n = A THEN a ELSE n]

Col(n, t, null) == [name |-> n, type |-> t, nullable |-> null]
MCContracts ==
  {<<Col(a, "varchar", FALSE)>>,
   <<Col(a, "decimal", TRUE), Col(b, "bool", FALSE)>>,
   <<Col(A, "date", TRUE), Col(a, "double", FALSE)>>,
   <<Col(a, "varchar", TRUE), Col(A, "timestamp", FALSE)>>}

Upto(n, S) == UNION {[1 .. k -> S] : k \in 1 .. n}
MCHeaders ==
  {<<a>>, <<b>>, <<A, a>>, <<a, b>>, <<A, b>>, <<a, a>>, <<b, a, A>>}
MCScripts ==
  Upto(2, [name : {a, A, b}, type : SourceTypes, values : {"fine", "inexact"}])
    \cup Upto(2, [name : {a, A}, type : {"varchar", "bool"}, values : {"null", "long"}])
MCLiveTables == Upto(2, [name : {a, A, b}, nullable : BOOLEAN])
==============================================================================
