-------------------------------- MODULE Rows --------------------------------
(***************************************************************************)
(* The rows of one node's target table, and what one run does to them in   *)
(* each mode_type.  A table is a bag of rows (a row count per row value),  *)
(* so that rows stored twice are told apart from rows stored once.  The    *)
(* output of a run is a set of rows; every column outside the primary key  *)
(* is abstracted to one value.                                             *)
(***************************************************************************)
EXTENDS Naturals

CONSTANTS
  Key,    \* primary key values
  Val     \* values of the columns outside the key

Modes == {"replace", "append", "upsert"}

Row    == [key : Key, val : Val]
Bag    == [Row -> Nat]
NoRows == [r \in Row |-> 0]

KeysOf(S)     == {r.key : r \in S}
UniqueKeys(S) == \A r, s \in S : r.key = s.key => r = s

(* A plain INSERT of the rows S. *)
Insert(b, S) == [r \in Row |-> IF r \in S THEN b[r] + 1 ELSE b[r]]

(* INSERT ... ON CONFLICT (key) DO UPDATE, or MERGE, of the rows S, whose  *)
(* keys are unique, into a table that holds each key at most once.         *)
Merge(b, S) ==
  [r \in Row |-> IF r \in S THEN 1
                 ELSE IF r.key \in KeysOf(S) THEN 0 ELSE b[r]]

(* The statement a mode_type writes its rows with ... *)
Put(mode, b, S) == IF mode = "upsert" THEN Merge(b, S) ELSE Insert(b, S)

(* ... the rows it starts from ... *)
Kept(mode, b) == IF mode = "replace" THEN NoRows ELSE b

(* ... and the whole write. *)
Effect(mode, b, S) == Put(mode, Kept(mode, b), S)

(* Each key is in the table at most once. *)
KeyedOnce(b) ==
  \A r, s \in Row : /\ b[r] <= 1
                    /\ r.key = s.key /\ b[r] > 0 /\ b[s] > 0 => r = s
=============================================================================
