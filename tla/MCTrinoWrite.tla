---------------------------- MODULE MCTrinoWrite ----------------------------
(* Two keys, two values.  A run has no rows, rows that overwrite the row   *)
(* the table may hold and add a key, or rows that repeat a key.            *)
(* Three attempts let a retry, or a run in another mode, meet what an      *)
(* earlier failure left behind and fail in its turn before a success.      *)
EXTENDS TrinoWrite

CONSTANTS k1, k2, v1, v2

MCKey == {k1, k2}
MCVal == {v1, v2}
R(k, v) == [key |-> k, val |-> v]
MCSeedRows == {Insert(NoRows, {R(k1, v1)})}
MCResults == {{}, {R(k1, v2), R(k2, v1)}, {R(k1, v1), R(k1, v2)}}
=============================================================================
