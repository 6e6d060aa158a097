-------------------------- MODULE MCDuckLakeWrite --------------------------
(* Two keys, two values.  A run has no rows, the row the table may already *)
(* hold, rows that overwrite it and add a key, or rows that repeat a key.  *)
(* _retrying is cut from five attempts to two, so that two commits of      *)
(* others exhaust it and one does not; two attempts let a retry meet an    *)
(* applied write or a connection left inside a transaction.                *)
EXTENDS DuckLakeWrite

CONSTANTS k1, k2, v1, v2

MCKey == {k1, k2}
MCVal == {v1, v2}
R(k, v) == [key |-> k, val |-> v]
MCSeedRows == {NoRows, Insert(NoRows, {R(k1, v1)})}
MCResults == {{}, {R(k1, v1)}, {R(k1, v2), R(k2, v1)}, {R(k1, v1), R(k1, v2)}}
=============================================================================
