-------------------------- MODULE MCPostgresWrite --------------------------
(* Two keys, two values.  A run has no rows, the row the table may already *)
(* hold, rows that overwrite it and add a key, or rows that repeat a key.  *)
(* Two runs of up to three attempts: the second may be in another mode.    *)
EXTENDS PostgresWrite

CONSTANTS k1, k2, v1, v2

MCKey == {k1, k2}
MCVal == {v1, v2}
R(k, v) == [key |-> k, val |-> v]
MCSeedRows == {NoRows, Insert(NoRows, {R(k1, v1)})}
MCResults == {{}, {R(k1, v1)}, {R(k1, v2), R(k2, v1)}, {R(k1, v1), R(k1, v2)}}
=============================================================================
