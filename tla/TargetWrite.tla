----------------------------- MODULE TargetWrite -----------------------------
(***************************************************************************)
(* What the write path of a node promises, whatever the engine: a run is a *)
(* sequence of attempts by one container at a time; an attempt changes the *)
(* rows a reader sees in one step or not at all; success is reported only  *)
(* for rows that are in place.  A failure report promises nothing about    *)
(* the rows: the commit may have been applied before its reply was lost.   *)
(* The engine modules implement this one.                                  *)
(***************************************************************************)
EXTENDS Rows

VARIABLES
  rows,      \* the rows a reader of the target sees
  base,      \* ... as they were when the current attempt began
  origin,    \* ... as they were when the current run began
  mode,      \* the node's mode_type in the current run; a release may change it
  data,      \* the conformed rows of the current run
  phase      \* what the scheduler knows of the current attempt

vars == <<rows, base, origin, mode, data, phase>>

Phases == {"idle", "running", "ok", "failed"}

TypeOK ==
  /\ rows \in Bag /\ base \in Bag /\ origin \in Bag
  /\ mode \in Modes /\ data \in SUBSET Row
  /\ phase \in Phases

Init ==
  /\ rows \in Bag
  /\ base = rows /\ origin = rows
  /\ mode \in Modes /\ data = {}
  /\ phase = "idle"

(* The scheduler starts a run of the node: a new container, new rows. *)
BeginRun ==
  /\ phase # "running"
  /\ phase' = "running"
  /\ base' = rows /\ origin' = rows
  /\ mode' \in Modes /\ data' \in SUBSET Row
  /\ UNCHANGED rows

(* The scheduler retries a run whose attempt was reported failed. *)
Retry ==
  /\ phase = "failed"
  /\ phase' = "running"
  /\ base' = rows
  /\ UNCHANGED <<rows, origin, mode, data>>

(* The one step in which the write becomes visible. *)
Apply ==
  /\ phase = "running"
  /\ rows = base
  /\ mode = "upsert" => UniqueKeys(data)
  /\ rows' = Effect(mode, base, data)
  /\ UNCHANGED <<base, origin, mode, data, phase>>

Succeed ==
  /\ phase = "running"
  /\ mode = "upsert" => UniqueKeys(data)
  /\ rows = Effect(mode, base, data)
  /\ phase' = "ok"
  /\ UNCHANGED <<rows, base, origin, mode, data>>

Fail ==
  /\ phase = "running"
  /\ phase' = "failed"
  /\ UNCHANGED <<rows, base, origin, mode, data>>

Next == BeginRun \/ Retry \/ Apply \/ Succeed \/ Fail

Spec == Init /\ [][Next]_vars

-----------------------------------------------------------------------------
(* All of an attempt's rows are visible or none are, also while it runs    *)
(* and after it failed (README "Every write is atomic").                   *)
AllOrNone == rows \in {base, Effect(mode, base, data)}

(* The modes in which a run may be repeated.                               *)
Idempotent == mode \in {"replace", "upsert"}

(* However often a replace or upsert run is retried, and whichever of its  *)
(* attempts was applied before being reported failed, the run's success    *)
(* leaves exactly the rows one successful attempt would have left.  Append *)
(* has no such promise.                                                    *)
RetrySafe ==
  Idempotent /\ phase = "ok" => rows = Effect(mode, origin, data)

(* A failed attempt whose rows repeat a key changed nothing. *)
DuplicateKeyWritesNothing ==
  mode = "upsert" /\ ~UniqueKeys(data) => rows = origin /\ phase # "ok"
=============================================================================
