-------------------------- MODULE TargetWriteProofs --------------------------
(* What every engine that implements TargetWrite inherits, for every key,  *)
(* value and mode.  RetrySafe compares the rows with those at the start of *)
(* the run; an attempt only knows those at its own start, so the invariant *)
(* relates the two: an attempt starts where the run started, or after an   *)
(* attempt whose write was applied before it was reported failed.          *)
EXTENDS TargetWrite, RowsTheorems

BaseInv == Idempotent => base \in {origin, Effect(mode, origin, data)}

(* Rows that repeat a key were never applied by an attempt of this run.    *)
KeysInv ==
  mode = "upsert" /\ ~UniqueKeys(data) =>
    base = origin /\ rows = origin /\ phase # "ok"

WriteInv ==
  /\ TypeOK
  /\ AllOrNone
  /\ BaseInv
  /\ KeysInv
  /\ phase = "ok" => rows = Effect(mode, base, data)

(* A table before the first run of its node is in the invariant.           *)
LEMMA WriteInit == Init => WriteInv
BY DEF Init, WriteInv, TypeOK, AllOrNone, BaseInv, KeysInv, Phases

(* What an attempt writes onto its own base is what one attempt would have *)
(* written onto the run's.                                                 *)
LEMMA SameEffect ==
  ASSUME WriteInv, Idempotent
  PROVE  Effect(mode, base, data) = Effect(mode, origin, data)
BY EffectIdempotent DEF WriteInv, TypeOK, BaseInv, Idempotent

(* Every run, retry, visible write and report keeps the invariant.         *)
LEMMA WriteStep == WriteInv /\ [Next]_vars => WriteInv'
<1> SUFFICES ASSUME WriteInv, [Next]_vars PROVE WriteInv'
  OBVIOUS
<1> USE DEF WriteInv, TypeOK, AllOrNone, KeysInv, Phases, Idempotent
<1>1. CASE BeginRun
  BY <1>1 DEF BeginRun, BaseInv
<1>2. CASE Retry
  <2>1. BaseInv'
    BY <1>2, SameEffect DEF Retry, BaseInv
  <2> QED BY <1>2, <2>1 DEF Retry
<1>3. CASE Apply
  <2>1. rows' \in Bag
    BY <1>3, EffectType DEF Apply
  <2> QED BY <1>3, <2>1 DEF Apply, BaseInv
<1>4. CASE Succeed
  BY <1>4 DEF Succeed, BaseInv
<1>5. CASE Fail
  BY <1>5 DEF Fail, BaseInv
<1>6. CASE UNCHANGED vars
  BY <1>6 DEF vars, BaseInv
<1> QED BY <1>1, <1>2, <1>3, <1>4, <1>5, <1>6 DEF Next

(* Whatever the order of runs, retries, writes and reports, the visible    *)
(* rows are the attempt's base or the effect of its write on that base.    *)
THEOREM WriteInvariant == Spec => []WriteInv
BY WriteInit, WriteStep, PTL DEF Spec

(* Readers see all of an attempt's rows or none.                           *)
THEOREM AllOrNoneHolds == Spec => []AllOrNone
<1>1. WriteInv => AllOrNone
  BY DEF WriteInv
<1> QED BY <1>1, WriteInvariant, PTL

(* A replace or upsert run that ends in success has had the effect of one  *)
(* attempt, however many there were.                                       *)
THEOREM RetrySafeHolds == Spec => []RetrySafe
<1>1. WriteInv => RetrySafe
  BY SameEffect DEF WriteInv, RetrySafe
<1> QED BY <1>1, WriteInvariant, PTL

(* Rows that repeat a key are never written.                               *)
THEOREM DuplicateKeysRefused == Spec => []DuplicateKeyWritesNothing
<1>1. WriteInv => DuplicateKeyWritesNothing
  BY DEF WriteInv, KeysInv, DuplicateKeyWritesNothing
<1> QED BY <1>1, WriteInvariant, PTL

(* No run of an upsert leaves two rows of one key where there were none.   *)
KeysStayUnique == mode = "upsert" /\ KeyedOnce(origin) => KeyedOnce(rows)

(* MERGE or ON CONFLICT of rows that repeat no key keeps keys unique, on   *)
(* whichever attempt's base it is applied.                                 *)
THEOREM KeysStayUniqueHolds == Spec => []KeysStayUnique
<1>1. WriteInv => KeysStayUnique
  <2> SUFFICES ASSUME WriteInv, mode = "upsert", KeyedOnce(origin)
               PROVE  KeyedOnce(rows)
    BY DEF KeysStayUnique
  <2> USE DEF WriteInv, TypeOK
  <2>1. CASE ~UniqueKeys(data)
    BY <2>1 DEF KeysInv
  <2>2. CASE UniqueKeys(data)
    <3>1. \A b : Effect(mode, b, data) = Merge(b, data)
      BY DEF Effect, Put, Kept
    <3>2. KeyedOnce(Merge(origin, data))
      BY <2>2, MergeKeyedOnce
    <3>3. KeyedOnce(base)
      BY <3>1, <3>2 DEF BaseInv, Idempotent
    <3>4. KeyedOnce(Merge(base, data))
      BY <2>2, <3>3, MergeKeyedOnce
    <3> QED BY <3>1, <3>3, <3>4 DEF AllOrNone
  <2> QED BY <2>1, <2>2
<1> QED BY <1>1, WriteInvariant, PTL
=============================================================================
