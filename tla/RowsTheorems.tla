---------------------------- MODULE RowsTheorems ----------------------------
(* What the write operators of Rows return and preserve, for every set of  *)
(* keys and values.                                                        *)
EXTENDS Rows, TLAPS

(* Every write yields a bag of rows.                                       *)
LEMMA PutType ==
  ASSUME NEW mode, NEW b \in Bag, NEW S
  PROVE  Put(mode, b, S) \in Bag
BY DEF Put, Merge, Insert, Bag

(* An empty table is a bag of rows.                                        *)
LEMMA NoRowsType == NoRows \in Bag
BY DEF NoRows, Bag

(* The whole write of load, append or upsert yields a bag of rows.         *)
LEMMA EffectType ==
  ASSUME NEW mode, NEW b \in Bag, NEW S
  PROVE  Effect(mode, b, S) \in Bag
BY PutType, NoRowsType DEF Effect, Kept

(* Inserting page by page is inserting all pages at once: the pages of one *)
(* data set are disjoint and, for an upsert, repeat no key.                *)
LEMMA PutPages ==
  ASSUME NEW mode, NEW b \in Bag,
         NEW S \in SUBSET Row, NEW P \in SUBSET Row, S \cap P = {},
         mode = "upsert" => UniqueKeys(S \cup P)
  PROVE  Put(mode, Put(mode, b, S), P) = Put(mode, b, S \cup P)
<1>1. CASE mode = "upsert"
  <2>1. Merge(Merge(b, S), P) = Merge(b, S \cup P)
    <3>1. SUFFICES ASSUME NEW r \in Row
                   PROVE  Merge(Merge(b, S), P)[r] = Merge(b, S \cup P)[r]
      BY DEF Merge
    <3>2. CASE r \in P
      BY <3>2 DEF Merge
    <3>3. CASE r \notin P /\ r.key \in KeysOf(P)
      <4>1. PICK p \in P : p.key = r.key
        BY <3>3 DEF KeysOf
      <4>2. r \notin S
        BY <3>3, <4>1, <1>1 DEF UniqueKeys
      <4>3. r.key \in KeysOf(S \cup P)
        BY <4>1 DEF KeysOf
      <4> QED BY <3>3, <4>2, <4>3 DEF Merge
    <3>4. CASE r \notin P /\ r.key \notin KeysOf(P)
      <4>1. r.key \in KeysOf(S) <=> r.key \in KeysOf(S \cup P)
        BY <3>4 DEF KeysOf
      <4> QED BY <3>4, <4>1 DEF Merge
    <3> QED BY <3>2, <3>3, <3>4
  <2> QED BY <1>1, <2>1 DEF Put
<1>2. CASE mode # "upsert"
  BY <1>2 DEF Put, Insert, Bag
<1> QED BY <1>1, <1>2

(* Writing nothing changes nothing.                                        *)
LEMMA PutNothing ==
  ASSUME NEW mode, NEW b \in Bag
  PROVE  Put(mode, b, {}) = b
BY DEF Put, Merge, Insert, Bag, KeysOf

(* A replace or an upsert of rows already written is a no-op: the reason a *)
(* retry is safe in these modes and not in append.                         *)
LEMMA EffectIdempotent ==
  ASSUME NEW mode \in {"replace", "upsert"}, NEW b \in Bag,
         NEW S \in SUBSET Row
  PROVE  Effect(mode, Effect(mode, b, S), S) = Effect(mode, b, S)
<1>1. CASE mode = "replace"
  BY <1>1 DEF Effect, Kept
<1>2. CASE mode = "upsert"
  BY <1>2 DEF Effect, Kept, Put, Merge
<1> QED BY <1>1, <1>2

(* The row count of a key in a table after an upsert is at most one, if it *)
(* was so before and the new rows repeat no key.                           *)
LEMMA MergeKeyedOnce ==
  ASSUME NEW b \in Bag, KeyedOnce(b),
         NEW S \in SUBSET Row, UniqueKeys(S)
  PROVE  KeyedOnce(Merge(b, S))
<1>1. SUFFICES ASSUME NEW r \in Row, NEW s \in Row
               PROVE  /\ Merge(b, S)[r] <= 1
                      /\ r.key = s.key /\ Merge(b, S)[r] > 0 /\ Merge(b, S)[s] > 0
                         => r = s
  BY DEF KeyedOnce
<1>2. Merge(b, S)[r] <= 1
  BY DEF Merge, KeyedOnce, Bag
<1>3. ASSUME r.key = s.key, Merge(b, S)[r] > 0, Merge(b, S)[s] > 0
      PROVE  r = s
  <2>1. CASE r.key \in KeysOf(S)
    <3>1. r \in S /\ s \in S
      BY <1>3, <2>1 DEF Merge
    <3> QED BY <1>3, <3>1 DEF UniqueKeys
  <2>2. CASE r.key \notin KeysOf(S)
    <3>1. r \notin S /\ s \notin S
      BY <1>3, <2>2 DEF KeysOf
    <3>2. b[r] > 0 /\ b[s] > 0
      BY <1>3, <2>2, <3>1 DEF Merge
    <3> QED BY <1>3, <3>2 DEF KeyedOnce
  <2> QED BY <2>1, <2>2
<1> QED BY <1>2, <1>3

(* A table after n attempts of one append run were applied.                *)
Copies(b, S, n) == [r \in Row |-> IF r \in S THEN b[r] + n ELSE b[r]]

(* One more attempt adds one more copy of all rows of the run.             *)
LEMMA InsertCopies ==
  ASSUME NEW b \in Bag, NEW S, NEW n \in Nat
  PROVE  /\ Copies(b, S, 0) = b
         /\ Insert(Copies(b, S, n), S) = Copies(b, S, n + 1)
BY DEF Copies, Insert, Bag
=============================================================================
