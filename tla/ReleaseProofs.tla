----------------------------- MODULE ReleaseProofs -----------------------------
(***************************************************************************)
(* What a release does around its nodes.                                   *)
(*                                                                         *)
(* SchemaLifecycle, for any number of validation containers, of attempts   *)
(* and of drops: the lock, the end state of ensure_schema, that a lost     *)
(* race is no failure, and that a transactional rebuild is atomic.         *)
(*                                                                         *)
(* Closure, for every repository, import statement, edit and contract      *)
(* entry: the merge does not skip a node whose run would change.  The      *)
(* argument follows one statement.  Python's import of a name stays under  *)
(* the first root that has anything of its first part; the walk looks the  *)
(* statement up at the same place, so its candidates hold every file of    *)
(* the repository the statement loads; by induction over the chain of      *)
(* imports a set of files that is closed under candidates covers a run,    *)
(* and two trees that agree on the set run alike.  MergeInv says that      *)
(* resolve_closure ends with the least such set; two releases of one hash, *)
(* one edit apart, agree on theirs.                                        *)
(***************************************************************************)
EXTENDS SchemaLifecycle, Closure, FiniteSetTheorems, SequenceTheorems,
        NaturalsInduction, TLAPS

InsideLock == {"check", "write", "unlock", "unlock_raising"}

(* Between its grant and the finally, and while an error closes the        *)
(* adapter, the lock is with the container; everywhere else it is not.     *)
LockInv ==
  engine = "postgres" =>
    \A c \in Container :
      /\ pc[c] \in InsideLock => lock = c
      /\ pc[c] \notin InsideLock \cup {"closing"} => lock # c

(* A container still in ensure_schema has noticed whether the schema is    *)
(* there, and the statements after it were reached in its presence.        *)
PresentInv ==
  \A c \in Container :
    /\ pc[c] \in Ensuring /\ schema => present[c]
    /\ pc[c] \in {"unlock"} \cup Binding \cup Building \cup {"done"} => present[c]

(* Without a failure or a drop a schema once seen stays, so a container    *)
(* loses the race once, and reaches its build with an idle connection.     *)
RaceInv ==
  \A c \in Container :
    ~excused[c] =>
      /\ tries[c] > 1 \/ pc[c] = "show" => schema
      /\ pc[c] = "write" => tries[c] = 1
      /\ pc[c] = "begin" => con[c] = "idle"
      /\ pc[c] \in Ensuring \cup {"bind_begin"} => con[c] = "idle"
      /\ engine = "trino" => con[c] = "idle" /\ pc[c] # "bind_begin"
      /\ pc[c] \notin {"unlock_raising", "bind_end_raising", "rollback",
                       "closing", "failed"}

(* A transactional build works inside its transaction, and what it commits *)
(* is the whole table.                                                     *)
BuildInv ==
  \A c \in Container :
    /\ Transactional(c) /\ pc[c] \in {"drop", "create", "index"} => con[c] # "idle"
    /\ pc[c] = "commit" => tx[c] = "new"

LifecycleInv == TypeOK /\ LockInv /\ PresentInv /\ RaceInv /\ BuildInv

LEMMA InitHolds == Init => LifecycleInv
<1> SUFFICES ASSUME Init PROVE LifecycleInv
  OBVIOUS
<1> USE LifecycleAssumption
<1>1. TypeOK
  BY DEF Init, TypeOK, Ensuring, Binding, Building, Ended, Tables
<1>2. LockInv
  BY DEF Init, LockInv, InsideLock
<1>3. PresentInv
  BY DEF Init, PresentInv, Ensuring, Binding, Building
<1>4. RaceInv
  BY DEF Init, RaceInv, Ensuring
<1>5. BuildInv
  BY DEF Init, BuildInv
<1> QED
  BY <1>1, <1>2, <1>3, <1>4, <1>5 DEF LifecycleInv

-----------------------------------------------------------------------------
(* Every statement of a container, its failure and its death, and the      *)
(* steps of the others keep the invariant.                                 *)
LEMMA StepKeeps == LifecycleInv /\ [Next]_vars => LifecycleInv'
<1> SUFFICES ASSUME LifecycleInv, [Next]_vars PROVE LifecycleInv'
  OBVIOUS
<1> USE LifecycleAssumption
    DEF LifecycleInv, TypeOK, LockInv, PresentInv, RaceInv, BuildInv, InsideLock,
        Ensuring, Binding, Building, Ended, Tables, Goto, Chosen, server, history,
        Transactional
<1>1. ASSUME NEW c \in Container, Program(c) \/ EnsureFails(c) \/ Crash(c)
      PROVE  LifecycleInv'
  <2>1. CASE AcquireLock(c)
    BY <2>1 DEF AcquireLock
  <2>2. CASE LookForSchema(c)
    BY <2>2 DEF LookForSchema, Ensured, AfterEnsure
  <2>3. CASE CreateSchema(c)
    <3>1. TypeOK'
      BY <2>3 DEF CreateSchema, Ensured, AfterEnsure
    <3>2. LockInv'
      BY <2>3 DEF CreateSchema, Ensured, AfterEnsure
    <3>3. PresentInv'
      BY <2>3 DEF CreateSchema, Ensured, AfterEnsure
    <3>4. RaceInv'
      BY <2>3 DEF CreateSchema, Ensured, AfterEnsure
    <3>5. BuildInv'
      BY <2>3 DEF CreateSchema, Ensured, AfterEnsure
    <3> QED
      BY <3>1, <3>2, <3>3, <3>4, <3>5
  <2>4. CASE LostRace(c)
    BY <2>4 DEF LostRace
  <2>5. CASE ShowSchemas(c)
    BY <2>5 DEF ShowSchemas, AfterEnsure
  <2>6. CASE Unlock(c)
    BY <2>6 DEF Unlock, AfterEnsure
  <2>7. CASE BeginBind(c)
    BY <2>7 DEF BeginBind
  <2>8. CASE Explain(c)
    <3>1. TypeOK'
      BY <2>8 DEF Explain, Blame
    <3>2. LockInv'
      BY <2>8 DEF Explain, Blame
    <3>3. PresentInv'
      BY <2>8 DEF Explain, Blame
    <3>4. RaceInv'
      BY <2>8 DEF Explain, Blame
    <3>5. BuildInv'
      BY <2>8 DEF Explain, Blame
    <3> QED
      BY <3>1, <3>2, <3>3, <3>4, <3>5
  <2>9. CASE EndBind(c)
    <3>1. TypeOK'
      <4>1. pc' = [pc EXCEPT ![c] = "begin"] \/ pc' = [pc EXCEPT ![c] = "closing"]
        BY <2>9 DEF EndBind
      <4>2. con' \in [Container -> {"idle", "readonly", "open"}]
        BY <2>9 DEF EndBind
      <4>3. excused' \in [Container -> BOOLEAN] /\ present' = present
        BY <2>9 DEF EndBind, Blame
      <4> QED
        BY <2>9, <4>1, <4>2, <4>3 DEF EndBind
    <3>2. LockInv'
      BY <2>9 DEF EndBind, Blame
    <3>3. PresentInv'
      BY <2>9 DEF EndBind, Blame
    <3>4. RaceInv'
      BY <2>9 DEF EndBind, Blame
    <3>5. BuildInv'
      BY <2>9 DEF EndBind, Blame
    <3> QED
      BY <3>1, <3>2, <3>3, <3>4, <3>5
  <2>10. CASE BeginBuild(c)
    BY <2>10 DEF BeginBuild, Transactional
  <2>11. CASE DropTable(c)
    BY <2>11 DEF DropTable, BuildStatement, Put
  <2>12. CASE CreateTable(c)
    <3>1. CASE Transactional(c) /\ build[c] = "columns"
      <4>1. BuildStatement(c, "create", "index", "bare")
        BY <2>12, <3>1 DEF CreateTable
      <4> QED
        BY <3>1, <4>1 DEF BuildStatement, Put
    <3>2. CASE ~(Transactional(c) /\ build[c] = "columns")
      <4>1. BuildStatement(c, "create", AfterBuild(c), "new")
        BY <2>12, <3>2 DEF CreateTable
      <4> QED
        BY <3>2, <4>1 DEF BuildStatement, Put, AfterBuild
    <3> QED
      BY <3>1, <3>2
  <2>13. CASE CreateIndex(c)
    BY <2>13 DEF CreateIndex, BuildStatement, Put, AfterBuild, Transactional
  <2>14. CASE CommitBuild(c)
    BY <2>14 DEF CommitBuild
  <2>15. CASE BuildFails(c)
    BY <2>15 DEF BuildFails, Blame, Transactional
  <2>16. CASE RollbackBuild(c)
    BY <2>16 DEF RollbackBuild
  <2>17. CASE Close(c)
    BY <2>17 DEF Close, Leave
  <2>18. CASE EnsureFails(c)
    BY <2>18 DEF EnsureFails, Raised, Blame
  <2>19. CASE Crash(c)
    BY <2>19 DEF Crash, Leave
  <2> QED
    BY <1>1, <2>1, <2>2, <2>3, <2>4, <2>5, <2>6, <2>7, <2>8, <2>9, <2>10, <2>11, <2>12, <2>13, <2>14, <2>15, <2>16, <2>17, <2>18, <2>19 DEF Program
<1>2. CASE DropSchema
  <2>1. TypeOK'
    <3>1. table' \in [Container -> Tables] /\ drops' \in Nat /\ schema' = FALSE
      BY <1>2 DEF DropSchema
    <3>2. excused' \in [Container -> BOOLEAN]
      BY <1>2, Zenon DEF DropSchema
    <3> QED
      BY <1>2, <3>1, <3>2 DEF DropSchema
  <2>2. LockInv'
    BY <1>2 DEF DropSchema
  <2>3. PresentInv'
    BY <1>2 DEF DropSchema
  <2>4. RaceInv'
    BY <1>2 DEF DropSchema
  <2>5. BuildInv'
    BY <1>2 DEF DropSchema
  <2> QED
    BY <2>1, <2>2, <2>3, <2>4, <2>5
<1>3. CASE OutsiderCreates
  BY <1>3 DEF OutsiderCreates
<1>4. CASE UNCHANGED vars
  BY <1>4 DEF vars
<1> QED
  BY <1>1, <1>2, <1>3, <1>4 DEF Next

LEMMA Invariance == Spec => []LifecycleInv
<1>1. Init => LifecycleInv
  BY InitHolds
<1>2. LifecycleInv /\ [Next]_vars => LifecycleInv'
  BY StepKeeps
<1> QED
  BY <1>1, <1>2, PTL DEF Spec
-----------------------------------------------------------------------------
(* The state keeps its types: no container runs past the attempts of       *)
(* _retrying.                                                              *)
THEOREM TypeCorrect == Spec => []TypeOK
<1>1. LifecycleInv => TypeOK
  BY DEF LifecycleInv
<1> QED
  BY <1>1, Invariance, PTL

(* The advisory lock of the Postgres adapter serializes any number of      *)
(* containers, and none binds or builds under it.                          *)
THEOREM LockSerializesHolds == Spec => []LockSerializes
<1>1. LifecycleInv => LockSerializes
  BY DEF LifecycleInv, LockInv, LockSerializes, InsideLock, Binding, Building, Ended
<1> QED
  BY <1>1, Invariance, PTL

(* Who returns from ensure_schema was there while the schema existed.      *)
THEOREM EnsuredWasPresentHolds == Spec => []EnsuredWasPresent
<1>1. LifecycleInv => EnsuredWasPresent
  BY DEF LifecycleInv, PresentInv, EnsuredWasPresent
<1> QED
  BY <1>1, Invariance, PTL

(* However many containers race, and with any bound of at least two        *)
(* attempts, only a failed statement or a drop stops one of them.          *)
THEOREM RaceIsNoFailureHolds == Spec => []RaceIsNoFailure
<1>1. LifecycleInv => RaceIsNoFailure
  BY DEF LifecycleInv, RaceInv, RaceIsNoFailure
<1> QED
  BY <1>1, Invariance, PTL

(* The steps that write a table: the others keep every table, and of these *)
(* only the COMMIT of a transactional rebuild shows.                       *)
LEMMA RebuildStep ==
  LifecycleInv /\ [Next]_vars =>
    \A d \in Container :
      Transactional(d) /\ schema' /\ table'[d] # table[d] => table'[d] = "new"
<1> SUFFICES ASSUME LifecycleInv, [Next]_vars, NEW d \in Container,
                    Transactional(d), schema', table'[d] # table[d]
             PROVE  table'[d] = "new"
  OBVIOUS
<1> USE DEF LifecycleInv, TypeOK, BuildInv, Goto, server
<1>1. CASE \E c \in Container : DropTable(c) \/ CreateTable(c) \/ CreateIndex(c)
  BY <1>1 DEF DropTable, CreateTable, CreateIndex, BuildStatement, Put, Transactional
<1>2. CASE \E c \in Container : CommitBuild(c)
  BY <1>2 DEF CommitBuild
<1>3. CASE DropSchema
  BY <1>3 DEF DropSchema
<1>4. ASSUME NEW c \in Container,
             Program(c) \/ EnsureFails(c) \/ Crash(c),
             ~DropTable(c), ~CreateTable(c), ~CreateIndex(c), ~CommitBuild(c)
      PROVE  UNCHANGED table
  BY <1>4 DEF Program, AcquireLock, LookForSchema, CreateSchema, LostRace, ShowSchemas,
    Unlock, BeginBind, Explain, EndBind, BeginBuild, BuildFails, RollbackBuild,
    Close, EnsureFails, Crash, Leave
<1>5. CASE OutsiderCreates \/ UNCHANGED vars
  BY <1>5 DEF OutsiderCreates, vars
<1> QED
  BY <1>1, <1>2, <1>3, <1>4, <1>5 DEF Next

(* A transactional rebuild is seen whole or not at all.                    *)
THEOREM RebuildIsAtomicHolds == Spec => RebuildIsAtomic
<1>1. LifecycleInv /\ [Next]_vars =>
        [\A c \in Container :
           Transactional(c) /\ schema' /\ table'[c] # table[c]
             => table'[c] = "new"]_vars
  BY RebuildStep
<1> QED
  BY <1>1, Invariance, PTL DEF Spec, RebuildIsAtomic

-----------------------------------------------------------------------------
(* Import closure: dotted names, the roots of sys.path, and where a name   *)
(* lies.                                                                   *)

(* A dotted name has at least one part.                                    *)
Dotted == Seq(Parts) \ {<<>>}

(* The files at or below a name's first part, under a root.                *)
Under(t, i, part) == {p \in DOMAIN t : IsPrefix(Append(Roots[i], part), p)}

(* There are one or two roots on sys.path, and the first is the            *)
(* repository.                                                             *)
LEMMA RootsAre ==
  /\ DOMAIN Roots = 1 .. Len(Roots) /\ Len(Roots) \in {1, 2}
  /\ Roots[1] = <<>> /\ (Len(Roots) = 2 => Roots[2] = ScriptDir)
  /\ \A i \in DOMAIN Roots : Roots[i] \in Seq(Parts)
<1>1. ScriptDir \in Seq(Parts)
  <2>1. Script \in Seq(Parts) /\ Len(Script) \in Nat
    BY ClosureAssumption DEF Paths
  <2> QED BY <2>1, SubSeqProperties DEF ScriptDir, Front
<1>0. <<>> \in Seq(Parts)
  OBVIOUS
<1>2. CASE ScriptDir = <<>>
  <2>1. Roots = << <<>> >>
    BY <1>2 DEF Roots
  <2>2. Len(Roots) = 1 /\ DOMAIN Roots = 1 .. 1 /\ Roots[1] = <<>>
    BY <2>1
  <2>3. \A i \in DOMAIN Roots : Roots[i] = <<>>
    BY <2>2
  <2>4. \A i \in DOMAIN Roots : Roots[i] \in Seq(Parts)
    BY <1>0, <2>3
  <2>5. DOMAIN Roots = 1 .. Len(Roots) /\ Len(Roots) \in {1, 2}
    BY <2>2
  <2> QED BY <2>2, <2>4, <2>5
<1>3. CASE ScriptDir # <<>>
  <2>1. Roots = << <<>>, ScriptDir >>
    BY <1>3 DEF Roots
  <2>2. Len(Roots) = 2 /\ DOMAIN Roots = 1 .. 2 /\ Roots[1] = <<>> /\ Roots[2] = ScriptDir
    BY <2>1
  <2>3. \A i \in DOMAIN Roots : Roots[i] = <<>> \/ Roots[i] = ScriptDir
    BY <2>2
  <2> QED BY <1>0, <1>1, <2>2, <2>3
<1> QED BY <1>2, <1>3

(* A path of one part.                                                     *)
LEMMA Single ==
  ASSUME NEW S, NEW x \in S
  PROVE  <<x>> \in Seq(S) /\ Len(<<x>>) = 1 /\ <<x>>[1] = x
<1>1. Len(<<x>>) = 1 /\ <<x>>[1] = x
  OBVIOUS
<1>2. <<x>> = [i \in 1 .. 1 |-> x]
  OBVIOUS
<1>3. <<x>> \in UNION {[1 .. n -> S] : n \in Nat}
  BY <1>2
<1> QED BY <1>1, <1>3, SeqDef

(* A prefix of a dotted name, under a root.                                *)
LEMMA Part ==
  ASSUME NEW n \in Dotted, NEW d \in 1 .. Len(n)
  PROVE  /\ SubSeq(n, 1, d) \in Dotted /\ Len(SubSeq(n, 1, d)) = d
         /\ SubSeq(n, 1, d)[1] = n[1] /\ n[1] \in Parts
         /\ \A e \in 1 .. d : SubSeq(n, 1, d)[e] = n[e]
<1>1. n \in Seq(Parts) /\ Len(n) \in Nat /\ \A i \in 1 .. Len(n) : n[i] \in Parts
  BY DEF Dotted
<1>2. /\ SubSeq(n, 1, d) \in Seq(Parts) /\ Len(SubSeq(n, 1, d)) = d
      /\ \A e \in 1 .. d : SubSeq(n, 1, d)[e] = n[e]
  BY <1>1, SubSeqProperties
<1> QED BY <1>1, <1>2 DEF Dotted

(* A name is its own longest prefix.                                       *)
LEMMA Whole == \A n \in Dotted : SubSeq(n, 1, Len(n)) = n /\ Len(n) \in Nat \ {0}
BY SubSeqFull DEF Dotted

(* A prefix of a prefix of a name is a prefix of the name.                 *)
LEMMA PartOfPart ==
  ASSUME NEW n \in Dotted, NEW d \in 1 .. Len(n), NEW e \in 1 .. d
  PROVE  SubSeq(SubSeq(n, 1, d), 1, e) = SubSeq(n, 1, e)
<1>0. Len(n) \in Nat /\ e \in 1 .. Len(n)
  BY DEF Dotted
<1>1. /\ SubSeq(n, 1, d) \in Dotted /\ Len(SubSeq(n, 1, d)) = d
      /\ \A k \in 1 .. d : SubSeq(n, 1, d)[k] = n[k]
  BY Part
<1>2. /\ SubSeq(n, 1, e) \in Seq(Parts) /\ Len(SubSeq(n, 1, e)) = e
      /\ \A k \in 1 .. e : SubSeq(n, 1, e)[k] = n[k]
  BY <1>0, Part DEF Dotted
<1>3. /\ SubSeq(SubSeq(n, 1, d), 1, e) \in Seq(Parts) /\ Len(SubSeq(SubSeq(n, 1, d), 1, e)) = e
      /\ \A k \in 1 .. e : SubSeq(SubSeq(n, 1, d), 1, e)[k] = SubSeq(n, 1, d)[k]
  BY <1>1, Part DEF Dotted
<1>4. \A k \in 1 .. e : SubSeq(SubSeq(n, 1, d), 1, e)[k] = SubSeq(n, 1, e)[k]
  BY <1>0, <1>1, <1>2, <1>3
<1> QED BY <1>2, <1>3, <1>4, SeqEqual

(* One path lies at or below another if it goes the same way to begin      *)
(* with.                                                                   *)
LEMMA PrefixByIndex ==
  ASSUME NEW s \in Seq(Parts), NEW q \in Seq(Parts)
  PROVE  IsPrefix(s, q) <=> Len(s) <= Len(q) /\ \A k \in 1 .. Len(s) : s[k] = q[k]
<1>1. Len(s) \in Nat /\ Len(q) \in Nat /\ SubSeq(s, 1, Len(s)) = s
  BY SubSeqFull
<1>2. ASSUME Len(s) <= Len(q)
      PROVE  SubSeq(q, 1, Len(s)) = s <=> \A k \in 1 .. Len(s) : s[k] = q[k]
  <2>1. \A k \in 1 .. Len(s) : q[k] \in Parts
    BY <1>1, <1>2, ElementOfSeq
  <2>2. /\ SubSeq(q, 1, Len(s)) \in Seq(Parts) /\ Len(SubSeq(q, 1, Len(s))) = Len(s)
        /\ \A k \in 1 .. Len(s) : SubSeq(q, 1, Len(s))[k] = q[k]
    BY <1>1, <2>1, SubSeqProperties
  <2> QED BY <1>1, <2>2, SeqEqual
<1> QED BY <1>1, <1>2 DEF IsPrefix

(* What is found at a name, or below it, is under the name's first part.   *)
LEMMA FoundUnder ==
  ASSUME NEW t, DOMAIN t \subseteq Paths, NEW i \in DOMAIN Roots, NEW n \in Dotted,
         NEW p \in DOMAIN t,
         p \in Forms(t, Roots[i] \o n) \/ IsStrictPrefix(Roots[i] \o n, p)
  PROVE  p \in Under(t, i, n[1])
<1> DEFINE r == Roots[i]
<1>1. /\ r \in Seq(Parts) /\ n \in Seq(Parts) /\ p \in Seq(Parts) /\ n[1] \in Parts
      /\ Len(r) \in Nat /\ Len(n) \in Nat \ {0} /\ Len(p) \in Nat
  BY RootsAre DEF Dotted, Paths
<1> HIDE DEF r
<1>2. /\ r \o n \in Seq(Parts) /\ Len(r \o n) = Len(r) + Len(n)
      /\ \A k \in 1 .. Len(r) + Len(n) : (r \o n)[k] = IF k <= Len(r) THEN r[k] ELSE n[k - Len(r)]
  BY <1>1, ConcatProperties
<1>3. /\ Append(r, n[1]) \in Seq(Parts) /\ Len(Append(r, n[1])) = Len(r) + 1
      /\ \A k \in 1 .. Len(r) + 1 :
           Append(r, n[1])[k] = IF k <= Len(r) THEN r[k] ELSE n[1]
  BY <1>1, AppendProperties
<1>4. Len(r \o n) <= Len(p) /\ \A k \in 1 .. Len(r \o n) : (r \o n)[k] = p[k]
  <2>1. CASE IsStrictPrefix(r \o n, p)
    BY <1>1, <1>2, <2>1, PrefixByIndex DEF IsStrictPrefix
  <2>2. CASE p = r \o n
    BY <1>2, <2>2
  <2>3. CASE p = (r \o n) \o <<"__init__">>
    <3>1. <<"__init__">> \in Seq(Parts) /\ Len(<<"__init__">>) = 1
      BY Single, ClosureAssumption
    <3>2. /\ Len(p) = Len(r \o n) + 1
          /\ \A k \in 1 .. Len(r \o n) + 1 : p[k] = IF k <= Len(r \o n) THEN (r \o n)[k]
                                                     ELSE <<"__init__">>[k - Len(r \o n)]
      BY <1>2, <2>3, <3>1, ConcatProperties
    <3> QED BY <1>1, <1>2, <3>2
  <2> QED BY <2>1, <2>2, <2>3 DEF Forms, PackageInit, r
<1>5. Len(r) + 1 <= Len(r) + Len(n) /\ Len(r) + 1 <= Len(p) /\ \A k \in 1 .. Len(r) + 1 : k \in 1 .. Len(r) + Len(n)
  BY <1>1, <1>2, <1>4
<1>6. \A k \in 1 .. Len(r) + 1 : Append(r, n[1])[k] = p[k]
  <2> SUFFICES ASSUME NEW k \in 1 .. Len(r) + 1 PROVE Append(r, n[1])[k] = p[k]
    OBVIOUS
  <2>1. p[k] = IF k <= Len(r) THEN r[k] ELSE n[k - Len(r)]
    BY <1>2, <1>4, <1>5
  <2>2. k <= Len(r) \/ k - Len(r) = 1
    BY <1>1
  <2> QED BY <1>3, <2>1, <2>2
<1>7. IsPrefix(Append(r, n[1]), p)
  BY <1>1, <1>3, <1>5, <1>6, PrefixByIndex
<1> QED BY <1>7 DEF Under, r

(* A set of naturals that is not empty has its least member.               *)
LEMMA LeastNat ==
  ASSUME NEW S, S \subseteq Nat, S # {}
  PROVE  \E k \in S : \A l \in S : k <= l
<1>1. PICK k \in S : \A l \in S : <<l, k>> \notin OpToRel(<, Nat)
  BY NatLessThanWellFounded, WFMin, Zenon
<1>2. \A l \in S : ~ (l < k)
  BY <1>1, Zenon DEF OpToRel
<1>3. \A l \in S : k <= l
  BY <1>2
<1> QED BY <1>3

(* Induction over the naturals, for a property given as a set.             *)
LEMMA Induction ==
  ASSUME NEW S, 0 \in S, \A n \in Nat : n \in S => n + 1 \in S
  PROVE  Nat \subseteq S
<1> SUFFICES ASSUME Nat \ S # {} PROVE FALSE
  OBVIOUS
<1>1. PICK k \in Nat \ S : \A l \in Nat \ S : k <= l
  BY LeastNat
<1>2. k # 0 /\ k - 1 \in Nat /\ k - 1 \in S
  BY <1>1
<1> QED BY <1>1, <1>2

(* The root a first part is found under.                                   *)
Home(t, part) == Min({i \in DOMAIN Roots : Under(t, i, part) # {}})

(* The home of a part is the first root that has anything under it.        *)
LEMMA HomeIs ==
  ASSUME NEW t, NEW part, NEW i \in DOMAIN Roots, Under(t, i, part) # {}
  PROVE  /\ Home(t, part) \in DOMAIN Roots /\ Under(t, Home(t, part), part) # {}
         /\ \A j \in DOMAIN Roots : Under(t, j, part) # {} => Home(t, part) <= j
<1> DEFINE I == {j \in DOMAIN Roots : Under(t, j, part) # {}}
<1>1. I \subseteq Nat /\ i \in I
  BY RootsAre
<1>2. \E k \in I : \A l \in I : k <= l
  <2> HIDE DEF I
  <2> QED BY <1>1, LeastNat
<1>3. Min(I) \in I /\ \A l \in I : Min(I) <= l
  BY <1>2 DEF Min
<1> QED BY <1>3 DEF Home

(* A name found under both roots is found by a file of the first.          *)
LEMMA OneHome ==
  ASSUME NEW t, DOMAIN t \subseteq Paths, ~SplitPackage(t), NEW part \in Parts,
         NEW i \in DOMAIN Roots, NEW j \in DOMAIN Roots, i < j,
         Under(t, i, part) # {}, Under(t, j, part) # {}
  PROVE  i = 1 /\ j = 2 /\ Len(Roots) = 2 /\ Forms(t, <<part>>) # {}
<1>1. i = 1 /\ j = 2 /\ Len(Roots) = 2 /\ Roots[1] = <<>> /\ Roots[2] = ScriptDir
  BY RootsAre
<1>2. Elsewhere(t, part)
  BY <1>1 DEF Elsewhere, Under
<1>3. PICK p \in DOMAIN t : IsPrefix(Append(<<>>, part), p)
  BY <1>1 DEF Under
<1>4. p \in Seq(Parts) /\ Len(p) \in Nat \ {0} /\ p[1] = part
  <2>1. p \in Seq(Parts) /\ Len(p) \in Nat
    BY DEF Paths
  <2>2. Append(<<>>, part) \in Seq(Parts) /\ Len(Append(<<>>, part)) = 1
        /\ Append(<<>>, part)[1] = part
    OBVIOUS
  <2>3. 1 <= Len(p) /\ \A k \in 1 .. 1 : Append(<<>>, part)[k] = p[k]
    BY <1>3, <2>1, <2>2, PrefixByIndex
  <2> QED BY <2>1, <2>2, <2>3
<1>5. ASSUME Len(p) > 1 PROVE Forms(t, <<part>>) # {}
  <2>1. PackageInit(<<p[1]>>) \in DOMAIN t
    BY <1>2, <1>4, <1>5 DEF SplitPackage
  <2> QED BY <1>4, <2>1 DEF Forms
<1>6. ASSUME Len(p) = 1 PROVE Forms(t, <<part>>) # {}
  <2>1. \A k \in 1 .. Len(p) : p[k] = <<part>>[k]
    BY <1>4, <1>6
  <2>2. p = <<part>>
    BY <1>4, <1>6, <2>1, Single, SeqEqual
  <2>3. <<part>> \in Forms(t, <<part>>)
    BY <2>2 DEF Forms
  <2> QED BY <2>3
<1> QED BY <1>1, <1>4, <1>5, <1>6

(* The recursive function of Import exists.                                *)
LEMMA ImportTurns ==
  ASSUME NEW t, NEW n \in Dotted
  PROVE  \E at : /\ at[0] = Outset /\ Import(t, n) = at[Len(n)]
                 /\ \A d \in 1 .. Len(n) : at[d] = Enter(t, SubSeq(n, 1, d), at[d - 1])
<1> DEFINE Turn(q, d) == IF d = 0 THEN Outset ELSE Enter(t, SubSeq(n, 1, d), q[d - 1])
           Run(m) == \E q : q = [d \in 0 .. m |-> Turn(q, d)]
<1>1. Run(0)
  <2>1. \A q : [d \in 0 .. 0 |-> Turn(q, d)] = [d \in 0 .. 0 |-> Outset]
    OBVIOUS
  <2> QED BY <2>1
<1>2. ASSUME NEW m \in Nat, Run(m) PROVE Run(m + 1)
  <2>1. PICK q : q = [d \in 0 .. m |-> Turn(q, d)]
    BY <1>2
  <2> DEFINE r == [d \in 0 .. m + 1 |-> IF d <= m THEN q[d] ELSE Turn(q, d)]
  <2>2. \A d \in 0 .. m + 1 : Turn(r, d) = Turn(q, d)
    <3>1. \A d \in 0 .. m + 1 : d # 0 => r[d - 1] = q[d - 1]
      OBVIOUS
    <3> QED BY <3>1
  <2>3. \A d \in 0 .. m + 1 : r[d] = Turn(q, d)
    BY <2>1
  <2> HIDE DEF Turn
  <2>4. r = [d \in 0 .. m + 1 |-> Turn(r, d)]
    BY <2>2, <2>3
  <2> QED BY <2>4
<1> DEFINE S == {m \in Nat : Run(m)}
<1> HIDE DEF Run
<1>3. 0 \in S /\ \A m \in Nat : m \in S => m + 1 \in S
  BY <1>1, <1>2
<1> HIDE DEF S
<1>4. Len(n) \in S
  BY <1>3, Induction, Whole
<1>5. Run(Len(n))
  BY <1>4 DEF S
<1>6. PICK at : at = CHOOSE q : q = [d \in 0 .. Len(n) |-> Turn(q, d)]
  OBVIOUS
<1>7. at = [d \in 0 .. Len(n) |-> Turn(at, d)]
  BY <1>5, <1>6 DEF Run
<1>8. Import(t, n) = at[Len(n)]
  BY <1>6 DEF Import
<1>9. at[0] = Outset /\ \A d \in 1 .. Len(n) : at[d] = Enter(t, SubSeq(n, 1, d), at[d - 1])
  BY <1>7, Whole
<1> QED BY <1>8, <1>9

-----------------------------------------------------------------------------
(* Python's import of a name stays under one root.                         *)

(* Where the first d parts of a name lie under a root.                     *)
Place(i, n, d) == Roots[i] \o SubSeq(n, 1, d)

(* The modules a name passes under a root, down to a depth.                *)
Passed(t, i, n, k) ==
  {Module(t, SubSeq(n, 1, d), Place(i, n, d)) :
     d \in {d \in 1 .. k : Forms(t, Place(i, n, d)) # {}}}

(* What an import has come to is a record of these three fields.           *)
Shape(at) == at = [state |-> at.state, loaded |-> at.loaded, roots |-> at.roots]

(* Where Python stands in a name: under the one root of its first part.    *)
Reached(t, n, d, at) ==
  LET h == Home(t, n[1]) IN
  /\ h \in DOMAIN Roots /\ Under(t, h, n[1]) # {}
  /\ at.roots \subseteq {h} /\ at.loaded = Passed(t, h, n, d)
  /\ \A e \in 1 .. d - 1 :
       Forms(t, Place(h, n, e)) # {} => PackageInit(Place(h, n, e)) \in DOMAIN t
  /\ Forms(t, Place(h, n, d)) # {} \/ IsDirectory(t, Place(h, n, d))
  /\ Forms(t, Place(h, n, d)) # {} =>
       PackageInit(Place(h, n, d)) \in DOMAIN t \/ at.roots = {}

(* What is known of an import once d parts of its name are looked up.      *)
ImportInv(t, n, d, at) ==
  /\ Shape(at) /\ at.state \in {"found", "installed", "failed"}
  /\ at.state = "installed" =>
       at.loaded = {} /\ \A i \in DOMAIN Roots : Under(t, i, n[1]) = {}
  /\ at.state = "found" => Reached(t, n, d, at)

(* A set of roots or depths that is not empty has its least member.        *)
LEMMA LeastIs ==
  ASSUME NEW S, S \subseteq Nat, S # {}
  PROVE  Min(S) \in S /\ \A l \in S : Min(S) <= l
BY LeastNat DEF Min

(* A part that is found as a package or a module.                          *)
LEMMA TurnHit ==
  ASSUME NEW t, NEW n, NEW d, NEW at, NEW next, next = Enter(t, SubSeq(n, 1, d), at),
         at.state = "found", at.roots \subseteq Nat,
         NEW k \in at.roots, Forms(t, Place(k, n, d)) # {},
         \A i \in at.roots : Forms(t, Place(i, n, d)) # {} => k <= i
  PROVE  /\ Shape(next) /\ next.state = "found"
         /\ next.loaded = at.loaded \cup {Module(t, SubSeq(n, 1, d), Place(k, n, d))}
         /\ next.roots \subseteq {k}
         /\ PackageInit(Place(k, n, d)) \in DOMAIN t \/ next.roots = {}
<1> DEFINE hits == {i \in at.roots : Forms(t, Roots[i] \o SubSeq(n, 1, d)) # {}}
<1>1. hits \subseteq Nat /\ k \in hits /\ \A i \in hits : k <= i
  BY DEF Place
<1>2. Min(hits) = k
  <2> HIDE DEF hits
  <2>1. Min(hits) \in hits /\ Min(hits) <= k
    BY <1>1, LeastIs
  <2>2. k <= Min(hits) /\ k \in Nat /\ Min(hits) \in Nat
    BY <1>1, <2>1
  <2>3. PICK m \in Nat : m = Min(hits)
    BY <2>2
  <2>4. m = k
    BY <2>1, <2>2, <2>3
  <2> QED BY <2>3, <2>4
<1>3. hits # {}
  BY <1>1
<1>4. next = [state |-> "found",
              loaded |-> at.loaded \cup
                           {Module(t, SubSeq(n, 1, d), Roots[Min(hits)] \o SubSeq(n, 1, d))},
              roots |-> IF PackageInit(Roots[Min(hits)] \o SubSeq(n, 1, d)) \in DOMAIN t
                        THEN {Min(hits)} ELSE {}]
  BY <1>3, Zenon DEF Enter
<1>5. next = [state |-> "found",
              loaded |-> at.loaded \cup {Module(t, SubSeq(n, 1, d), Place(k, n, d))},
              roots |-> IF PackageInit(Place(k, n, d)) \in DOMAIN t THEN {k} ELSE {}]
  <2> HIDE DEF hits
  <2> QED BY <1>2, <1>4, Zenon DEF Place
<1> QED BY <1>5 DEF Shape

(* A part that is not.                                                     *)
LEMMA TurnMiss ==
  ASSUME NEW t, NEW n, NEW d, NEW at, NEW next, next = Enter(t, SubSeq(n, 1, d), at),
         Shape(at), at.state = "found",
         \A i \in at.roots : Forms(t, Place(i, n, d)) = {}
  PROVE  /\ Shape(next) /\ next.loaded = at.loaded
         /\ \A i \in next.roots : i \in at.roots
         /\ \/ /\ next.state = "found"
               /\ \A i \in next.roots : IsDirectory(t, Place(i, n, d))
               /\ \E i \in at.roots : IsDirectory(t, Place(i, n, d))
            \/ /\ next.state = IF Len(SubSeq(n, 1, d)) = 1 THEN "installed" ELSE "failed"
               /\ \A i \in at.roots : ~IsDirectory(t, Place(i, n, d))
<1>1. {i \in at.roots : Forms(t, Roots[i] \o SubSeq(n, 1, d)) # {}} = {}
  BY DEF Place
<1>2. PICK portions : portions = {i \in at.roots : IsDirectory(t, Roots[i] \o SubSeq(n, 1, d))}
  OBVIOUS
<1>3. next = IF portions # {} THEN [at EXCEPT !.roots = portions]
             ELSE [at EXCEPT !.state = IF Len(SubSeq(n, 1, d)) = 1 THEN "installed" ELSE "failed"]
  BY <1>1, <1>2, Zenon DEF Enter
<1>4. /\ [at EXCEPT !.roots = portions] = [state |-> "found", loaded |-> at.loaded, roots |-> portions]
      /\ \A x : [at EXCEPT !.state = x] = [state |-> x, loaded |-> at.loaded, roots |-> at.roots]
  BY DEF Shape
<1>5. \A i : i \in portions <=> i \in at.roots /\ IsDirectory(t, Place(i, n, d))
  BY <1>2 DEF Place
<1>6. ASSUME portions # {}
      PROVE  next = [state |-> "found", loaded |-> at.loaded, roots |-> portions]
  BY <1>3, <1>4, <1>6
<1>7. ASSUME portions = {}
      PROVE  next = [state |-> IF Len(SubSeq(n, 1, d)) = 1 THEN "installed" ELSE "failed",
                     loaded |-> at.loaded, roots |-> at.roots]
  BY <1>3, <1>4, <1>7
<1>8. CASE portions # {}
  BY <1>5, <1>6, <1>8 DEF Shape
<1>9. CASE portions = {}
  <2>1. \A i \in at.roots : ~IsDirectory(t, Place(i, n, d))
    BY <1>5, <1>9
  <2>2. PICK x : x = IF Len(SubSeq(n, 1, d)) = 1 THEN "installed" ELSE "failed"
    OBVIOUS
  <2>3. next = [state |-> x, loaded |-> at.loaded, roots |-> at.roots]
    BY <1>7, <1>9, <2>2
  <2>4. Shape(next) /\ next.loaded = at.loaded /\ next.roots = at.roots /\ next.state = x
    BY <2>3 DEF Shape
  <2> QED BY <2>1, <2>2, <2>4
<1> QED BY <1>8, <1>9

(* A place under a root is found as a file or as a directory.              *)
LEMMA UnderFound ==
  ASSUME NEW t, NEW i, NEW part, Under(t, i, part) # {}
  PROVE  Forms(t, Append(Roots[i], part)) # {} \/ IsDirectory(t, Append(Roots[i], part))
<1>1. PICK p \in DOMAIN t : IsPrefix(Append(Roots[i], part), p)
  BY DEF Under
<1>2. CASE p = Append(Roots[i], part)
  <2>1. p \in Forms(t, Append(Roots[i], part))
    BY <1>2 DEF Forms
  <2> QED BY <2>1
<1>3. CASE p # Append(Roots[i], part)
  BY <1>1, <1>3 DEF IsDirectory, IsStrictPrefix
<1> QED BY <1>2, <1>3

(* A file or directory of a name lies below the name's first part.         *)
LEMMA PlaceUnder ==
  ASSUME NEW t, DOMAIN t \subseteq Paths, NEW i \in DOMAIN Roots, NEW n \in Dotted,
         NEW d \in 1 .. Len(n),
         Forms(t, Place(i, n, d)) # {} \/ IsDirectory(t, Place(i, n, d))
  PROVE  Under(t, i, n[1]) # {}
<1>1. SubSeq(n, 1, d) \in Dotted /\ SubSeq(n, 1, d)[1] = n[1]
  BY Part
<1>2. PICK p \in DOMAIN t : p \in Forms(t, Place(i, n, d)) \/ IsStrictPrefix(Place(i, n, d), p)
  BY DEF Forms, IsDirectory
<1>3. p \in Under(t, i, n[1])
  BY <1>1, <1>2, FoundUnder DEF Place
<1> QED BY <1>3

(* The first part of a name lies directly under the root.                  *)
LEMMA FirstPlace ==
  ASSUME NEW i \in DOMAIN Roots, NEW n \in Dotted
  PROVE  /\ Place(i, n, 1) = Append(Roots[i], n[1])
         /\ i = 1 => Place(i, n, 1) = <<n[1]>>
<1>1. /\ Len(n) \in Nat \ {0} /\ n[1] \in Parts /\ Len(SubSeq(n, 1, 1)) = 1
      /\ SubSeq(n, 1, 1)[1] = n[1] /\ SubSeq(n, 1, 1) \in Seq(Parts)
  BY Whole, Part DEF Dotted
<1>2. SubSeq(n, 1, 1) = <<n[1]>>
  <2>1. <<n[1]>> \in Seq(Parts) /\ Len(<<n[1]>>) = 1 /\ <<n[1]>>[1] = n[1]
    BY <1>1, Single
  <2> DEFINE a == SubSeq(n, 1, 1)
             b == <<n[1]>>
  <2>2. a \in Seq(Parts) /\ b \in Seq(Parts) /\ Len(a) = 1 /\ Len(b) = 1 /\ a[1] = b[1]
    BY <1>1, <2>1
  <2> HIDE DEF a, b
  <2>3. \A k \in 1 .. Len(a) : a[k] = b[k]
    BY <2>2
  <2>4. a = b
    BY <2>2, <2>3, SeqEqual
  <2> QED BY <2>4 DEF a, b
<1>3. Roots[i] \in Seq(Parts) /\ (i = 1 => Roots[i] = <<>>)
  BY RootsAre
<1>4. Roots[i] \o <<n[1]>> = Append(Roots[i], n[1])
  BY <1>1, <1>3, AppendIsConcat
<1>5. <<>> \o <<n[1]>> = <<n[1]>>
  BY <1>1, Single, ConcatEmptySeq
<1> QED BY <1>2, <1>3, <1>4, <1>5 DEF Place

(* At the first part there is one module to pass, or none.                 *)
LEMMA PassedFirst ==
  ASSUME NEW t, NEW i, NEW n
  PROVE  /\ Forms(t, Place(i, n, 1)) = {} => Passed(t, i, n, 1) = {}
         /\ Forms(t, Place(i, n, 1)) # {} =>
              Passed(t, i, n, 1) = {Module(t, SubSeq(n, 1, 1), Place(i, n, 1))}
<1>1. \A d : d \in 1 .. 1 <=> d = 1
  OBVIOUS
<1> QED BY <1>1 DEF Passed

(* A part without a file adds no module to those passed.                   *)
LEMMA PassedMiss ==
  ASSUME NEW t, NEW i, NEW n, NEW d \in Nat, Forms(t, Place(i, n, d + 1)) = {}
  PROVE  Passed(t, i, n, d + 1) = Passed(t, i, n, d)
<1>1. \A e : e \in 1 .. d + 1 <=> e \in 1 .. d \/ e = d + 1
  OBVIOUS
<1> QED BY <1>1 DEF Passed

(* A part with a file adds its module to those passed.                     *)
LEMMA PassedHit ==
  ASSUME NEW t, NEW i, NEW n, NEW d \in Nat, NEW p \in Forms(t, Place(i, n, d + 1)),
         NEW m, m = Module(t, SubSeq(n, 1, d + 1), Place(i, n, d + 1))
  PROVE  Passed(t, i, n, d + 1) = Passed(t, i, n, d) \cup {m}
<1>1. \A e : e \in 1 .. d + 1 <=> e \in 1 .. d \/ e = d + 1
  OBVIOUS
<1> QED BY <1>1 DEF Passed

(* Where no top-level directory is split, Python looks for the rest of a   *)
(* name where the walk finds its first part.                               *)
LEMMA HomeFirst ==
  ASSUME NEW t, DOMAIN t \subseteq Paths, ~SplitPackage(t), NEW n \in Dotted,
         NEW i \in DOMAIN Roots, Under(t, i, n[1]) # {},
         i = 1 \/ Forms(t, Place(1, n, 1)) = {}
  PROVE  i = Home(t, n[1])
<1>1. PICK h : h = Home(t, n[1])
  OBVIOUS
<1>2. h \in DOMAIN Roots /\ Under(t, h, n[1]) # {} /\ h <= i
  BY <1>1, HomeIs
<1>3. n[1] \in Parts
  BY Whole DEF Dotted
<1>4. i \in Nat /\ h \in Nat /\ 1 \in DOMAIN Roots /\ \A j \in DOMAIN Roots : 1 <= j
  BY <1>2, RootsAre
<1>5. ASSUME h < i PROVE FALSE
  <2>1. h = 1 /\ i = 2 /\ Forms(t, <<n[1]>>) # {}
    BY <1>2, <1>3, <1>5, OneHome
  <2>2. Place(1, n, 1) = <<n[1]>>
    BY <1>4, FirstPlace
  <2> QED BY <2>1, <2>2
<1> QED BY <1>1, <1>2, <1>4, <1>5

(* The first part is found under its home, or under neither root.          *)
LEMMA ImportFirst ==
  ASSUME NEW t, DOMAIN t \subseteq Paths, ~SplitPackage(t), NEW n \in Dotted,
         NEW at, at = Enter(t, SubSeq(n, 1, 1), Outset)
  PROVE  ImportInv(t, n, 1, at)
<1>1. /\ Outset.roots = DOMAIN Roots /\ Outset.state = "found" /\ Outset.loaded = {}
      /\ Shape(Outset)
  BY DEF Outset, Shape
<1>2. 1 \in 1 .. Len(n) /\ Len(SubSeq(n, 1, 1)) = 1
  <2>1. 1 \in 1 .. Len(n)
    BY Whole
  <2> QED BY <2>1, Part
<1>3. \A i \in DOMAIN Roots :
        Forms(t, Place(i, n, 1)) # {} \/ IsDirectory(t, Place(i, n, 1)) => Under(t, i, n[1]) # {}
  BY <1>2, PlaceUnder
<1>4. DOMAIN Roots \subseteq Nat /\ 1 \in DOMAIN Roots /\ \A i \in DOMAIN Roots : 1 <= i
  BY RootsAre
<1>5. ASSUME NEW k \in DOMAIN Roots, Forms(t, Place(k, n, 1)) # {},
             k = 1 \/ Forms(t, Place(1, n, 1)) = {}
      PROVE  ImportInv(t, n, 1, at)
  <2>1. k = Home(t, n[1]) /\ Under(t, k, n[1]) # {}
    BY <1>3, <1>5, HomeFirst
  <2>2. \A i \in DOMAIN Roots : Forms(t, Place(i, n, 1)) # {} => k <= i
    <3> SUFFICES ASSUME NEW i \in DOMAIN Roots, Forms(t, Place(i, n, 1)) # {} PROVE k <= i
      OBVIOUS
    <3>1. Under(t, i, n[1]) # {}
      BY <1>3
    <3> QED BY <2>1, <3>1, HomeIs
  <2>3. /\ Shape(at) /\ at.state = "found"
        /\ at.loaded = {} \cup {Module(t, SubSeq(n, 1, 1), Place(k, n, 1))}
        /\ at.roots \subseteq {k}
        /\ PackageInit(Place(k, n, 1)) \in DOMAIN t \/ at.roots = {}
    BY <1>1, <1>4, <1>5, <2>2, TurnHit
  <2>4. at.loaded = Passed(t, k, n, 1)
    BY <1>5, <2>3, PassedFirst
  <2>5. Reached(t, n, 1, at)
    BY <1>5, <2>1, <2>3, <2>4 DEF Reached
  <2> QED BY <2>3, <2>5 DEF ImportInv
<1>6. CASE \E k \in DOMAIN Roots : Forms(t, Place(k, n, 1)) # {}
  <2>1. PICK k \in DOMAIN Roots : Forms(t, Place(k, n, 1)) # {}
    BY <1>6
  <2>2. CASE Forms(t, Place(1, n, 1)) # {}
    BY <1>4, <1>5, <2>2
  <2>3. CASE Forms(t, Place(1, n, 1)) = {}
    BY <1>5, <2>1, <2>3
  <2> QED BY <2>2, <2>3
<1>7. CASE \A k \in DOMAIN Roots : Forms(t, Place(k, n, 1)) = {}
  <2>1. /\ Shape(at) /\ at.loaded = {}
        /\ \A i \in at.roots : i \in DOMAIN Roots
        /\ \/ /\ at.state = "found"
              /\ \A i \in at.roots : IsDirectory(t, Place(i, n, 1))
              /\ \E i \in DOMAIN Roots : IsDirectory(t, Place(i, n, 1))
           \/ /\ at.state = "installed"
              /\ \A i \in DOMAIN Roots : ~IsDirectory(t, Place(i, n, 1))
    BY <1>1, <1>2, <1>7, TurnMiss
  <2>2. ASSUME NEW i \in DOMAIN Roots, IsDirectory(t, Place(i, n, 1))
        PROVE  i = Home(t, n[1]) /\ Under(t, i, n[1]) # {}
    BY <1>3, <1>4, <1>7, <2>2, HomeFirst
  <2>3. CASE at.state = "found"
    <3>1. PICK k \in DOMAIN Roots : IsDirectory(t, Place(k, n, 1))
      BY <2>1, <2>3
    <3>2. k = Home(t, n[1]) /\ Under(t, k, n[1]) # {} /\ Forms(t, Place(k, n, 1)) = {}
      BY <1>7, <2>2, <3>1
    <3>3. at.roots \subseteq {k}
      BY <2>1, <2>2, <2>3, <3>2
    <3>4. at.loaded = Passed(t, k, n, 1)
      BY <2>1, <3>2, PassedFirst
    <3>5. Reached(t, n, 1, at)
      BY <3>1, <3>2, <3>3, <3>4 DEF Reached
    <3> QED BY <2>1, <2>3, <3>5 DEF ImportInv
  <2>4. CASE at.state = "installed"
    <3>1. \A i \in DOMAIN Roots : ~IsDirectory(t, Place(i, n, 1))
      BY <2>1, <2>4
    <3>2. ASSUME NEW i \in DOMAIN Roots PROVE Under(t, i, n[1]) = {}
      <4>1. Place(i, n, 1) = Append(Roots[i], n[1])
        BY FirstPlace
      <4>2. ~(Under(t, i, n[1]) # {})
        BY <1>7, <3>1, <4>1, UnderFound
      <4> QED BY <4>2
    <3> QED BY <2>1, <2>4, <3>2 DEF ImportInv
  <2> QED BY <2>1, <2>3, <2>4
<1> QED BY <1>6, <1>7

(* The next part is looked up where the one before was found.              *)
LEMMA ImportNext ==
  ASSUME NEW t, NEW n \in Dotted, NEW d \in 1 .. Len(n) - 1, NEW at, ImportInv(t, n, d, at),
         NEW next, next = Enter(t, SubSeq(n, 1, d + 1), at)
  PROVE  ImportInv(t, n, d + 1, next)
<1>1. d \in Nat /\ d + 1 # 1 /\ Len(SubSeq(n, 1, d + 1)) = d + 1 /\ d + 1 \in 1 .. Len(n)
  <2>1. d \in Nat /\ d + 1 # 1 /\ d + 1 \in 1 .. Len(n)
    BY Whole
  <2> QED BY <2>1, Part
<1>2. CASE at.state # "found"
  <2>1. next = at
    BY <1>2 DEF Enter
  <2> QED BY <1>2, <2>1 DEF ImportInv
<1>3. CASE at.state = "found"
  <2>1. PICK h : h = Home(t, n[1])
    OBVIOUS
  <2>2. /\ h \in DOMAIN Roots /\ Under(t, h, n[1]) # {} /\ at.roots \subseteq {h}
        /\ at.loaded = Passed(t, h, n, d) /\ Shape(at)
        /\ \A e \in 1 .. d - 1 :
             Forms(t, Place(h, n, e)) # {} => PackageInit(Place(h, n, e)) \in DOMAIN t
        /\ Forms(t, Place(h, n, d)) # {} =>
             PackageInit(Place(h, n, d)) \in DOMAIN t \/ at.roots = {}
    BY <1>3, <2>1 DEF ImportInv, Reached
  <2>3. at.roots \subseteq Nat
    BY <2>2, RootsAre
  <2>4. ASSUME h \in at.roots
        PROVE  \A e \in 1 .. (d + 1) - 1 :
                 Forms(t, Place(h, n, e)) # {} => PackageInit(Place(h, n, e)) \in DOMAIN t
    <3>1. \A e \in 1 .. (d + 1) - 1 : e \in 1 .. d - 1 \/ e = d
      BY <1>1
    <3>2. at.roots # {}
      BY <2>4
    <3> QED BY <2>2, <3>1, <3>2
  <2>5. CASE h \in at.roots /\ Forms(t, Place(h, n, d + 1)) # {}
    <3>1. h <= h
      BY <2>3, <2>5
    <3>2. \A i \in at.roots : Forms(t, Place(i, n, d + 1)) # {} => h <= i
      BY <2>2, <3>1
    <3>3. /\ Shape(next) /\ next.state = "found"
          /\ next.loaded = at.loaded \cup {Module(t, SubSeq(n, 1, d + 1), Place(h, n, d + 1))}
          /\ next.roots \subseteq {h}
          /\ PackageInit(Place(h, n, d + 1)) \in DOMAIN t \/ next.roots = {}
      BY <1>3, <2>3, <2>5, <3>2, TurnHit
    <3>4. next.loaded = Passed(t, h, n, d + 1)
      <4>1. PICK p \in Forms(t, Place(h, n, d + 1)) : TRUE
        BY <2>5
      <4>2. PICK m : m = Module(t, SubSeq(n, 1, d + 1), Place(h, n, d + 1))
        OBVIOUS
      <4>3. Passed(t, h, n, d + 1) = Passed(t, h, n, d) \cup {m}
        BY <1>1, <4>1, <4>2, PassedHit
      <4> QED BY <2>2, <3>3, <4>2, <4>3
    <3>5. Reached(t, n, d + 1, next)
      BY <2>1, <2>2, <2>4, <2>5, <3>3, <3>4 DEF Reached
    <3> QED BY <3>3, <3>5 DEF ImportInv
  <2>6. CASE ~(h \in at.roots /\ Forms(t, Place(h, n, d + 1)) # {})
    <3>1. \A i \in at.roots : Forms(t, Place(i, n, d + 1)) = {}
      BY <2>2, <2>6
    <3>2. /\ Shape(next) /\ next.loaded = at.loaded
          /\ \A i \in next.roots : i \in at.roots
          /\ \/ /\ next.state = "found"
                /\ \E i \in at.roots : IsDirectory(t, Place(i, n, d + 1))
             \/ next.state = "failed"
      BY <1>1, <1>3, <2>2, <3>1, TurnMiss
    <3>3. CASE next.state = "failed"
      BY <3>2, <3>3 DEF ImportInv
    <3>4. CASE next.state = "found"
      <4>1. h \in at.roots /\ IsDirectory(t, Place(h, n, d + 1)) /\ Forms(t, Place(h, n, d + 1)) = {}
        BY <2>2, <3>1, <3>2, <3>4
      <4>2. next.loaded = Passed(t, h, n, d + 1) /\ next.roots \subseteq {h}
        BY <1>1, <2>2, <3>2, <4>1, PassedMiss
      <4>3. Reached(t, n, d + 1, next)
        BY <2>1, <2>2, <2>4, <4>1, <4>2 DEF Reached
      <4> QED BY <3>2, <3>4, <4>3 DEF ImportInv
    <3> QED BY <3>2, <3>3, <3>4
  <2> QED BY <2>5, <2>6
<1> QED BY <1>2, <1>3

(* What an import of a dotted name finds and loads.                        *)
LEMMA ImportReaches ==
  ASSUME NEW t, DOMAIN t \subseteq Paths, ~SplitPackage(t), NEW n \in Dotted
  PROVE  ImportInv(t, n, Len(n), Import(t, n))
<1>1. PICK at : /\ at[0] = Outset /\ Import(t, n) = at[Len(n)]
                /\ \A d \in 1 .. Len(n) : at[d] = Enter(t, SubSeq(n, 1, d), at[d - 1])
  BY ImportTurns
<1> DEFINE S == {m \in Nat : m + 1 \in 1 .. Len(n) => ImportInv(t, n, m + 1, at[m + 1])}
<1>2. Len(n) \in Nat \ {0}
  BY Whole
<1>3. ImportInv(t, n, 1, at[1])
  <2>1. at[1] = Enter(t, SubSeq(n, 1, 1), Outset)
    <3>1. 1 \in 1 .. Len(n) /\ 1 - 1 = 0
      BY <1>2
    <3> QED BY <1>1, <3>1
  <2> QED BY <2>1, ImportFirst
<1>4. 0 \in S
  <2>1. 0 + 1 = 1
    OBVIOUS
  <2> QED BY <1>3, <2>1
<1>5. ASSUME NEW m \in Nat, m \in S PROVE m + 1 \in S
  <2> SUFFICES ASSUME m + 1 + 1 \in 1 .. Len(n) PROVE ImportInv(t, n, m + 1 + 1, at[m + 1 + 1])
    OBVIOUS
  <2>1. m + 1 \in 1 .. Len(n) - 1 /\ m + 1 \in 1 .. Len(n) /\ (m + 1 + 1) - 1 = m + 1
    BY <1>2
  <2>2. ImportInv(t, n, m + 1, at[m + 1])
    BY <1>5, <2>1
  <2>3. at[m + 1 + 1] = Enter(t, SubSeq(n, 1, m + 1 + 1), at[m + 1])
    BY <1>1, <2>1
  <2> QED BY <2>1, <2>2, <2>3, ImportNext
<1>6. Nat \subseteq S
  <2> HIDE DEF S
  <2> QED BY <1>4, <1>5, Induction
<1>7. PICK m \in Nat : m + 1 = Len(n)
  <2>1. Len(n) - 1 \in Nat /\ (Len(n) - 1) + 1 = Len(n)
    BY <1>2
  <2> QED BY <2>1
<1>8. m \in S /\ m + 1 \in 1 .. Len(n)
  <2>1. m \in S
    BY <1>6
  <2> QED BY <1>2, <1>7, <2>1
<1>9. ImportInv(t, n, m + 1, at[m + 1])
  BY <1>8
<1> QED BY <1>1, <1>7, <1>9

-----------------------------------------------------------------------------
(* What a statement asks for: as Python imports it and as the walk looks   *)
(* it up.                                                                  *)

(* The beginning of a sequence that starts with another.                   *)
LEMMA ConcatPrefix ==
  ASSUME NEW r \in Seq(Parts), NEW p \in Seq(Parts), NEW k \in 0 .. Len(p)
  PROVE  /\ SubSeq(p, 1, k) \in Seq(Parts) /\ Len(SubSeq(p, 1, k)) = k
         /\ SubSeq(r \o p, 1, Len(r) + k) = r \o SubSeq(p, 1, k)
<1>1. Len(r) \in Nat /\ Len(p) \in Nat /\ k \in Nat /\ k <= Len(p)
  BY LenProperties
<1>2. PICK a : a = SubSeq(p, 1, k)
  OBVIOUS
<1>3. a \in Seq(Parts) /\ Len(a) = k /\ \A j \in 1 .. k : a[j] = p[j]
  <2>1. \A j \in 1 .. k : p[j] \in Parts
    BY <1>1, ElementOfSeq
  <2> QED BY <1>1, <1>2, <2>1, SubSeqProperties
<1>4. PICK c : c = r \o p
  OBVIOUS
<1>5. /\ c \in Seq(Parts) /\ Len(c) = Len(r) + Len(p)
      /\ \A j \in 1 .. Len(r) + Len(p) : c[j] = IF j <= Len(r) THEN r[j] ELSE p[j - Len(r)]
  BY <1>4, ConcatProperties
<1>6. PICK x : x = SubSeq(c, 1, Len(r) + k)
  OBVIOUS
<1>7. x \in Seq(Parts) /\ Len(x) = Len(r) + k /\ \A j \in 1 .. Len(r) + k : x[j] = c[j]
  <2>1. \A j \in 1 .. Len(r) + k : c[j] \in Parts
    BY <1>1, <1>5, ElementOfSeq
  <2> QED BY <1>1, <1>6, <2>1, SubSeqProperties
<1>8. PICK y : y = r \o a
  OBVIOUS
<1>9. /\ y \in Seq(Parts) /\ Len(y) = Len(r) + k
      /\ \A j \in 1 .. Len(r) + k : y[j] = IF j <= Len(r) THEN r[j] ELSE a[j - Len(r)]
  <2>1. /\ y \in Seq(Parts) /\ Len(y) = Len(r) + Len(a)
        /\ \A j \in 1 .. Len(r) + Len(a) : y[j] = IF j <= Len(r) THEN r[j] ELSE a[j - Len(r)]
    BY <1>3, <1>8, ConcatProperties
  <2> QED BY <1>3, <2>1
<1>10. \A j \in 1 .. Len(x) : x[j] = y[j]
  <2> SUFFICES ASSUME NEW j \in 1 .. Len(r) + k PROVE x[j] = y[j]
    BY <1>7
  <2>1. x[j] = IF j <= Len(r) THEN r[j] ELSE p[j - Len(r)]
    BY <1>1, <1>5, <1>7
  <2>2. j <= Len(r) \/ j - Len(r) \in 1 .. k
    BY <1>1
  <2> QED BY <1>3, <1>9, <2>1, <2>2
<1>11. x = y
  BY <1>7, <1>9, <1>10, SeqEqual
<1> QED BY <1>2, <1>3, <1>4, <1>6, <1>8, <1>11

(* The package of a module, and where its file stands.                     *)
LEMMA FrontIs ==
  ASSUME NEW r \in Seq(Parts), NEW n \in Dotted
  PROVE  /\ Front(r \o n) = r \o Front(n)
         /\ Front(n) \in Seq(Parts) /\ Len(Front(n)) = Len(n) - 1
         /\ Front(n) # <<>> => Front(n)[1] = n[1]
<1>1. n \in Seq(Parts) /\ Len(n) \in Nat \ {0} /\ Len(r) \in Nat
  BY Whole, LenProperties DEF Dotted
<1>2. PICK k \in 0 .. Len(n) : k = Len(n) - 1
  <2>1. Len(n) - 1 \in 0 .. Len(n)
    BY <1>1
  <2> QED BY <2>1
<1>3. Len(r \o n) = Len(r) + Len(n)
  BY <1>1, ConcatProperties
<1>4. Front(n) = SubSeq(n, 1, k) /\ Front(r \o n) = SubSeq(r \o n, 1, Len(r) + k)
  BY <1>1, <1>2, <1>3 DEF Front
<1>5. /\ SubSeq(n, 1, k) \in Seq(Parts) /\ Len(SubSeq(n, 1, k)) = k
      /\ SubSeq(r \o n, 1, Len(r) + k) = r \o SubSeq(n, 1, k)
  BY <1>1, ConcatPrefix
<1>6. ASSUME k # 0 PROVE SubSeq(n, 1, k)[1] = n[1]
  BY <1>1, <1>2, <1>6, Part
<1>7. SubSeq(n, 1, k) # <<>> => k # 0
  <2>1. Len(SubSeq(n, 1, k)) = 0 => SubSeq(n, 1, k) = <<>>
    BY <1>5, EmptySeq
  <2> QED BY <1>5, <2>1
<1> QED BY <1>2, <1>4, <1>5, <1>6, <1>7

(* The directory of a package is that of its __init__.                     *)
LEMMA FrontOfInit ==
  ASSUME NEW r \in Seq(Parts)
  PROVE  Front(PackageInit(r)) = r
<1>1. PICK e : e = <<"__init__">>
  OBVIOUS
<1>2. e \in Seq(Parts) /\ Len(e) = 1 /\ e # <<>>
  BY <1>1, Single, ClosureAssumption
<1>3. Front(r \o e) = r \o Front(e) /\ Front(e) \in Seq(Parts) /\ Len(Front(e)) = 0
  <2>1. e \in Dotted
    BY <1>2 DEF Dotted
  <2> QED BY <1>2, <2>1, FrontIs
<1>4. Front(e) = <<>>
  BY <1>3, EmptySeq
<1> QED BY <1>1, <1>3, <1>4, ConcatEmptySeq DEF PackageInit

(* One more part behind a name.                                            *)
LEMMA OneMore ==
  ASSUME NEW r \in Seq(Parts), NEW b \in Dotted, NEW x \in Parts
  PROVE  /\ Append(b, x) \in Dotted /\ Append(b, x)[1] = b[1]
         /\ Len(Append(b, x)) = Len(b) + 1
         /\ \A d \in 1 .. Len(b) : SubSeq(Append(b, x), 1, d) = SubSeq(b, 1, d)
         /\ Append(r \o b, x) = r \o Append(b, x)
<1>1. b \in Seq(Parts) /\ Len(b) \in Nat \ {0}
  BY Whole DEF Dotted
<1>2. PICK e : e = <<x>>
  OBVIOUS
<1>3. e \in Seq(Parts) /\ Len(e) = 1
  BY <1>2, Single
<1>4. /\ Append(b, x) \in Seq(Parts) /\ Append(b, x) # <<>> /\ Len(Append(b, x)) = Len(b) + 1
      /\ Append(b, x)[1] = b[1]
  BY <1>1, AppendProperties
<1>5. Append(b, x) = b \o e
  BY <1>1, <1>2, AppendIsConcat
<1>6. \A d \in 1 .. Len(b) : SubSeq(b \o e, 1, d) = SubSeq(b, 1, d)
  <2> SUFFICES ASSUME NEW d \in 1 .. Len(b) PROVE SubSeq(b \o e, 1, d) = SubSeq(b, 1, d)
    OBVIOUS
  <2>1. 1 \in 1 .. Len(b)
    BY <1>1
  <2> QED BY <1>1, <1>3, <2>1, SubSeqOfConcat1
<1>7. r \o b \in Seq(Parts)
  BY <1>1, ConcatProperties
<1>8. Append(r \o b, x) = (r \o b) \o e
  BY <1>2, <1>7, AppendIsConcat
<1>9. (r \o b) \o e = r \o (b \o e)
  BY <1>1, <1>3, ConcatAssociative
<1> QED BY <1>4, <1>5, <1>6, <1>8, <1>9 DEF Dotted
-----------------------------------------------------------------------------
(* The name the walk looks up, and the root it finds it under, for a name  *)
(* that Python finds under root h: a relative name is looked up by path.   *)
Aimed(h, n, w, i) ==
  /\ h \in DOMAIN Roots /\ n \in Dotted
  /\ (w = n /\ i = h) \/ (w = Roots[h] \o n /\ i = 1)

(* A name's home is root h.                                                *)
AtHome(t, h, n) == Home(t, n[1]) = h

(* Where a name lies under a root.                                         *)
Spot(i, n) == Roots[i] \o n

(* Both names lead to one place.                                           *)
LEMMA AimedPlace ==
  ASSUME NEW h, NEW n, NEW w, NEW i, Aimed(h, n, w, i)
  PROVE  i \in DOMAIN Roots /\ Spot(i, w) = Spot(h, n)
<1>1. Roots[h] \in Seq(Parts) /\ Roots[1] = <<>> /\ 1 \in DOMAIN Roots /\ n \in Seq(Parts) /\ n # <<>>
  BY RootsAre DEF Aimed, Dotted
<1>2. Roots[h] \o n \in Seq(Parts) /\ Roots[h] \o n # <<>>
  BY <1>1, ConcatProperties, ConcatEqualIffEmpty
<1>3. <<>> \o (Roots[h] \o n) = Roots[h] \o n
  BY <1>2, ConcatEmptySeq
<1> QED BY <1>1, <1>2, <1>3 DEF Aimed, Spot

(* The name the walk looks up is a dotted name.                            *)
LEMMA AimedName ==
  ASSUME NEW h, NEW n, NEW w, NEW i, Aimed(h, n, w, i)
  PROVE  w \in Dotted
<1>1. Roots[h] \in Seq(Parts) /\ n \in Seq(Parts) /\ n # <<>>
  BY RootsAre DEF Aimed, Dotted
<1>2. Roots[h] \o n \in Seq(Parts) /\ Roots[h] \o n # <<>>
  BY <1>1, ConcatProperties, ConcatEqualIffEmpty
<1> QED BY <1>1, <1>2 DEF Aimed, Dotted

(* The walk passes every package that Python passes.                       *)
LEMMA AimedWay ==
  ASSUME NEW t, NEW h, NEW n, NEW w, NEW i, Aimed(h, n, w, i)
  PROVE  OnTheWay(t, Roots[h], n) \subseteq OnTheWay(t, Roots[i], w)
<1>1. CASE w = n /\ i = h
  BY <1>1
<1>2. CASE w = Roots[h] \o n /\ i = 1
  <2>1. PICK r : r = Roots[h]
    OBVIOUS
  <2>2. /\ r \in Seq(Parts) /\ Len(r) \in Nat /\ Roots[1] = <<>>
        /\ n \in Seq(Parts) /\ Len(n) \in Nat
    BY <2>1, RootsAre, LenProperties DEF Aimed, Dotted
  <2>3. Len(w) = Len(r) + Len(n)
    BY <1>2, <2>1, <2>2, ConcatProperties
  <2> SUFFICES ASSUME NEW d \in 1 .. Len(n) - 1
               PROVE  \E e \in 1 .. Len(w) - 1 : <<>> \o SubSeq(w, 1, e) = r \o SubSeq(n, 1, d)
    BY <1>2, <2>1, <2>2 DEF OnTheWay
  <2>4. d \in 0 .. Len(n) /\ Len(r) + d \in 1 .. Len(w) - 1
    BY <2>2, <2>3
  <2>5. SubSeq(n, 1, d) \in Seq(Parts) /\ SubSeq(w, 1, Len(r) + d) = r \o SubSeq(n, 1, d)
    BY <1>2, <2>1, <2>2, <2>4, ConcatPrefix
  <2>6. r \o SubSeq(n, 1, d) \in Seq(Parts)
    BY <2>2, <2>5, ConcatProperties
  <2>7. <<>> \o SubSeq(w, 1, Len(r) + d) = r \o SubSeq(n, 1, d)
    BY <2>5, <2>6, ConcatEmptySeq
  <2> QED BY <2>4, <2>7
<1> QED BY <1>1, <1>2 DEF Aimed

(* ... and so for a submodule.                                             *)
LEMMA AimedMore ==
  ASSUME NEW h, NEW n, NEW w, NEW i, Aimed(h, n, w, i), NEW x \in Parts
  PROVE  Aimed(h, Append(n, x), Append(w, x), i)
<1>1. Roots[h] \in Seq(Parts) /\ n \in Dotted
  BY RootsAre DEF Aimed
<1>2. Append(n, x) \in Dotted /\ Append(Roots[h] \o n, x) = Roots[h] \o Append(n, x)
  BY <1>1, OneMore
<1> QED BY <1>2 DEF Aimed

(* A submodule passes what its package passes, and the package.            *)
LEMMA WayMore ==
  ASSUME NEW t, NEW r \in Seq(Parts), NEW n \in Dotted, NEW x \in Parts
  PROVE  /\ OnTheWay(t, r, n) \subseteq OnTheWay(t, r, Append(n, x))
         /\ OnTheWay(t, r, Append(n, x)) \subseteq
              OnTheWay(t, r, n) \cup ({PackageInit(r \o n)} \cap DOMAIN t)
<1>1. /\ Len(n) \in Nat \ {0} /\ SubSeq(n, 1, Len(n)) = n
      /\ Len(Append(n, x)) = Len(n) + 1
      /\ \A d \in 1 .. Len(n) : SubSeq(Append(n, x), 1, d) = SubSeq(n, 1, d)
  BY Whole, OneMore
<1>2. \A d : d \in 1 .. Len(Append(n, x)) - 1 <=> d \in 1 .. Len(n)
  BY <1>1
<1>3. \A d : d \in 1 .. Len(n) <=> d \in 1 .. Len(n) - 1 \/ d = Len(n)
  BY <1>1
<1> QED BY <1>1, <1>2, <1>3 DEF OnTheWay

(* The walk finds what Python finds, where it is a file.                   *)
LEMMA AimedResolve ==
  ASSUME NEW t, DOMAIN t \subseteq Paths, NEW h, NEW n, NEW w, NEW i, Aimed(h, n, w, i),
         AtHome(t, h, n), Forms(t, Spot(h, n)) # {}
  PROVE  /\ FileAt(t, Spot(h, n)) \in Resolve(t, w)
         /\ OnTheWay(t, Roots[h], n) \subseteq Resolve(t, w)
<1>1. PICK found : found = {j \in DOMAIN Roots : Forms(t, Spot(j, w)) # {}}
  OBVIOUS
<1>2. i \in DOMAIN Roots /\ Spot(i, w) = Spot(h, n)
  BY AimedPlace
<1>3. i \in found
  BY <1>1, <1>2
<1>4. \A j \in found : i <= j
  <2> SUFFICES ASSUME NEW j \in found PROVE i <= j
    OBVIOUS
  <2>1. j \in DOMAIN Roots /\ Forms(t, Spot(j, w)) # {}
    BY <1>1
  <2>2. CASE i = 1
    BY <2>1, <2>2, RootsAre
  <2>3. CASE w = n /\ i = h
    <3>1. PICK p \in Forms(t, Spot(j, n)) : TRUE
      BY <2>1, <2>3
    <3>2. p \in Under(t, j, n[1])
      <4>1. p \in DOMAIN t /\ n \in Dotted
        BY <3>1 DEF Forms, Aimed
      <4> QED BY <2>1, <3>1, <4>1, FoundUnder DEF Spot
    <3>3. Under(t, j, n[1]) # {}
      BY <3>2
    <3>4. Home(t, n[1]) <= j
      BY <2>1, <3>3, HomeIs
    <3> QED BY <2>3, <3>4 DEF AtHome
  <2> QED BY <2>2, <2>3 DEF Aimed
<1>5. Min(found) = i
  <2>1. found \subseteq Nat
    BY <1>1, RootsAre
  <2>2. Min(found) \in found /\ Min(found) <= i
    BY <1>3, <2>1, LeastIs
  <2>3. PICK m \in Nat : m = Min(found)
    BY <2>1, <2>2
  <2>4. m = i
    BY <1>3, <1>4, <2>1, <2>2, <2>3
  <2> QED BY <2>3, <2>4
<1>6. Resolve(t, w) = {FileAt(t, Spot(i, w))} \cup OnTheWay(t, Roots[i], w)
  <2>1. found # {}
    BY <1>3
  <2> QED BY <1>1, <1>5, <2>1, Zenon DEF Resolve, Spot
<1>7. OnTheWay(t, Roots[h], n) \subseteq OnTheWay(t, Roots[i], w)
  BY AimedWay
<1> QED BY <1>2, <1>6, <1>7

(* Where a loaded module of the repository stands.                         *)
Placed(t, h, m) ==
  /\ h \in DOMAIN Roots /\ AtHome(t, h, m.name) /\ m.name \in Dotted
  /\ m = Module(t, m.name, Roots[h] \o m.name)
  /\ Forms(t, Roots[h] \o m.name) # {}

(* The script, which load_script runs, or a module found by an import.     *)
WellPlaced(t, m) == m = Main \/ \E h \in DOMAIN Roots : Placed(t, h, m)

(* The file of a name that has one is a file of the tree.                  *)
LEMMA FileAtIs ==
  ASSUME NEW t, NEW place, Forms(t, place) # {}
  PROVE  FileAt(t, place) \in Forms(t, place) /\ FileAt(t, place) \in DOMAIN t
BY DEF FileAt, Forms

(* The package of a loaded module is the directory of its file.            *)
LEMMA PlacedFile ==
  ASSUME NEW t, NEW h, NEW m, Placed(t, h, m)
  PROVE  /\ m.file \in DOMAIN t /\ m.package \in Seq(Parts)
         /\ Front(m.file) = Roots[h] \o m.package
         /\ m.package # <<>> => m.package[1] = m.name[1]
<1>1. PICK r : r = Roots[h]
  OBVIOUS
<1>2. PICK n : n = m.name
  OBVIOUS
<1>3. /\ r \in Seq(Parts) /\ n \in Dotted /\ n \in Seq(Parts) /\ h \in DOMAIN Roots
      /\ Forms(t, r \o n) # {}
  BY <1>1, <1>2, RootsAre DEF Placed, Dotted
<1>4. /\ m.file = FileAt(t, r \o n)
      /\ m.package = IF PackageInit(r \o n) \in DOMAIN t THEN n ELSE Front(n)
  <2>1. m = Module(t, n, r \o n)
    BY <1>1, <1>2 DEF Placed
  <2> HIDE <1>2
  <2>2. Module(t, n, r \o n).file = FileAt(t, r \o n)
        /\ Module(t, n, r \o n).package = IF PackageInit(r \o n) \in DOMAIN t THEN n ELSE Front(n)
    BY Zenon DEF Module
  <2> QED BY <2>1, <2>2
<1>5. m.file \in DOMAIN t
  BY <1>3, <1>4, FileAtIs
<1>6. CASE PackageInit(r \o n) \in DOMAIN t
  <2>1. m.package = n /\ m.file = PackageInit(r \o n)
    BY <1>4, <1>6 DEF FileAt
  <2>2. r \o n \in Seq(Parts)
    BY <1>3, ConcatProperties
  <2>3. Front(m.file) = r \o n
    BY <2>1, <2>2, FrontOfInit
  <2> QED BY <1>1, <1>2, <1>3, <1>5, <2>1, <2>3
<1>7. CASE PackageInit(r \o n) \notin DOMAIN t
  <2>1. m.package = Front(n) /\ m.file = r \o n
    BY <1>4, <1>7 DEF FileAt
  <2>2. Front(r \o n) = r \o Front(n) /\ Front(n) \in Seq(Parts)
        /\ (Front(n) # <<>> => Front(n)[1] = n[1])
    BY <1>3, FrontIs
  <2> QED BY <1>1, <1>2, <1>5, <2>1, <2>2
<1> QED BY <1>6, <1>7

(* Every module an import passes stands under the home of the name.        *)
LEMMA PassedPlaced ==
  ASSUME NEW t, NEW n \in Dotted, NEW h \in DOMAIN Roots, AtHome(t, h, n),
         NEW m \in Passed(t, h, n, Len(n))
  PROVE  Placed(t, h, m)
<1>1. Len(n) \in Nat
  BY Whole
<1>2. PICK d \in 1 .. Len(n) : /\ m = Module(t, SubSeq(n, 1, d), Place(h, n, d))
                              /\ Forms(t, Place(h, n, d)) # {}
  BY DEF Passed
<1>3. PICK p : p = SubSeq(n, 1, d)
  OBVIOUS
<1>4. p \in Dotted /\ p[1] = n[1]
  BY <1>1, <1>3, Part
<1>5. m = Module(t, p, Roots[h] \o p) /\ Forms(t, Roots[h] \o p) # {}
  BY <1>2, <1>3 DEF Place
<1>6. m.name = p
  BY <1>5 DEF Module
<1> QED BY <1>4, <1>5, <1>6 DEF Placed, AtHome

(* The parts of an import statement.                                       *)
LEMMA StatementIs ==
  ASSUME NEW s \in Statement
  PROVE  /\ s.from \in BOOLEAN /\ s.level \in Nat /\ s.module \in Seq(Parts)
         /\ s.names \subseteq Parts
         /\ s.from => s.names # {} /\ (s.level = 0 => s.module # <<>>)
         /\ ~s.from => s.level = 0 /\ s.module # <<>>
BY DEF Statement

(* The name a from-import starts from, seen from a package and from the    *)
(* directory of its files.                                                 *)
LEMMA ConcatThree ==
  \A r, a, u \in Seq(Parts) : (r \o a) \o u = r \o (a \o u)
BY ConcatAssociative

(* A relative import resolves to the same name from the directory of the   *)
(* file as from the package of the module, but for the root.               *)
LEMMA BaseIs ==
  ASSUME NEW s \in Statement, s.from, NEW p \in Seq(Parts), s.level <= Len(p)
  PROVE  /\ Base(s, p) \in Dotted
         /\ s.level = 0 => \A q : Base(s, q) = Base(s, p)
         /\ s.level # 0 => /\ p # <<>> /\ Base(s, p)[1] = p[1]
                           /\ \A r \in Seq(Parts) : Base(s, r \o p) = r \o Base(s, p)
<1>1. /\ s.level \in Nat /\ s.module \in Seq(Parts) /\ (s.level = 0 => s.module # <<>>)
      /\ Len(p) \in Nat
  BY StatementIs, LenProperties
<1>2. CASE s.level = 0
  BY <1>1, <1>2 DEF Base, Dotted
<1>3. CASE s.level # 0
  <2>1. PICK k \in 1 .. Len(p) : k = Len(p) - (s.level - 1)
    <3>1. Len(p) - (s.level - 1) \in 1 .. Len(p)
      BY <1>1, <1>3
    <3> QED BY <3>1
  <2>2. p # <<>> /\ p \in Dotted
    <3>1. p # <<>>
      <4>1. p = <<>> => Len(p) = 0
        BY EmptySeq
      <4> QED BY <2>1, <4>1
    <3> QED BY <3>1 DEF Dotted
  <2>3. PICK a : a = SubSeq(p, 1, k)
    OBVIOUS
  <2>4. PICK u : u = s.module
    OBVIOUS
  <2>5. a \in Seq(Parts) /\ a # <<>> /\ Len(a) = k /\ a[1] = p[1] /\ u \in Seq(Parts)
    BY <1>1, <2>2, <2>3, <2>4, Part DEF Dotted
  <2>6. Base(s, p) = a \o u
    BY <1>3, <2>1, <2>3, <2>4 DEF Base
  <2>7. a \o u \in Dotted /\ (a \o u)[1] = p[1]
    <3>1. a \o u \in Seq(Parts) /\ a \o u # <<>>
      BY <2>5, ConcatProperties, ConcatEqualIffEmpty
    <3>2. Len(u) \in Nat /\ 1 \in 1 .. Len(a) + Len(u) /\ 1 <= Len(a)
      BY <2>1, <2>5, LenProperties
    <3>3. (a \o u)[1] = a[1]
      BY <2>5, <3>2, ConcatProperties
    <3> QED BY <2>5, <3>1, <3>3 DEF Dotted
  <2>8. ASSUME NEW r \in Seq(Parts) PROVE Base(s, r \o p) = r \o Base(s, p)
    <3>1. Len(r \o p) = Len(r) + Len(p) /\ Len(r) \in Nat
      BY ConcatProperties, LenProperties
    <3>2. Len(r \o p) - (s.level - 1) = Len(r) + k
      BY <1>1, <2>1, <3>1
    <3>3. Base(s, r \o p) = SubSeq(r \o p, 1, Len(r) + k) \o u
      BY <1>3, <2>4, <3>2 DEF Base
    <3>4. SubSeq(r \o p, 1, Len(r) + k) = r \o a
      <4>1. k \in 0 .. Len(p)
        BY <2>1
      <4> QED BY <2>3, <4>1, ConcatPrefix
    <3>5. (r \o a) \o u = r \o (a \o u)
      BY <2>5, ConcatThree
    <3> QED BY <2>6, <3>3, <3>4, <3>5
  <2> QED BY <1>3, <2>2, <2>6, <2>7, <2>8
<1> QED BY <1>2, <1>3

(* The first name of a statement: as Python imports it and as the walk     *)
(* looks it up.                                                            *)
Target(s, m) == IF s.from THEN Base(s, m.package) ELSE s.module
Lookup(s, m) == IF s.from THEN Base(s, Front(m.file)) ELSE s.module

(* A relative import that climbs out of its package raises ImportError.    *)
Runs(s, m) == s.from => s.level <= Len(m.package)

(* The walk looks up the name that Python imports.                         *)
LEMMA TargetAimed ==
  ASSUME NEW t, NEW m, WellPlaced(t, m), NEW s \in Statement, Runs(s, m),
         NEW h \in DOMAIN Roots, AtHome(t, h, Target(s, m))
  PROVE  Target(s, m) \in Dotted /\ \E i : Aimed(h, Target(s, m), Lookup(s, m), i)
<1>1. /\ s.from \in BOOLEAN /\ s.level \in Nat /\ s.module \in Seq(Parts)
      /\ ~s.from => s.level = 0 /\ s.module # <<>>
  BY StatementIs
<1>2. CASE ~s.from
  <2>1. Target(s, m) = s.module /\ Lookup(s, m) = s.module /\ s.module \in Dotted
    BY <1>1, <1>2 DEF Target, Lookup, Dotted
  <2> QED BY <2>1 DEF Aimed
<1>3. m.package \in Seq(Parts) /\ Len(m.package) \in Nat
  <2>1. CASE m = Main
    <3>1. m.package = <<>>
      BY <2>1 DEF Main
    <3> QED BY <3>1, EmptySeq
  <2>2. CASE \E k \in DOMAIN Roots : Placed(t, k, m)
    BY <2>2, PlacedFile, LenProperties
  <2> QED BY <2>1, <2>2 DEF WellPlaced
<1>4. CASE s.from
  <2>0. Target(s, m) = Base(s, m.package) /\ Lookup(s, m) = Base(s, Front(m.file))
        /\ s.level <= Len(m.package)
    BY <1>4 DEF Target, Lookup, Runs
  <2>1. Base(s, m.package) \in Dotted
    BY <1>3, <1>4, <2>0, BaseIs
  <2>2. CASE s.level = 0
    <3>1. Base(s, Front(m.file)) = Base(s, m.package)
      BY <1>3, <1>4, <2>0, <2>2, BaseIs
    <3> QED BY <2>0, <2>1, <3>1 DEF Aimed
  <2>3. CASE s.level # 0
    <3>1. /\ m.package # <<>> /\ Base(s, m.package)[1] = m.package[1]
          /\ \A r \in Seq(Parts) : Base(s, r \o m.package) = r \o Base(s, m.package)
      BY <1>3, <1>4, <2>0, <2>3, BaseIs
    <3>2. m # Main
      BY <3>1 DEF Main
    <3>3. PICK k \in DOMAIN Roots : Placed(t, k, m)
      BY <3>2 DEF WellPlaced
    <3>4. Front(m.file) = Roots[k] \o m.package /\ m.package[1] = m.name[1]
      <4>1. m.package # <<>>
        BY <3>1
      <4>2. Placed(t, k, m)
        BY <3>3
      <4>3. Front(m.file) = Roots[k] \o m.package
        BY <4>2, PlacedFile
      <4>4. m.package[1] = m.name[1]
        BY <4>1, <4>2, PlacedFile
      <4> QED BY <4>3, <4>4
    <3>5. k = h
      BY <2>0, <3>1, <3>3, <3>4 DEF Placed, AtHome
    <3>6. Lookup(s, m) = Roots[h] \o Target(s, m)
      BY <2>0, <3>1, <3>4, <3>5, RootsAre
    <3> QED BY <2>0, <2>1, <3>6 DEF Aimed
  <2> QED BY <2>2, <2>3
<1> QED BY <1>1, <1>2, <1>4

(* _names of the walk yields that name and, for a from-import, the         *)
(* submodules below it.                                                    *)
LEMMA NamesAre ==
  ASSUME NEW t, NEW m, WellPlaced(t, m), NEW s \in Statement, Runs(s, m),
         NEW w \in Dotted, w = Lookup(s, m)
  PROVE  /\ w \in DottedNames(s, m.file)
         /\ s.from => \A x \in s.names : Append(w, x) \in DottedNames(s, m.file)
         /\ \A v \in DottedNames(s, m.file) : v = w \/ (s.from /\ \E x \in s.names : v = Append(w, x))
<1>1. s.from \in BOOLEAN /\ s.level \in Nat /\ s.names \subseteq Parts
  BY StatementIs
<1>2. CASE ~s.from
  <2>1. w = s.module
    BY <1>2 DEF Lookup
  <2>2. DottedNames(s, m.file) = {w}
    BY <1>2, <2>1, Zenon DEF DottedNames
  <2> QED BY <1>2, <2>2
<1>3. CASE s.from
  <2>1. s.level <= Len(Front(m.file)) + 1 /\ Len(Front(m.file)) \in Nat
    <3>1. CASE m = Main
      <4>1. m.package = <<>> /\ m.file = Script
        BY <3>1 DEF Main
      <4>2. Len(m.package) = 0
        BY <4>1
      <4>3. Len(Front(m.file)) \in Nat
        <5>1. Script \in Dotted /\ <<>> \in Seq(Parts)
          BY ClosureAssumption DEF Paths, Dotted
        <5>2. Front(Script) \in Seq(Parts)
          BY <5>1, FrontIs
        <5> QED BY <4>1, <5>2, LenProperties
      <4> QED BY <1>1, <1>3, <4>2, <4>3 DEF Runs
    <3>2. CASE \E h \in DOMAIN Roots : Placed(t, h, m)
      <4>1. PICK h \in DOMAIN Roots : Placed(t, h, m)
        BY <3>2
      <4>2. Front(m.file) = Roots[h] \o m.package /\ m.package \in Seq(Parts)
        BY <4>1, PlacedFile
      <4>3. Roots[h] \in Seq(Parts)
        BY RootsAre
      <4>4. /\ Len(Roots[h] \o m.package) = Len(Roots[h]) + Len(m.package)
            /\ Len(Roots[h]) \in Nat /\ Len(m.package) \in Nat
        BY <4>2, <4>3, ConcatProperties, LenProperties
      <4> QED BY <1>1, <1>3, <4>2, <4>4 DEF Runs
    <3> QED BY <3>1, <3>2 DEF WellPlaced
  <2>2. ~(s.level > Len(Front(m.file)) + 1)
    BY <1>1, <2>1
  <2>3. DottedNames(s, m.file) = ({w} \cup {Append(w, x) : x \in s.names}) \ {<<>>}
    BY <1>3, <2>2, Zenon DEF DottedNames, Lookup
  <2>4. w # <<>> /\ \A x \in s.names : Append(w, x) # <<>>
    BY <1>1, OneMore DEF Dotted
  <2> QED BY <1>3, <2>3, <2>4
<1> QED BY <1>1, <1>2, <1>3

(* The files of an import that reaches its end.                            *)
LEMMA PassedWay ==
  ASSUME NEW t, NEW n \in Dotted, NEW at, Reached(t, n, Len(n), at),
         NEW h, AtHome(t, h, n), NEW m \in at.loaded
  PROVE  \/ m.file \in OnTheWay(t, Roots[h], n)
         \/ (Forms(t, Spot(h, n)) # {} /\ m.file = FileAt(t, Spot(h, n)))
<1>1. Len(n) \in Nat \ {0} /\ SubSeq(n, 1, Len(n)) = n
  BY Whole
<1>2. /\ m \in Passed(t, h, n, Len(n))
      /\ \A e \in 1 .. Len(n) - 1 :
           Forms(t, Place(h, n, e)) # {} => PackageInit(Place(h, n, e)) \in DOMAIN t
  BY DEF Reached, AtHome
<1>3. PICK d \in 1 .. Len(n) : /\ m = Module(t, SubSeq(n, 1, d), Place(h, n, d))
                              /\ Forms(t, Place(h, n, d)) # {}
  BY <1>2 DEF Passed
<1>4. m.file = FileAt(t, Place(h, n, d))
  <2>1. \A nm, pl : Module(t, nm, pl).file = FileAt(t, pl)
    BY Zenon DEF Module
  <2> QED BY <1>3, <2>1
<1>5. CASE d = Len(n)
  <2>1. Place(h, n, d) = Spot(h, n)
    BY <1>1, <1>5 DEF Place, Spot
  <2> QED BY <1>3, <1>4, <2>1
<1>6. CASE d # Len(n)
  <2>0. Len(n) \in Nat
    BY <1>1
  <2>1. d \in 1 .. Len(n) - 1
    BY ONLY <1>6, <2>0, d \in 1 .. Len(n)
  <2>2. PackageInit(Place(h, n, d)) \in DOMAIN t
    BY <1>2, <1>3, <2>1
  <2>3. m.file = PackageInit(Place(h, n, d))
    BY <1>4, <2>2 DEF FileAt
  <2> QED BY <2>1, <2>2, <2>3 DEF OnTheWay, Place
<1> QED BY <1>5, <1>6

-----------------------------------------------------------------------------
(* The walk finds every file of the repository that a statement loads.     *)

(* A statement of a loaded module, as both sides read it.                  *)
Reads(t, m, s) ==
  /\ WellPlaced(t, m) /\ m.file \in DOMAIN t /\ s \in t[m.file].imports
  /\ s \in Statement /\ Runs(s, m)

(* What the walk finds for a statement, links out of the repository        *)
(* included.                                                               *)
Walked(t, m, s) == UNION {Resolve(t, v) : v \in DottedNames(s, m.file)}

(* The blind spots that concern where a name is found are not there.       *)
Plain(t) == DOMAIN t \subseteq Paths /\ ~SplitPackage(t) /\ ~BareDirectory(t)

(* The walk finds the file of a statement's name and of every package on   *)
(* its way.                                                                *)
LEMMA TargetWalked ==
  ASSUME NEW t, Plain(t), NEW m, NEW s, Reads(t, m, s),
         NEW n \in Dotted, n = Target(s, m), NEW at, Reached(t, n, Len(n), at),
         NEW h, AtHome(t, h, n)
  PROVE  /\ OnTheWay(t, Roots[h], n) \subseteq Walked(t, m, s)
         /\ Forms(t, Spot(h, n)) # {} => FileAt(t, Spot(h, n)) \in Walked(t, m, s)
<1>1. /\ h \in DOMAIN Roots
      /\ Forms(t, Spot(h, n)) # {} \/ IsDirectory(t, Spot(h, n))
  <2>1. Place(h, n, Len(n)) = Spot(h, n)
    BY Whole DEF Place, Spot
  <2> QED BY <2>1 DEF Reached, AtHome
<1>2. s \in Statement /\ WellPlaced(t, m) /\ Runs(s, m) /\ s.names \subseteq Parts
  BY StatementIs DEF Reads
<1>3. PICK w : w = Lookup(s, m)
  OBVIOUS
<1>4. PICK i : Aimed(h, n, w, i)
  BY <1>1, <1>2, <1>3, TargetAimed
<1>5. i \in DOMAIN Roots /\ Spot(i, w) = Spot(h, n) /\ w \in Dotted
  BY <1>4, AimedPlace, AimedName
<1>6. /\ w \in DottedNames(s, m.file)
      /\ \A v \in DottedNames(s, m.file) : v = w \/ (s.from /\ \E x \in s.names : v = Append(w, x))
  BY <1>2, <1>3, <1>5, NamesAre
<1>7. CASE Forms(t, Spot(h, n)) # {}
  <2>1. DOMAIN t \subseteq Paths
    BY DEF Plain
  <2>2. FileAt(t, Spot(h, n)) \in Resolve(t, w) /\ OnTheWay(t, Roots[h], n) \subseteq Resolve(t, w)
    BY <1>4, <1>7, <2>1, AimedResolve
  <2> QED BY <1>6, <2>2 DEF Walked
<1>8. CASE Forms(t, Spot(h, n)) = {}
  <2>1. IsDirectory(t, Spot(i, w)) /\ Forms(t, Spot(i, w)) = {}
    BY <1>1, <1>5, <1>8
  <2>2. m.file \in DOMAIN t /\ s \in t[m.file].imports /\ ~BareDirectory(t)
    BY DEF Plain, Reads
  <2>3. \/ \E v \in DottedNames(s, m.file) : Forms(t, Spot(i, v)) # {}
        \/ OnTheWay(t, Roots[i], w) = {}
    BY <1>5, <1>6, <2>1, <2>2 DEF BareDirectory, Spot
  <2>4. CASE OnTheWay(t, Roots[i], w) = {}
    <3>1. OnTheWay(t, Roots[h], n) = {}
      BY <1>4, <2>4, AimedWay
    <3> QED BY <1>8, <3>1
  <2>5. CASE \E v \in DottedNames(s, m.file) : Forms(t, Spot(i, v)) # {}
    <3>1. PICK v \in DottedNames(s, m.file) : Forms(t, Spot(i, v)) # {}
      BY <2>5
    <3>2. v # w
      BY <2>1, <3>1
    <3>3. PICK x \in Parts : v = Append(w, x)
      BY <1>2, <1>6, <3>1, <3>2
    <3>4. PICK q : q = Append(n, x)
      OBVIOUS
    <3>5. Aimed(h, q, v, i)
      BY <1>4, <3>3, <3>4, AimedMore
    <3>6. Spot(i, v) = Spot(h, q)
      BY <3>5, AimedPlace
    <3>7. Roots[h] \in Seq(Parts)
      BY <1>1, RootsAre
    <3>8. AtHome(t, h, q)
      <4>1. q[1] = n[1]
        BY <3>4, <3>7, OneMore
      <4> QED BY <4>1 DEF AtHome
    <3>9. OnTheWay(t, Roots[h], q) \subseteq Resolve(t, v)
      <4>1. DOMAIN t \subseteq Paths /\ Forms(t, Spot(h, q)) # {}
        BY <3>1, <3>6 DEF Plain
      <4> QED BY <3>5, <3>8, <4>1, AimedResolve
    <3>10. OnTheWay(t, Roots[h], n) \subseteq OnTheWay(t, Roots[h], q)
      BY <3>4, <3>7, WayMore
    <3> QED BY <1>8, <3>1, <3>9, <3>10 DEF Walked
  <2> QED BY <2>3, <2>4, <2>5
<1> QED BY <1>7, <1>8

(* ... and a name of it that is imported as a submodule.                   *)
LEMMA SubmoduleWalked ==
  ASSUME NEW t, Plain(t), NEW m, NEW s, Reads(t, m, s), s.from,
         NEW n \in Dotted, n = Target(s, m), NEW at, Reached(t, n, Len(n), at),
         NEW x \in s.names, NEW sub, Reached(t, Append(n, x), Len(Append(n, x)), sub),
         NEW m2 \in sub.loaded
  PROVE  m2.file \in Walked(t, m, s)
<1>1. PICK h : h = Home(t, n[1])
  OBVIOUS
<1>2. PICK q : q = Append(n, x)
  OBVIOUS
<1>3. s \in Statement /\ WellPlaced(t, m) /\ Runs(s, m) /\ s.names \subseteq Parts /\ x \in Parts
  BY StatementIs DEF Reads
<1>4. AtHome(t, h, n) /\ h \in DOMAIN Roots /\ Roots[h] \in Seq(Parts)
  BY <1>1, RootsAre DEF AtHome, Reached
<1>5. q \in Dotted /\ q[1] = n[1] /\ AtHome(t, h, q)
  <2>1. q \in Dotted /\ q[1] = n[1]
    BY <1>2, <1>3, <1>4, OneMore
  <2> QED BY <1>4, <2>1 DEF AtHome
<1>6. \/ m2.file \in OnTheWay(t, Roots[h], q)
      \/ (Forms(t, Spot(h, q)) # {} /\ m2.file = FileAt(t, Spot(h, q)))
  <2>1. Reached(t, q, Len(q), sub)
    BY <1>2
  <2>2. q \in Dotted /\ m2 \in sub.loaded
    BY <1>5
  <2>3. AtHome(t, h, q)
    BY <1>5
  <2> QED BY ONLY <2>1, <2>2, <2>3, PassedWay
<1>7. PICK w : w = Lookup(s, m)
  OBVIOUS
<1>8. PICK i : Aimed(h, n, w, i)
  BY <1>3, <1>4, <1>7, TargetAimed
<1>9. Aimed(h, q, Append(w, x), i)
  BY <1>2, <1>3, <1>8, AimedMore
<1>10. Append(w, x) \in DottedNames(s, m.file)
  BY <1>3, <1>7, <1>8, AimedName, NamesAre
<1>11. CASE Forms(t, Spot(h, q)) # {}
  <2>1. DOMAIN t \subseteq Paths
    BY DEF Plain
  <2>2. /\ FileAt(t, Spot(h, q)) \in Resolve(t, Append(w, x))
        /\ OnTheWay(t, Roots[h], q) \subseteq Resolve(t, Append(w, x))
    BY <1>5, <1>9, <1>11, <2>1, AimedResolve
  <2> QED BY <1>6, <1>10, <2>2 DEF Walked
<1>12. CASE m2.file \in OnTheWay(t, Roots[h], q)
  <2>1. /\ OnTheWay(t, Roots[h], n) \subseteq Walked(t, m, s)
        /\ Forms(t, Spot(h, n)) # {} => FileAt(t, Spot(h, n)) \in Walked(t, m, s)
    BY <1>4, TargetWalked
  <2>2. \/ m2.file \in OnTheWay(t, Roots[h], n)
        \/ (m2.file = PackageInit(Spot(h, n)) /\ PackageInit(Spot(h, n)) \in DOMAIN t)
    <3>1. OnTheWay(t, Roots[h], q) \subseteq
              OnTheWay(t, Roots[h], n) \cup ({PackageInit(Roots[h] \o n)} \cap DOMAIN t)
      BY <1>2, <1>3, <1>4, WayMore
    <3> QED BY <1>12, <3>1 DEF Spot
  <2>3. PackageInit(Spot(h, n)) \in DOMAIN t =>
          FileAt(t, Spot(h, n)) = PackageInit(Spot(h, n)) /\ Forms(t, Spot(h, n)) # {}
    BY DEF FileAt, Forms
  <2> QED BY <2>1, <2>2, <2>3
<1> QED BY <1>6, <1>11, <1>12

(* What an import that does not fail has loaded stands under one home.     *)
LEMMA ImportFinds ==
  ASSUME NEW t, Plain(t), NEW n \in Dotted, NEW at, at = Import(t, n), at.state # "failed"
  PROVE  /\ at.state \in {"found", "installed"}
         /\ at.state = "found" => Reached(t, n, Len(n), at)
         /\ at.state = "installed" =>
              at.loaded = {} /\ \A i \in DOMAIN Roots : Under(t, i, n[1]) = {}
         /\ \A m \in at.loaded : WellPlaced(t, m) /\ Placed(t, Home(t, n[1]), m)
<1>1. ImportInv(t, n, Len(n), at)
  BY ImportReaches DEF Plain
<1>2. ASSUME NEW m \in at.loaded PROVE WellPlaced(t, m) /\ Placed(t, Home(t, n[1]), m)
  <2>1. PICK h : h = Home(t, n[1])
    OBVIOUS
  <2>2. at.state = "found"
    BY <1>1, <1>2 DEF ImportInv
  <2>3. Reached(t, n, Len(n), at)
    BY <1>1, <2>2 DEF ImportInv
  <2>4. h \in DOMAIN Roots /\ AtHome(t, h, n) /\ m \in Passed(t, h, n, Len(n))
    BY <1>2, <2>1, <2>3 DEF Reached, AtHome
  <2>5. Placed(t, h, m)
    BY <2>4, PassedPlaced
  <2> QED BY <2>1, <2>4, <2>5 DEF WellPlaced
<1> QED BY <1>1, <1>2 DEF ImportInv

(* A loaded module has a file of the tree.                                 *)
LEMMA PlacedFiles ==
  ASSUME NEW t, NEW m, WellPlaced(t, m), Script \in DOMAIN t
  PROVE  m.file \in DOMAIN t /\ m.package \in Seq(Parts) /\ Len(m.package) \in Nat
<1>1. CASE m = Main
  <2>1. m.file = Script /\ m.package = <<>>
    BY <1>1 DEF Main
  <2> QED BY <2>1, EmptySeq
<1>2. CASE \E h \in DOMAIN Roots : Placed(t, h, m)
  BY <1>2, PlacedFile, LenProperties
<1> QED BY <1>1, <1>2 DEF WellPlaced

(* A from-import goes on to names it writes down.                          *)
LEMMA SubmoduleIs ==
  ASSUME NEW t, Plain(t), ~StarExport(t), Script \in DOMAIN t,
         NEW f \in DOMAIN t, NEW s \in t[f].imports, s.from,
         NEW n \in Dotted, Import(t, n).state # "failed", NEW q \in Submodules(t, n, s.names)
  PROVE  \E x \in s.names : q = Append(n, x)
<1>1. PICK at : at = Import(t, n)
  OBVIOUS
<1>2. PICK bodies : bodies = {t[m.file] : m \in {m \in at.loaded : m.name = n}}
  OBVIOUS
<1>3. PICK x : /\ q = Append(n, x)
               /\ x \in (IF s.names = {"*"} THEN UNION {b.all : b \in bodies} ELSE s.names)
  BY <1>1, <1>2, Zenon DEF Submodules
<1>4. CASE s.names = {"*"}
  <2>1. PICK m \in at.loaded : x \in t[m.file].all
    BY <1>2, <1>3, <1>4
  <2>2. WellPlaced(t, m)
    BY <1>1, <2>1, ImportFinds
  <2>3. m.file \in DOMAIN t
    BY <2>2, PlacedFiles
  <2>4. StarExport(t)
    BY <1>4, <2>1, <2>3 DEF StarExport
  <2> QED BY <2>4
<1>5. CASE s.names # {"*"}
  BY <1>3, <1>5
<1> QED BY <1>4, <1>5

(* What a statement comes to.                                              *)
LEMMA RunImportIs ==
  ASSUME NEW t, NEW m, NEW s \in Statement, Len(m.package) \in Nat,
         NEW run, run = RunImport(t, s, m), run.state # "failed",
         NEW n, n = Target(s, m), NEW at, at = Import(t, n)
  PROVE  /\ Runs(s, m)
         /\ ~s.from => run = at
         /\ s.from /\ at.state # "found" => run.state = at.state /\ run.loaded = at.loaded
         /\ s.from /\ at.state = "found" =>
              /\ \A q \in Submodules(t, n, s.names) : Import(t, q).state # "failed"
              /\ run.loaded = at.loaded
                   \cup UNION {Import(t, q).loaded : q \in Submodules(t, n, s.names)}
<1>1. s.from \in BOOLEAN /\ s.level \in Nat
  BY StatementIs
<1>2. CASE ~s.from
  <2>1. n = s.module
    BY <1>2 DEF Target
  <2> QED BY <1>2, <2>1 DEF RunImport, Runs
<1>3. CASE s.from
  <2>1. n = Base(s, m.package)
    BY <1>3 DEF Target
  <2>2. ~(s.level > Len(m.package))
    <3>1. ASSUME s.level > Len(m.package) PROVE FALSE
      <4>1. run = ImportError
        BY <1>3, <3>1 DEF RunImport
      <4> QED BY <4>1 DEF ImportError
    <3> QED BY <3>1
  <2>3. Runs(s, m)
    BY <1>1, <2>2 DEF Runs
  <2>4. run = ImportFrom(t, n, s.names)
    BY <1>3, <2>1, <2>2 DEF RunImport
  <2>5. CASE at.state # "found"
    <3>1. run = [state |-> at.state, loaded |-> at.loaded]
      BY <2>4, <2>5 DEF ImportFrom
    <3> QED BY <1>3, <2>3, <2>5, <3>1
  <2>6. CASE at.state = "found"
    <3>1. PICK subs : subs = {Import(t, q) : q \in Submodules(t, n, s.names)}
      OBVIOUS
    <3>2. run = [loaded |-> at.loaded \cup UNION {x.loaded : x \in subs},
                 state |-> IF \E x \in subs : x.state = "failed" THEN "failed" ELSE "found"]
      BY <2>4, <2>6, <3>1, Zenon DEF ImportFrom
    <3>3. \A x \in subs : x.state # "failed"
      BY <3>2
    <3>4. run.loaded = at.loaded \cup UNION {x.loaded : x \in subs}
      BY <3>2
    <3>5. \A q \in Submodules(t, n, s.names) : Import(t, q).state # "failed"
      BY <3>1, <3>3
    <3>6. UNION {x.loaded : x \in subs} =
            UNION {Import(t, q).loaded : q \in Submodules(t, n, s.names)}
      BY <3>1
    <3> QED BY <1>3, <2>3, <2>6, <3>4, <3>5, <3>6
  <2> QED BY <2>5, <2>6
<1> QED BY <1>1, <1>2, <1>3

(* A statement that runs imports a dotted name.                            *)
LEMMA TargetDotted ==
  ASSUME NEW s \in Statement, NEW m, m.package \in Seq(Parts), Runs(s, m)
  PROVE  Target(s, m) \in Dotted
<1>1. s.from \in BOOLEAN /\ (~s.from => s.module # <<>>) /\ s.module \in Seq(Parts)
  BY StatementIs
<1>2. s.from => Base(s, m.package) \in Dotted
  BY BaseIs DEF Runs
<1> QED BY <1>1, <1>2 DEF Target, Dotted

(* The walk finds every file that a statement runs.                        *)
LEMMA StatementWalked ==
  ASSUME NEW t, Plain(t), ~StarExport(t), Script \in DOMAIN t,
         NEW m, WellPlaced(t, m), NEW s \in t[m.file].imports, s \in Statement,
         RunImport(t, s, m).state # "failed",
         NEW m2 \in RunImport(t, s, m).loaded
  PROVE  WellPlaced(t, m2) /\ m2.file \in Walked(t, m, s)
<1>1. m.file \in DOMAIN t /\ m.package \in Seq(Parts) /\ Len(m.package) \in Nat
  BY PlacedFiles
<1>2. PICK run : run = RunImport(t, s, m)
  OBVIOUS
<1>3. PICK n : n = Target(s, m)
  OBVIOUS
<1>4. PICK at : at = Import(t, n)
  OBVIOUS
<1>5. /\ Runs(s, m) /\ (~s.from => run = at)
      /\ s.from /\ at.state # "found" => run.state = at.state /\ run.loaded = at.loaded
      /\ s.from /\ at.state = "found" =>
           /\ \A q \in Submodules(t, n, s.names) : Import(t, q).state # "failed"
           /\ run.loaded = at.loaded
                \cup UNION {Import(t, q).loaded : q \in Submodules(t, n, s.names)}
  BY <1>1, <1>2, <1>3, <1>4, RunImportIs
<1>6. n \in Dotted /\ Reads(t, m, s) /\ s.from \in BOOLEAN /\ s.names \subseteq Parts
  BY <1>1, <1>3, <1>5, TargetDotted, StatementIs DEF Reads
<1>7. at.state # "failed"
  BY <1>2, <1>5, <1>6
<1>8. /\ at.state = "found" => Reached(t, n, Len(n), at)
      /\ at.state \in {"found", "installed"} /\ (at.state = "installed" => at.loaded = {})
      /\ \A k \in at.loaded : WellPlaced(t, k)
  BY <1>4, <1>6, <1>7, ImportFinds
<1>9. CASE m2 \in at.loaded
  <2>1. Reached(t, n, Len(n), at)
    BY <1>8, <1>9
  <2>2. PICK h : AtHome(t, h, n)
    BY DEF AtHome
  <2>3. \/ m2.file \in OnTheWay(t, Roots[h], n)
        \/ (Forms(t, Spot(h, n)) # {} /\ m2.file = FileAt(t, Spot(h, n)))
    BY <1>6, <1>9, <2>1, <2>2, PassedWay
  <2>4. /\ OnTheWay(t, Roots[h], n) \subseteq Walked(t, m, s)
        /\ Forms(t, Spot(h, n)) # {} => FileAt(t, Spot(h, n)) \in Walked(t, m, s)
    BY <1>3, <1>6, <2>1, <2>2, TargetWalked
  <2> QED BY <1>8, <1>9, <2>3, <2>4
<1>10. CASE m2 \notin at.loaded
  <2>1. s.from /\ at.state = "found" /\ Reached(t, n, Len(n), at)
    BY <1>2, <1>5, <1>6, <1>8, <1>10
  <2>2. PICK q \in Submodules(t, n, s.names) : m2 \in Import(t, q).loaded
    BY <1>2, <1>5, <1>10, <2>1
  <2>3. PICK x \in s.names : q = Append(n, x)
    BY <1>1, <1>4, <1>6, <1>7, <2>1, <2>2, SubmoduleIs
  <2>4. PICK sub : sub = Import(t, q)
    OBVIOUS
  <2>5. q \in Dotted
    <3>1. <<>> \in Seq(Parts)
      BY EmptySeq
    <3> QED BY <1>6, <2>3, <3>1, OneMore
  <2>6. sub.state # "failed"
    BY <1>5, <2>1, <2>2, <2>4
  <2>7. /\ sub.state = "found" => Reached(t, q, Len(q), sub)
        /\ sub.state \in {"found", "installed"} /\ (sub.state = "installed" => sub.loaded = {})
        /\ \A k \in sub.loaded : WellPlaced(t, k)
    BY <2>4, <2>5, <2>6, ImportFinds
  <2>8. m2 \in sub.loaded /\ Reached(t, q, Len(q), sub)
    BY <2>2, <2>4, <2>7
  <2>9. Reached(t, Append(n, x), Len(Append(n, x)), sub)
    BY <2>3, <2>8
  <2>10. m2.file \in Walked(t, m, s)
    BY <1>3, <1>6, <2>1, <2>8, <2>9, SubmoduleWalked
  <2> QED BY <2>7, <2>8, <2>10
<1> QED BY <1>9, <1>10

-----------------------------------------------------------------------------
(* So the closure covers a run: what one statement loads is covered, and   *)
(* what two trees that agree on the closure load is the same.              *)

(* A tree whose run a set of files accounts for.                           *)
Sound(t, S) ==
  /\ IsTree(t) /\ ~BlindSpot(t) /\ Script \in S /\ S \subseteq DOMAIN t
  /\ \A f \in S : Candidates(t, f) \subseteq S

(* The file of a module is in the set, or leaves the repository.           *)
Covered(t, S, m) == m.file \in S \/ t[m.file].state = "outside"

(* The parts of IsTree.                                                    *)
LEMMA TreeIs ==
  ASSUME NEW t, IsTree(t)
  PROVE  /\ DOMAIN t \subseteq Paths /\ Script \in DOMAIN t
         /\ \A f \in DOMAIN t : t[f].imports \subseteq Statement
         /\ \A f \in DOMAIN t : t[f].state = "outside" =>
              t[f].imports = {} /\ t[f].attrs = {} /\ t[f].all = {}
BY DEF IsTree, IsBody

(* The parts of Sound.                                                     *)
LEMMA SoundIs ==
  ASSUME NEW t, NEW S, Sound(t, S)
  PROVE  Plain(t) /\ ~StarExport(t) /\ ~HidingLink(t) /\ Script \in DOMAIN t
BY TreeIs DEF Sound, Plain, BlindSpot

(* What a statement of a covered module loads is covered.                  *)
LEMMA StatementCovered ==
  ASSUME NEW t, NEW S, Sound(t, S), NEW m, WellPlaced(t, m), Covered(t, S, m),
         NEW s \in t[m.file].imports, RunImport(t, s, m).state # "failed",
         NEW m2 \in RunImport(t, s, m).loaded
  PROVE  WellPlaced(t, m2) /\ Covered(t, S, m2) /\ s \in Statement /\ m.file \in S
<1>1. m.file \in DOMAIN t
  BY SoundIs, PlacedFiles
<1>2. s \in Statement /\ m.file \in S
  BY <1>1, TreeIs DEF Covered, Sound
<1>3. WellPlaced(t, m2) /\ m2.file \in Walked(t, m, s)
  BY <1>2, SoundIs, StatementWalked
<1>4. t[m2.file].state # "outside" => m2.file \in Candidates(t, m.file)
  BY <1>3 DEF Candidates, Walked
<1> QED BY <1>2, <1>3, <1>4 DEF Covered, Sound

(* A part with a file is passed.                                           *)
LEMMA PassedIs ==
  ASSUME NEW t, NEW n, NEW h, NEW k, NEW d \in 1 .. k, NEW p \in Forms(t, Place(h, n, d))
  PROVE  Module(t, SubSeq(n, 1, d), Place(h, n, d)) \in Passed(t, h, n, k)
BY DEF Passed

(* The file of a module does not depend on its name.                       *)
LEMMA ModuleFile ==
  \A t, name, place : Module(t, name, place).file = FileAt(t, place)
BY Zenon DEF Module

(* Two trees that agree on the files a run is accounted for by: a file of  *)
(* them that one imports is imported by the other.                         *)
LEMMA SameHome ==
  ASSUME NEW t, NEW u, NEW S, Sound(t, S), Sound(u, S), NEW n \in Dotted,
         NEW h \in DOMAIN Roots, AtHome(t, h, n), Under(u, h, n[1]) # {},
         NEW at, Reached(u, n, Len(n), at), \A m \in at.loaded : Covered(u, S, m)
  PROVE  AtHome(u, h, n)
<1>1. PICK k : k = Home(u, n[1])
  OBVIOUS
<1>2. k \in DOMAIN Roots /\ Under(u, k, n[1]) # {} /\ k <= h
  BY <1>1, HomeIs
<1>3. h \in Nat /\ k \in Nat /\ n[1] \in Parts /\ 1 \in DOMAIN Roots
  <2>1. n[1] \in Parts
    BY Whole DEF Dotted
  <2> QED BY <1>2, <2>1, RootsAre
<1>4. DOMAIN u \subseteq Paths /\ DOMAIN t \subseteq Paths /\ ~SplitPackage(u) /\ S \subseteq DOMAIN t
  BY SoundIs DEF Plain, Sound
<1>5. ASSUME k < h PROVE FALSE
  <2>1. k = 1 /\ h = 2 /\ Len(Roots) = 2 /\ Forms(u, <<n[1]>>) # {}
    BY <1>2, <1>3, <1>4, <1>5, OneHome
  <2>2. Place(1, n, 1) = <<n[1]>> /\ Place(1, n, 1) = Append(Roots[1], n[1])
    BY <1>3, FirstPlace
  <2>3. PICK p : p = FileAt(u, <<n[1]>>)
    OBVIOUS
  <2>4. p \in Forms(u, <<n[1]>>) /\ p \in DOMAIN u
    BY <2>1, <2>3, FileAtIs
  <2>5. 1 \in 1 .. Len(n)
    BY Whole
  <2>6. PICK m \in at.loaded : m.file = p
    <3>1. Module(u, SubSeq(n, 1, 1), Place(1, n, 1)) \in Passed(u, 1, n, Len(n))
      BY <2>2, <2>4, <2>5, PassedIs
    <3>2. at.loaded = Passed(u, k, n, Len(n))
      BY <1>1 DEF Reached
    <3>3. Module(u, SubSeq(n, 1, 1), Place(1, n, 1)) \in at.loaded
      BY <2>1, <3>1, <3>2
    <3> QED BY <2>2, <2>3, <3>3, ModuleFile
  <2>7. CASE p \in S
    <3>1. p \in Forms(t, Roots[1] \o SubSeq(n, 1, 1))
      BY <1>4, <2>2, <2>4, <2>7 DEF Forms, Place
    <3>2. p \in DOMAIN t
      BY <1>4, <2>7
    <3>3. SubSeq(n, 1, 1) \in Dotted /\ SubSeq(n, 1, 1)[1] = n[1]
      BY <2>5, Part
    <3>4. p \in Under(t, 1, n[1])
      BY <1>3, <1>4, <3>1, <3>2, <3>3, FoundUnder
    <3>5. Home(t, n[1]) <= 1
      BY <1>3, <3>4, HomeIs
    <3> QED BY <2>1, <3>5 DEF AtHome
  <2>8. CASE u[p].state = "outside"
    <3>1. p \in {<<n[1]>>, PackageInit(<<n[1]>>)}
      BY <2>4 DEF Forms
    <3>2. p[1] = n[1]
      <4>1. PICK x : x = <<n[1]>>
        OBVIOUS
      <4>2. x \in Seq(Parts) /\ Len(x) = 1 /\ x[1] = n[1]
        BY <1>3, <4>1, Single
      <4>3. PICK e : e = <<"__init__">>
        OBVIOUS
      <4>4. e \in Seq(Parts) /\ Len(e) = 1
        BY <4>3, Single, ClosureAssumption
      <4>5. (x \o e)[1] = x[1]
        <5>1. 1 \in 1 .. Len(x) + Len(e) /\ 1 <= Len(x)
          BY <4>2, <4>4
        <5> QED BY <4>2, <4>4, <5>1, ConcatProperties
      <4> QED BY <3>1, <4>1, <4>2, <4>3, <4>5 DEF PackageInit
    <3>3. Elsewhere(u, p[1])
      <4>1. PICK f \in DOMAIN u : IsPrefix(Append(Roots[2], n[1]), f)
        BY <2>1 DEF Under
      <4>2. Roots[2] = ScriptDir
        BY <2>1, RootsAre
      <4> QED BY <2>1, <3>2, <4>1, <4>2 DEF Elsewhere
    <3>4. p \in {<<p[1]>>, PackageInit(<<p[1]>>)}
      BY <3>1, <3>2
    <3>5. HidingLink(u)
      BY <2>4, <2>8, <3>3, <3>4 DEF HidingLink
    <3> QED BY <3>5, SoundIs
  <2> QED BY <2>6, <2>7, <2>8 DEF Covered
<1> QED BY <1>1, <1>2, <1>3, <1>5 DEF AtHome

(* Two trees that agree on a closure import a name of it alike.            *)
LEMMA ImportAgrees ==
  ASSUME NEW t, NEW u, NEW S, Sound(t, S), Sound(u, S), NEW n \in Dotted,
         NEW at, at = Import(t, n), at.state # "failed",
         NEW au, au = Import(u, n), au.state # "failed",
         \A m \in au.loaded : Covered(u, S, m),
         NEW m \in at.loaded, m.file \in S
  PROVE  m \in au.loaded
<1>1. PICK h : h = Home(t, n[1])
  OBVIOUS
<1>2. /\ at.state \in {"found", "installed"}
      /\ at.state = "found" => Reached(t, n, Len(n), at)
      /\ at.state = "installed" => at.loaded = {}
  BY ImportFinds, SoundIs
<1>3. Reached(t, n, Len(n), at)
  BY <1>2
<1>4. h \in DOMAIN Roots /\ AtHome(t, h, n) /\ m \in Passed(t, h, n, Len(n))
  BY <1>1, <1>3 DEF Reached, AtHome
<1>5. PICK d \in 1 .. Len(n) : /\ m = Module(t, SubSeq(n, 1, d), Place(h, n, d))
                              /\ Forms(t, Place(h, n, d)) # {}
  BY <1>4 DEF Passed
<1>6. PICK place : place = Place(h, n, d)
  OBVIOUS
<1>7. PICK init : init = PackageInit(place)
  OBVIOUS
<1>8. m.file = FileAt(t, place) /\ m.file \in Forms(t, place)
  BY <1>5, <1>6, FileAtIs, ModuleFile
<1>9. S \subseteq DOMAIN t /\ S \subseteq DOMAIN u /\ DOMAIN u \subseteq Paths
  BY SoundIs DEF Plain, Sound
<1>10. m.file \in Forms(u, place)
  BY <1>8, <1>9 DEF Forms
<1>11. Under(u, h, n[1]) # {}
  <2>1. Forms(u, Place(h, n, d)) # {}
    BY <1>6, <1>10
  <2> QED BY <1>4, <1>9, <2>1, PlaceUnder
<1>12. Reached(u, n, Len(n), au)
  <2>1. /\ au.state \in {"found", "installed"}
        /\ au.state = "found" => Reached(u, n, Len(n), au)
        /\ au.state = "installed" => \A i \in DOMAIN Roots : Under(u, i, n[1]) = {}
    BY ImportFinds, SoundIs
  <2> QED BY <1>4, <1>11, <2>1
<1>13. AtHome(u, h, n)
  BY <1>4, <1>11, <1>12, SameHome
<1>14. PICK c : c = Module(u, SubSeq(n, 1, d), place)
  OBVIOUS
<1>15. c \in au.loaded
  <2>1. au.loaded = Passed(u, h, n, Len(n))
    BY <1>12, <1>13 DEF Reached, AtHome
  <2>2. c \in Passed(u, h, n, Len(n))
    BY <1>6, <1>10, <1>14, PassedIs
  <2> QED BY <2>1, <2>2
<1>16. init \in DOMAIN t <=> init \in DOMAIN u
  <2>1. ASSUME init \in DOMAIN t PROVE init \in DOMAIN u
    <3>1. m.file = init
      BY <1>7, <1>8, <2>1 DEF FileAt
    <3> QED BY <1>9, <3>1
  <2>2. ASSUME init \in DOMAIN u, init \notin DOMAIN t PROVE FALSE
    <3>1. m.file = place
      BY <1>7, <1>8, <2>2 DEF FileAt
    <3>2. c.file = init
      <4>1. c.file = FileAt(u, place)
        BY <1>14, ModuleFile
      <4> QED BY <1>7, <2>2, <4>1 DEF FileAt
    <3>3. u[init].state = "outside"
      BY <1>9, <1>15, <2>2, <3>2 DEF Covered
    <3>4. place \in Seq(Parts)
      BY <1>9, <3>1 DEF Paths
    <3>5. Last(init) = "__init__" /\ Front(init) = place
      <4>1. Front(init) = place
        BY <1>7, <3>4, FrontOfInit
      <4>2. PICK e : e = <<"__init__">>
        OBVIOUS
      <4>3. e \in Seq(Parts) /\ Len(e) = 1 /\ e[1] = "__init__" /\ Len(place) \in Nat
        BY <3>4, <4>2, Single, ClosureAssumption, LenProperties
      <4>4. init = place \o e
        BY <1>7, <4>2 DEF PackageInit
      <4>5. /\ Len(init) = Len(place) + Len(e)
            /\ \A i \in 1 .. Len(place) + Len(e) :
                 init[i] = IF i <= Len(place) THEN place[i] ELSE e[i - Len(place)]
        BY <3>4, <4>3, <4>4, ConcatProperties
      <4>6. init[Len(place) + 1] = e[1] /\ Len(init) = Len(place) + 1
        BY <4>3, <4>5
      <4> QED BY <4>1, <4>3, <4>6 DEF Last
    <3>6. HidingLink(u)
      BY <1>9, <2>2, <3>1, <3>3, <3>5 DEF HidingLink
    <3> QED BY <3>6, SoundIs
  <2> QED BY <2>1, <2>2
<1>17. c = m
  <2>1. FileAt(t, place) = FileAt(u, place)
    BY <1>7, <1>16 DEF FileAt
  <2>2. Module(t, SubSeq(n, 1, d), place) = Module(u, SubSeq(n, 1, d), place)
    BY <1>7, <1>16, <2>1, Zenon DEF Module
  <2> QED BY <1>5, <1>6, <1>14, <2>2
<1> QED BY <1>15, <1>17

(* Two trees that agree on a set of files both account for.                *)
Same(t, u, S) == Sound(t, S) /\ Sound(u, S) /\ \A f \in S : t[f] = u[f]

(* A name whose module has its file in a tree has a home there.            *)
LEMMA LoadedUnder ==
  ASSUME NEW t, NEW u, DOMAIN u \subseteq Paths, NEW n \in Dotted,
         NEW at, Reached(t, n, Len(n), at), NEW m \in at.loaded, m.file \in DOMAIN u
  PROVE  \E i \in DOMAIN Roots : Under(u, i, n[1]) # {}
<1>1. PICK h : h = Home(t, n[1])
  OBVIOUS
<1>2. h \in DOMAIN Roots /\ m \in Passed(t, h, n, Len(n))
  BY <1>1 DEF Reached
<1>3. PICK d \in 1 .. Len(n) : /\ m = Module(t, SubSeq(n, 1, d), Place(h, n, d))
                              /\ Forms(t, Place(h, n, d)) # {}
  BY <1>2 DEF Passed
<1>4. m.file \in Forms(t, Place(h, n, d))
  BY <1>3, FileAtIs, ModuleFile
<1>5. Forms(u, Place(h, n, d)) # {}
  BY <1>4 DEF Forms
<1> QED BY <1>2, <1>5, PlaceUnder

(* What the body of a module defines and exports is the same in both.      *)
LEMMA BodyAgrees ==
  ASSUME NEW t, NEW u, NEW S, Same(t, u, S), NEW n \in Dotted,
         Import(t, n).state # "failed", Import(u, n).state # "failed",
         \A m \in Import(t, n).loaded : Covered(t, S, m),
         \A m \in Import(u, n).loaded : Covered(u, S, m),
         NEW m \in Import(t, n).loaded, m.name = n,
         t[m.file].attrs # {} \/ t[m.file].all # {}
  PROVE  m \in Import(u, n).loaded /\ u[m.file] = t[m.file]
<1>1. Sound(t, S) /\ Sound(u, S)
  BY DEF Same
<1>2. WellPlaced(t, m)
  BY <1>1, ImportFinds, SoundIs
<1>3. m.file \in DOMAIN t
  BY <1>1, <1>2, PlacedFiles, SoundIs
<1>4. m.file \in S
  BY <1>1, <1>3, TreeIs DEF Covered, Sound
<1> QED BY <1>1, <1>4, ImportAgrees DEF Same

(* Two such trees leave the same names of a from-import to submodules.     *)
LEMMA SubmodulesAgree ==
  ASSUME NEW t, NEW u, NEW S, Same(t, u, S), NEW n \in Dotted, NEW names,
         Import(t, n).state # "failed", Import(u, n).state # "failed",
         \A m \in Import(t, n).loaded : Covered(t, S, m),
         \A m \in Import(u, n).loaded : Covered(u, S, m)
  PROVE  Submodules(t, n, names) = Submodules(u, n, names)
<1> DEFINE bodies(v) == {v[m.file] : m \in {m \in Import(v, n).loaded : m.name = n}}
           exports(v) == UNION {b.all : b \in bodies(v)}
           defines(v) == UNION {b.attrs : b \in bodies(v)}
<1>1. Same(u, t, S)
  BY DEF Same
<1>2. ASSUME NEW v, NEW w, Same(v, w, S),
             Import(v, n).state # "failed", Import(w, n).state # "failed",
             \A m \in Import(v, n).loaded : Covered(v, S, m),
             \A m \in Import(w, n).loaded : Covered(w, S, m)
      PROVE  exports(v) \subseteq exports(w) /\ defines(v) \subseteq defines(w)
  <2>1. \A m \in Import(v, n).loaded :
          m.name = n /\ (v[m.file].attrs # {} \/ v[m.file].all # {}) =>
            m \in Import(w, n).loaded /\ w[m.file] = v[m.file]
    BY <1>2, BodyAgrees
  <2>2. ASSUME NEW x \in exports(v) PROVE x \in exports(w)
    <3>1. PICK m \in Import(v, n).loaded : m.name = n /\ x \in v[m.file].all
      BY <2>2
    <3>2. m \in Import(w, n).loaded /\ w[m.file] = v[m.file]
      BY <2>1, <3>1
    <3>3. w[m.file] \in bodies(w) /\ x \in w[m.file].all
      BY <3>1, <3>2
    <3> QED BY <3>3
  <2>3. ASSUME NEW x \in defines(v) PROVE x \in defines(w)
    <3>1. PICK m \in Import(v, n).loaded : m.name = n /\ x \in v[m.file].attrs
      BY <2>3
    <3>2. m \in Import(w, n).loaded /\ w[m.file] = v[m.file]
      BY <2>1, <3>1
    <3>3. w[m.file] \in bodies(w) /\ x \in w[m.file].attrs
      BY <3>1, <3>2
    <3> QED BY <3>3
  <2> QED BY <2>2, <2>3
<1>3. exports(t) = exports(u) /\ defines(t) = defines(u)
  <2>1. exports(t) \subseteq exports(u) /\ defines(t) \subseteq defines(u)
    BY <1>2
  <2>2. exports(u) \subseteq exports(t) /\ defines(u) \subseteq defines(t)
    BY <1>1, <1>2
  <2> QED BY <2>1, <2>2
<1>4. \A v : Submodules(v, n, names) =
        {Append(n, x) : x \in (IF names = {"*"} THEN exports(v) ELSE names) \ defines(v)}
  BY Zenon DEF Submodules
<1> HIDE DEF exports, defines
<1> QED BY <1>3, <1>4

(* Two such trees load the same for a statement, inside the closure.       *)
LEMMA StatementAgrees ==
  ASSUME NEW t, NEW u, NEW S, Same(t, u, S), NEW m, WellPlaced(t, m), WellPlaced(u, m),
         m.file \in S, NEW s \in t[m.file].imports,
         RunImport(t, s, m).state # "failed", RunImport(u, s, m).state # "failed",
         NEW m2 \in RunImport(t, s, m).loaded, m2.file \in S
  PROVE  m2 \in RunImport(u, s, m).loaded
<1>1. /\ Sound(t, S) /\ Sound(u, S) /\ Script \in DOMAIN t /\ Plain(t) /\ Plain(u)
      /\ S \subseteq DOMAIN u /\ DOMAIN u \subseteq Paths /\ ~StarExport(t) /\ m.file \in DOMAIN t
      /\ s \in u[m.file].imports /\ Covered(t, S, m) /\ Covered(u, S, m)
  BY SoundIs DEF Same, Sound, Plain, Covered
<1>2. /\ s \in Statement /\ Len(m.package) \in Nat /\ m.package \in Seq(Parts)
      /\ \A k \in RunImport(t, s, m).loaded : Covered(t, S, k)
      /\ \A k \in RunImport(u, s, m).loaded : Covered(u, S, k)
  BY <1>1, StatementCovered, PlacedFiles
<1>3. PICK rt : rt = RunImport(t, s, m)
  OBVIOUS
<1>4. PICK ru : ru = RunImport(u, s, m)
  OBVIOUS
<1>5. PICK n : n = Target(s, m)
  OBVIOUS
<1>6. PICK at : at = Import(t, n)
  OBVIOUS
<1>7. PICK au : au = Import(u, n)
  OBVIOUS
<1>8. /\ Runs(s, m) /\ (~s.from => rt = at)
      /\ s.from /\ at.state # "found" => rt.state = at.state /\ rt.loaded = at.loaded
      /\ s.from /\ at.state = "found" =>
           /\ \A q \in Submodules(t, n, s.names) : Import(t, q).state # "failed"
           /\ rt.loaded = at.loaded
                \cup UNION {Import(t, q).loaded : q \in Submodules(t, n, s.names)}
  BY <1>2, <1>3, <1>5, <1>6, RunImportIs
<1>9. /\ ~s.from => ru = au
      /\ s.from /\ au.state # "found" => ru.state = au.state /\ ru.loaded = au.loaded
      /\ s.from /\ au.state = "found" =>
           /\ \A q \in Submodules(u, n, s.names) : Import(u, q).state # "failed"
           /\ ru.loaded = au.loaded
                \cup UNION {Import(u, q).loaded : q \in Submodules(u, n, s.names)}
  BY <1>2, <1>4, <1>5, <1>7, RunImportIs
<1>10. /\ n \in Dotted /\ s.from \in BOOLEAN /\ s.names \subseteq Parts
       /\ at.state # "failed" /\ au.state # "failed"
       /\ at.loaded \subseteq rt.loaded /\ au.loaded \subseteq ru.loaded
  <2>1. n \in Dotted /\ s.from \in BOOLEAN /\ s.names \subseteq Parts
    BY <1>2, <1>5, <1>8, TargetDotted, StatementIs
  <2>2. at.state # "failed" /\ at.loaded \subseteq rt.loaded
    BY <1>3, <1>8, <2>1
  <2>3. au.state # "failed" /\ au.loaded \subseteq ru.loaded
    BY <1>4, <1>9, <2>1
  <2> QED BY <2>1, <2>2, <2>3
<1>11. (\A k \in at.loaded : Covered(t, S, k)) /\ (\A k \in au.loaded : Covered(u, S, k))
  BY <1>2, <1>3, <1>4, <1>10
<1>12. CASE m2 \in at.loaded
  <2>1. m2 \in au.loaded
    BY <1>1, <1>6, <1>7, <1>10, <1>11, <1>12, ImportAgrees
  <2> QED BY <1>4, <1>10, <2>1
<1>13. CASE m2 \notin at.loaded
  <2>1. s.from /\ at.state = "found"
    BY <1>3, <1>8, <1>10, <1>13
  <2>2. PICK q \in Submodules(t, n, s.names) : m2 \in Import(t, q).loaded
    BY <1>3, <1>8, <1>13, <2>1
  <2>3. PICK x \in s.names : q = Append(n, x)
    BY <1>1, <1>6, <1>10, <2>1, <2>2, SubmoduleIs
  <2>4. q \in Dotted /\ q[1] = n[1]
    <3>1. <<>> \in Seq(Parts)
      BY EmptySeq
    <3> QED BY <1>10, <2>3, <3>1, OneMore
  <2>5. PICK sub : sub = Import(t, q)
    OBVIOUS
  <2>6. sub.state # "failed" /\ sub.loaded \subseteq rt.loaded
    BY <1>8, <2>1, <2>2, <2>5
  <2>7. Reached(t, q, Len(q), sub)
    BY <1>1, <2>2, <2>4, <2>5, <2>6, ImportFinds
  <2>8. au.state = "found"
    <3>1. \E i \in DOMAIN Roots : Under(u, i, n[1]) # {}
      BY <1>1, <2>2, <2>4, <2>5, <2>7, LoadedUnder
    <3> QED BY <1>1, <1>7, <1>10, <3>1, ImportFinds
  <2>9. q \in Submodules(u, n, s.names)
    BY <1>6, <1>7, <1>10, <1>11, <2>2, SubmodulesAgree
  <2>10. PICK sup : sup = Import(u, q)
    OBVIOUS
  <2>11. sup.state # "failed" /\ sup.loaded \subseteq ru.loaded
    BY <1>9, <2>1, <2>8, <2>9, <2>10
  <2>12. \A k \in sup.loaded : Covered(u, S, k)
    BY <1>2, <1>4, <2>11
  <2>13. m2 \in sup.loaded
    BY <1>1, <2>2, <2>4, <2>5, <2>6, <2>10, <2>11, <2>12, ImportAgrees
  <2> QED BY <1>4, <2>11, <2>13
<1> QED BY <1>12, <1>13

-----------------------------------------------------------------------------
(* A run follows imports from imports.                                     *)

(* The recursive function of Loaded exists.                                *)
LEMMA LoadedTurns ==
  ASSUME NEW t
  PROVE  \E after : /\ after[0] = {Main} /\ Loaded(t) = after[MaxChain]
                    /\ \A n \in 1 .. MaxChain : after[n] = Grow(t, after[n - 1])
<1>0. PICK first : first = {Main}
  OBVIOUS
<1> DEFINE Turn(q, n) == IF n = 0 THEN first ELSE Grow(t, q[n - 1])
           Run(k) == \E q : q = [n \in 0 .. k |-> Turn(q, n)]
<1>1. Run(0)
  <2>1. \A q : [n \in 0 .. 0 |-> Turn(q, n)] = [n \in 0 .. 0 |-> first]
    OBVIOUS
  <2> QED BY <2>1
<1>2. ASSUME NEW k \in Nat, Run(k) PROVE Run(k + 1)
  <2>1. PICK q : q = [n \in 0 .. k |-> Turn(q, n)]
    BY <1>2
  <2> DEFINE r == [n \in 0 .. k + 1 |-> IF n <= k THEN q[n] ELSE Turn(q, n)]
  <2>2. \A n \in 0 .. k + 1 : Turn(r, n) = Turn(q, n)
    <3>1. \A n \in 0 .. k + 1 : n # 0 => r[n - 1] = q[n - 1]
      OBVIOUS
    <3> QED BY <3>1
  <2>3. \A n \in 0 .. k + 1 : r[n] = Turn(q, n)
    BY <2>1
  <2> HIDE DEF Turn
  <2>4. r = [n \in 0 .. k + 1 |-> Turn(r, n)]
    BY <2>2, <2>3
  <2> QED BY <2>4
<1> DEFINE S == {k \in Nat : Run(k)}
<1> HIDE DEF Run
<1>3. 0 \in S /\ \A k \in Nat : k \in S => k + 1 \in S
  BY <1>1, <1>2
<1> HIDE DEF S
<1>4. MaxChain \in S
  BY <1>3, Induction, ClosureAssumption
<1>5. Run(MaxChain)
  BY <1>4 DEF S
<1>6. PICK after : after = CHOOSE q : q = [n \in 0 .. MaxChain |-> Turn(q, n)]
  OBVIOUS
<1>7. after = [n \in 0 .. MaxChain |-> Turn(after, n)]
  BY <1>5, <1>6 DEF Run
<1>8. Loaded(t) = after[MaxChain]
  BY <1>0, <1>6 DEF Loaded
<1>9. after[0] = first /\ \A n \in 1 .. MaxChain : after[n] = Grow(t, after[n - 1])
  <2>1. MaxChain \in Nat
    BY ClosureAssumption
  <2> QED BY <1>7, <2>1
<1> QED BY <1>0, <1>8, <1>9

(* What is loaded stays loaded.                                            *)
LEMMA LoadedKept ==
  ASSUME NEW t, NEW after, \A n \in 1 .. MaxChain : after[n] = Grow(t, after[n - 1]),
         NEW k \in 0 .. MaxChain
  PROVE  after[k] \subseteq after[MaxChain]
<1> DEFINE S == {j \in Nat : k + j \in 0 .. MaxChain => after[k] \subseteq after[k + j]}
<1>0. MaxChain \in Nat /\ k \in Nat
  BY ClosureAssumption
<1>1. 0 \in S
  BY <1>0
<1>2. ASSUME NEW j \in Nat, j \in S PROVE j + 1 \in S
  <2> SUFFICES ASSUME k + (j + 1) \in 0 .. MaxChain
               PROVE  after[k] \subseteq after[k + (j + 1)]
    OBVIOUS
  <2>1. k + j \in 0 .. MaxChain /\ k + (j + 1) \in 1 .. MaxChain /\ (k + (j + 1)) - 1 = k + j
    BY <1>0, <1>2
  <2>2. after[k] \subseteq after[k + j]
    BY <1>2, <2>1
  <2>3. after[k + (j + 1)] = Grow(t, after[k + j])
    BY <2>1
  <2>4. after[k + j] \subseteq Grow(t, after[k + j])
    BY DEF Grow
  <2> QED BY <2>2, <2>3, <2>4
<1>3. Nat \subseteq S
  <2> HIDE DEF S
  <2> QED BY <1>1, <1>2, Induction
<1>4. PICK j \in Nat : k + j = MaxChain
  <2>1. MaxChain - k \in Nat /\ k + (MaxChain - k) = MaxChain
    BY <1>0
  <2> QED BY <2>1
<1>5. j \in S /\ MaxChain \in 0 .. MaxChain
  BY <1>0, <1>3
<1> QED BY <1>4, <1>5

(* A run loads the script and what the walk accounts for, ...              *)
LEMMA LoadedCovered ==
  ASSUME NEW t, NEW S, Sound(t, S), ~ImportFails(t),
         NEW after, after[0] = {Main}, Loaded(t) = after[MaxChain],
         \A n \in 1 .. MaxChain : after[n] = Grow(t, after[n - 1]),
         NEW k \in 0 .. MaxChain, NEW m \in after[k]
  PROVE  WellPlaced(t, m) /\ Covered(t, S, m)
<1> DEFINE Good(q) == WellPlaced(t, q) /\ Covered(t, S, q)
           N == {n \in Nat : n \in 0 .. MaxChain => \A q \in after[n] : Good(q)}
<1>0. MaxChain \in Nat
  BY ClosureAssumption
<1>1. 0 \in N
  <2>1. Good(Main)
    BY DEF Main, WellPlaced, Covered, Sound
  <2> QED BY <2>1
<1>2. ASSUME NEW n \in Nat, n \in N PROVE n + 1 \in N
  <2> SUFFICES ASSUME n + 1 \in 0 .. MaxChain, NEW q \in after[n + 1] PROVE Good(q)
    OBVIOUS
  <2>1. n \in 0 .. MaxChain /\ n + 1 \in 1 .. MaxChain /\ (n + 1) - 1 = n
    BY <1>0
  <2>2. \A p \in after[n] : Good(p)
    BY <1>2, <2>1
  <2>3. after[n + 1] = Grow(t, after[n])
    BY <2>1
  <2>4. after[n] \subseteq Loaded(t)
    BY <2>1, LoadedKept
  <2>5. CASE q \in after[n]
    BY <2>2, <2>5
  <2>6. CASE q \notin after[n]
    <3>1. PICK p \in after[n] : \E s \in t[p.file].imports : q \in RunImport(t, s, p).loaded
      BY <2>3, <2>6 DEF Grow
    <3>2. PICK s \in t[p.file].imports : q \in RunImport(t, s, p).loaded
      BY <3>1
    <3>3. RunImport(t, s, p).state # "failed"
      BY <2>4 DEF ImportFails
    <3>4. WellPlaced(t, p) /\ Covered(t, S, p)
      BY <2>2
    <3>5. WellPlaced(t, q) /\ Covered(t, S, q)
      BY <3>2, <3>3, <3>4, StatementCovered
    <3> QED BY <3>5
  <2> QED BY <2>5, <2>6
<1>3. Nat \subseteq N
  <2> HIDE DEF N
  <2> QED BY <1>1, <1>2, Induction
<1>4. k \in N
  BY <1>0, <1>3
<1> QED BY <1>4

(* ... and the same in two trees that agree on it.                         *)
LEMMA LoadedAgrees ==
  ASSUME NEW t, NEW u, NEW S, Same(t, u, S), ~ImportFails(t), ~ImportFails(u),
         NEW m \in Loaded(t), m.file \in S
  PROVE  m \in Loaded(u)
<1>0. MaxChain \in Nat /\ Sound(t, S) /\ Sound(u, S)
  BY ClosureAssumption DEF Same
<1>1. PICK a : /\ a[0] = {Main} /\ Loaded(t) = a[MaxChain]
               /\ \A n \in 1 .. MaxChain : a[n] = Grow(t, a[n - 1])
  BY LoadedTurns
<1>2. PICK b : /\ b[0] = {Main} /\ Loaded(u) = b[MaxChain]
               /\ \A n \in 1 .. MaxChain : b[n] = Grow(u, b[n - 1])
  BY LoadedTurns
<1> DEFINE N == {n \in Nat : n \in 0 .. MaxChain => \A q \in a[n] : q.file \in S => q \in b[n]}
<1>3. 0 \in N
  BY <1>1, <1>2
<1>4. ASSUME NEW n \in Nat, n \in N PROVE n + 1 \in N
  <2> SUFFICES ASSUME n + 1 \in 0 .. MaxChain, NEW q \in a[n + 1], q.file \in S
               PROVE  q \in b[n + 1]
    OBVIOUS
  <2>1. n \in 0 .. MaxChain /\ n + 1 \in 1 .. MaxChain /\ (n + 1) - 1 = n
    BY <1>0
  <2>2. \A p \in a[n] : p.file \in S => p \in b[n]
    BY <1>4, <2>1
  <2>3. a[n + 1] = Grow(t, a[n]) /\ b[n + 1] = Grow(u, b[n])
    BY <1>1, <1>2, <2>1
  <2>4. a[n] \subseteq Loaded(t) /\ b[n] \subseteq Loaded(u)
    <3>1. a[n] \subseteq a[MaxChain]
      BY <1>1, <2>1, LoadedKept
    <3>2. b[n] \subseteq b[MaxChain]
      BY <1>2, <2>1, LoadedKept
    <3> QED BY <1>1, <1>2, <3>1, <3>2
  <2>5. CASE q \in a[n]
    BY <2>2, <2>3, <2>5 DEF Grow
  <2>6. CASE q \notin a[n]
    <3>1. PICK p \in a[n] : \E s \in t[p.file].imports : q \in RunImport(t, s, p).loaded
      BY <2>3, <2>6 DEF Grow
    <3>2. PICK s \in t[p.file].imports : q \in RunImport(t, s, p).loaded
      BY <3>1
    <3>3. WellPlaced(t, p) /\ Covered(t, S, p)
      BY <1>0, <1>1, <2>1, LoadedCovered
    <3>4. RunImport(t, s, p).state # "failed"
      BY <2>4 DEF ImportFails
    <3>5. p.file \in S
      BY <1>0, <3>2, <3>3, <3>4, StatementCovered
    <3>6. p \in b[n] /\ t[p.file] = u[p.file]
      BY <2>2, <3>5 DEF Same
    <3>7. WellPlaced(u, p)
      BY <1>0, <1>2, <2>1, <3>6, LoadedCovered
    <3>8. s \in u[p.file].imports /\ RunImport(u, s, p).state # "failed"
      BY <2>4, <3>6 DEF ImportFails
    <3>9. q \in RunImport(u, s, p).loaded
      BY <3>2, <3>3, <3>4, <3>5, <3>7, <3>8, StatementAgrees
    <3> QED BY <2>3, <3>6, <3>8, <3>9 DEF Grow
  <2> QED BY <2>5, <2>6
<1>5. Nat \subseteq N
  <2> HIDE DEF N
  <2> QED BY <1>3, <1>4, Induction
<1>6. MaxChain \in N /\ MaxChain \in 0 .. MaxChain
  BY <1>0, <1>5
<1> QED BY <1>1, <1>2, <1>6

(* What one of two such trees executes of the repository, the other does   *)
(* too, and all of it is in the closure.                                   *)
LEMMA ExecutedAgrees ==
  ASSUME NEW t, NEW u, NEW S, Same(t, u, S), ~ImportFails(t), ~ImportFails(u)
  PROVE  Executed(t) \subseteq Executed(u) /\ Executed(t) \subseteq S
<1> SUFFICES ASSUME NEW f \in Executed(t) PROVE f \in Executed(u) /\ f \in S
  OBVIOUS
<1>1. PICK m \in Loaded(t) : m.file = f
  BY DEF Executed
<1>2. f # Script /\ t[f].state # "outside"
  BY DEF Executed
<1>3. PICK a : /\ a[0] = {Main} /\ Loaded(t) = a[MaxChain]
               /\ \A n \in 1 .. MaxChain : a[n] = Grow(t, a[n - 1])
  BY LoadedTurns
<1>4. Covered(t, S, m)
  <2>1. MaxChain \in 0 .. MaxChain
    BY ClosureAssumption
  <2> QED BY <1>1, <1>3, <2>1, LoadedCovered DEF Same
<1>5. f \in S
  BY <1>1, <1>2, <1>4 DEF Covered
<1>6. m \in Loaded(u)
  BY <1>1, <1>5, LoadedAgrees
<1>7. u[f].state # "outside"
  BY <1>2, <1>5 DEF Same
<1>8. f \in {k.file : k \in Loaded(u)}
  BY <1>1, <1>6
<1> QED BY <1>2, <1>5, <1>7, <1>8 DEF Executed

(* Two trees that agree on the files a run is accounted for by run alike.  *)
LEMMA ExecutionAgrees ==
  ASSUME NEW t, NEW u, NEW S, Same(t, u, S), ~ImportFails(t), ~ImportFails(u), NEW e
  PROVE  Execution(t, e) = Execution(u, e)
<1>1. Same(u, t, S)
  BY DEF Same
<1>2. Executed(t) = Executed(u) /\ Executed(t) \subseteq S
  BY <1>1, ExecutedAgrees
<1>3. t[Script] = u[Script] /\ \A f \in Executed(t) : t[f] = u[f]
  BY <1>2 DEF Same, Sound
<1>4. \A b : {f \in Executed(t) : t[f] = b} = {f \in Executed(t) : u[f] = b}
  BY <1>3
<1>5. {t[f] : f \in Executed(t)} = {u[f] : f \in Executed(t)}
  BY <1>3
<1>6. Digests(t, Executed(t)) = Digests(u, Executed(t))
  BY <1>4, <1>5 DEF Digests
<1> QED BY <1>2, <1>3, <1>6, Zenon DEF Execution

-----------------------------------------------------------------------------
(* The merge: what its walk has found, in this release and the one before. *)

(* What the walk has found: files of the tree, in no set closed under the  *)
(* imports of its members left out.                                        *)
Closed(t, e, S) ==
  /\ MergeStart(e) \subseteq S /\ S \subseteq DOMAIN t
  /\ \A f \in S : Candidates(t, f) \subseteq S

(* ... and leaving out nothing: no smaller set is closed.                  *)
Least(t, e, s) == \A S \in SUBSET DOMAIN t : Closed(t, e, S) => s \subseteq S

(* The repository, the entry and the phase of the merge.                   *)
MergeTypes ==
  /\ IsTree(tree) /\ entry \in Entries
  /\ merge \in {"walk", "refused", "released"}

(* What is between the files found and those still to be read.             *)
WalkInv ==
  /\ MergeStart(entry) \subseteq seen /\ seen \subseteq DOMAIN tree /\ pending \subseteq seen
  /\ \A f \in seen \ pending : Candidates(tree, f) \subseteq seen
  /\ Least(tree, entry, seen)
  /\ merge = "released" => pending = {}

(* The release before, and the edit since.                                 *)
PriorInv ==
  prior # NoRelease =>
    /\ IsTree(prior.tree) /\ prior.entry \in Entries
    /\ Closed(prior.tree, prior.entry, prior.seen)
    /\ Least(prior.tree, prior.entry, prior.seen)
    /\ \/ tree = prior.tree
       \/ tree \in EditedTree(prior.tree) /\ entry = prior.entry

MergeInv == MergeTypes /\ WalkInv /\ PriorInv

(* A contract entry is of one of the two kinds.                            *)
LEMMA EntryIs ==
  ASSUME NEW e \in Entries
  PROVE  e \in Entry /\ e.kind \in {"script", "csv"}
BY ClosureAssumption DEF Entry

(* The walk stays among the files of the repository.                       *)
LEMMA CandidatesIn ==
  ASSUME NEW t, NEW file
  PROVE  Candidates(t, file) \subseteq DOMAIN t
<1>1. ASSUME NEW n, NEW f \in Resolve(t, n) PROVE f \in DOMAIN t
  <2>1. PICK found : found = {i \in DOMAIN Roots : Forms(t, Roots[i] \o n) # {}}
    OBVIOUS
  <2>2. found # {}
    BY <1>1, <2>1 DEF Resolve
  <2>3. PICK root : root = Roots[Min(found)]
    OBVIOUS
  <2>4. f \in {FileAt(t, root \o n)} \cup OnTheWay(t, root, n)
    BY <1>1, <2>1, <2>2, <2>3, Zenon DEF Resolve
  <2>5. Forms(t, root \o n) # {}
    <3>1. found \subseteq Nat
      BY <2>1, RootsAre
    <3>2. Min(found) \in found
      BY <2>2, <3>1, LeastIs
    <3> QED BY <2>1, <2>3, <3>2
  <2>6. FileAt(t, root \o n) \in DOMAIN t
    BY <2>5, FileAtIs
  <2> QED BY <2>4, <2>6 DEF OnTheWay
<1> QED BY <1>1 DEF Candidates

(* An edit of one file keeps a repository a repository.                    *)
LEMMA EditedIsTree ==
  ASSUME NEW t, IsTree(t), NEW u \in EditedTree(t)
  PROVE  IsTree(u)
<1>1. /\ IsFiniteSet(DOMAIN t) /\ DOMAIN t \subseteq Paths /\ Script \in DOMAIN t
      /\ \A p \in DOMAIN t : IsBody(t[p])
  BY DEF IsTree
<1>2. /\ Script \in Paths /\ Files \subseteq Paths \ {Script}
      /\ \A b \in Bodies \cup ScriptBodies : IsBody(b)
  BY ClosureAssumption
<1> HIDE DEF IsBody, Paths
<1>3. CASE \E b \in ScriptBodies : u = [t EXCEPT ![Script] = b]
  <2>1. PICK b \in ScriptBodies : u = [t EXCEPT ![Script] = b]
    BY <1>3
  <2>2. DOMAIN u = DOMAIN t /\ \A p \in DOMAIN t : u[p] = b \/ u[p] = t[p]
    BY <2>1
  <2>3. \A p \in DOMAIN u : IsBody(u[p])
    BY <1>1, <1>2, <2>2
  <2> QED BY <1>1, <2>2, <2>3 DEF IsTree
<1>4. CASE u \in Written(t)
  <2>1. PICK f \in Files, b \in Bodies :
          u = [p \in DOMAIN t \cup {f} |-> IF p = f THEN b ELSE t[p]]
    BY <1>4 DEF Written
  <2>2. DOMAIN u = DOMAIN t \cup {f} /\ \A p \in DOMAIN u : u[p] = IF p = f THEN b ELSE t[p]
    BY <2>1
  <2>3. IsFiniteSet(DOMAIN u)
    BY <1>1, <2>2, FS_AddElement
  <2>4. \A p \in DOMAIN u : IsBody(u[p])
    BY <1>1, <1>2, <2>2
  <2> QED BY <1>1, <1>2, <2>2, <2>3, <2>4 DEF IsTree
<1>5. CASE u \in Removed(t)
  <2>1. PICK f \in DOMAIN t \ {Script} : u = [p \in DOMAIN t \ {f} |-> t[p]]
    BY <1>5 DEF Removed
  <2>2. DOMAIN u = DOMAIN t \ {f} /\ \A p \in DOMAIN u : u[p] = t[p]
    BY <2>1
  <2>3. IsFiniteSet(DOMAIN u)
    BY <1>1, <2>2, FS_Subset
  <2>4. \A p \in DOMAIN u : IsBody(u[p])
    BY <1>1, <2>2
  <2> QED BY <1>1, <2>1, <2>2, <2>3, <2>4 DEF IsTree
<1>6. CASE u \in Renamed(t)
  <2>1. PICK f \in DOMAIN t \ {Script}, g \in Files \ DOMAIN t :
          u = [p \in (DOMAIN t \ {f}) \cup {g} |-> IF p = g THEN t[f] ELSE t[p]]
    BY <1>6 DEF Renamed
  <2>2. /\ DOMAIN u = (DOMAIN t \ {f}) \cup {g}
        /\ \A p \in DOMAIN u : u[p] = IF p = g THEN t[f] ELSE t[p]
    BY <2>1
  <2>3. IsFiniteSet(DOMAIN u)
    <3>1. IsFiniteSet(DOMAIN t \ {f})
      BY <1>1, FS_Subset
    <3> QED BY <2>2, <3>1, FS_AddElement
  <2>4. \A p \in DOMAIN u : IsBody(u[p])
    BY <1>1, <2>1, <2>2
  <2> QED BY <1>1, <1>2, <2>1, <2>2, <2>3, <2>4 DEF IsTree
<1> QED BY <1>3, <1>4, <1>5, <1>6 DEF EditedTree

(* Digests that keep their counts tell a file that changes.                *)
LEMMA DigestsTell ==
  ASSUME NEW t, NEW u, NEW S, IsFiniteSet(S), NEW f \in S, \A p \in S \ {f} : t[p] = u[p],
         Digests(t, S) = Digests(u, S)
  PROVE  t[f] = u[f]
<1> SUFFICES ASSUME t[f] # u[f] PROVE FALSE
  OBVIOUS
<1>1. PICK b : b = t[f]
  OBVIOUS
<1> DEFINE now == {p \in S : t[p] = b}
           then == {p \in S : u[p] = b}
<1>2. now = then \cup {f} /\ f \notin then
  BY <1>1
<1>3. IsFiniteSet(then)
  BY FS_Subset
<1>4. Cardinality(now) = Cardinality(then) + 1 /\ Cardinality(then) \in Nat
  BY <1>2, <1>3, FS_AddElement, FS_CardinalityType
<1>5. b \in DOMAIN Digests(t, S) /\ Digests(t, S)[b] = Cardinality(now)
  BY <1>1 DEF Digests
<1>6. b \in DOMAIN Digests(u, S) /\ Digests(u, S)[b] = Cardinality(then)
  <2>1. b \in DOMAIN Digests(u, S)
    BY <1>5
  <2>2. DOMAIN Digests(u, S) = {u[p] : p \in S}
    BY DEF Digests
  <2> QED BY <2>1, <2>2 DEF Digests
<1> QED BY <1>4, <1>5, <1>6

(* A release with the hash of the one before has its files.                *)
LEMMA HashTells ==
  ASSUME NEW t, NEW u, NEW S, IsTree(t), S \subseteq DOMAIN t, S \subseteq DOMAIN u,
         Script \in S, u = t \/ u \in EditedTree(t),
         t[Script] = u[Script], Digests(t, S \ {Script}) = Digests(u, S \ {Script})
  PROVE  \A p \in S : t[p] = u[p]
<1>1. CASE u = t
  BY <1>1
<1>2. CASE \E b \in ScriptBodies : u = [t EXCEPT ![Script] = b]
  BY <1>2
<1>3. CASE u \in Written(t)
  <2>1. PICK f \in Files, b \in Bodies :
          u = [p \in DOMAIN t \cup {f} |-> IF p = f THEN b ELSE t[p]]
    BY <1>3 DEF Written
  <2>2. \A p \in S \ {f} : t[p] = u[p]
    BY <2>1
  <2>3. CASE f \in S
    <3>1. f # Script
      BY ClosureAssumption
    <3>2. IsFiniteSet(S \ {Script})
      BY FS_Subset DEF IsTree
    <3>3. f \in S \ {Script} /\ \A p \in (S \ {Script}) \ {f} : t[p] = u[p]
      BY <2>2, <2>3, <3>1
    <3>4. t[f] = u[f]
      BY <3>2, <3>3, DigestsTell
    <3> QED BY <2>2, <3>4
  <2> QED BY <2>2, <2>3
<1>4. CASE u \in Removed(t)
  <2>1. PICK f \in DOMAIN t \ {Script} : u = [p \in DOMAIN t \ {f} |-> t[p]]
    BY <1>4 DEF Removed
  <2> QED BY <2>1
<1>5. CASE u \in Renamed(t)
  <2>1. PICK f \in DOMAIN t \ {Script}, g \in Files \ DOMAIN t :
          u = [p \in (DOMAIN t \ {f}) \cup {g} |-> IF p = g THEN t[f] ELSE t[p]]
    BY <1>5 DEF Renamed
  <2>2. \A p \in S : p # g /\ p \in DOMAIN u
    BY <2>1
  <2> QED BY <2>1, <2>2
<1> QED BY <1>1, <1>2, <1>3, <1>4, <1>5 DEF EditedTree

(* The walk starts at a file of the repository.                            *)
LEMMA StartIn ==
  ASSUME NEW t, IsTree(t), NEW e
  PROVE  MergeStart(e) \subseteq DOMAIN t
BY DEF IsTree, MergeStart

(* The first release starts in the invariant.                              *)
LEMMA MergeInit_Inv == MergeInit => MergeInv
<1> SUFFICES ASSUME MergeInit PROVE MergeInv
  OBVIOUS
<1>1. IsTree(tree) /\ entry \in Entries /\ merge = "walk"
  BY ClosureAssumption DEF MergeInit
<1>2. /\ seen = MergeStart(entry) /\ pending = MergeStart(entry) /\ prior = NoRelease
  BY DEF MergeInit
<1>3. MergeStart(entry) \subseteq DOMAIN tree
  BY <1>1, StartIn
<1>4. Least(tree, entry, seen)
  BY <1>2 DEF Least, Closed
<1>5. MergeTypes
  BY <1>1 DEF MergeTypes
<1>6. WalkInv
  BY <1>1, <1>2, <1>3, <1>4 DEF WalkInv
<1>7. PriorInv
  BY <1>2 DEF PriorInv
<1> QED BY <1>5, <1>6, <1>7 DEF MergeInv

(* Reading one more file keeps it.                                         *)
LEMMA VisitFile_Inv ==
  ASSUME MergeInv, VisitFile
  PROVE  MergeInv'
<1>1. UNCHANGED <<tree, entry, prior>> /\ merge = "walk"
  BY DEF VisitFile
<1>2. MergeTypes /\ WalkInv /\ PriorInv
  BY DEF MergeInv
<1>3. PriorInv'
  BY <1>1, <1>2 DEF PriorInv
<1>4. PICK file \in pending :
        IF tree[file].state = "syntax" \/ DynamicImport(tree[file])
          THEN merge' = "refused" /\ UNCHANGED <<seen, pending>>
          ELSE LET new == Candidates(tree, file) \ seen IN
               /\ seen' = seen \cup new
               /\ pending' = (pending \ {file}) \cup new
               /\ UNCHANGED merge
  BY DEF VisitFile
<1>5. CASE tree[file].state = "syntax" \/ DynamicImport(tree[file])
  <2>1. merge' = "refused" /\ seen' = seen /\ pending' = pending
    BY <1>4, <1>5
  <2>2. MergeTypes'
    BY <1>1, <1>2, <2>1 DEF MergeTypes
  <2>3. WalkInv'
    BY <1>1, <1>2, <2>1 DEF WalkInv
  <2> QED BY <1>3, <2>2, <2>3 DEF MergeInv
<1>6. CASE ~(tree[file].state = "syntax" \/ DynamicImport(tree[file]))
  <2>1. PICK new : new = Candidates(tree, file) \ seen
    OBVIOUS
  <2>2. /\ seen' = seen \cup new /\ pending' = (pending \ {file}) \cup new
        /\ merge' = merge
    BY <1>4, <1>6, <2>1
  <2>3. Candidates(tree, file) \subseteq DOMAIN tree
    BY CandidatesIn
  <2>4. /\ MergeStart(entry) \subseteq seen /\ seen \subseteq DOMAIN tree /\ pending \subseteq seen
        /\ \A f \in seen \ pending : Candidates(tree, f) \subseteq seen
        /\ Least(tree, entry, seen)
    BY <1>2 DEF WalkInv
  <2>5. /\ MergeStart(entry) \subseteq seen' /\ seen' \subseteq DOMAIN tree
        /\ pending' \subseteq seen'
    BY <2>1, <2>2, <2>3, <2>4
  <2>6. \A f \in seen' \ pending' : Candidates(tree, f) \subseteq seen'
    <3> SUFFICES ASSUME NEW f \in seen' \ pending' PROVE Candidates(tree, f) \subseteq seen'
      OBVIOUS
    <3>1. f \in seen \ pending \/ f = file
      BY <2>2
    <3> QED BY <2>1, <2>2, <2>4, <3>1
  <2>7. Least(tree, entry, seen')
    <3> SUFFICES ASSUME NEW S \in SUBSET DOMAIN tree, Closed(tree, entry, S)
                 PROVE  seen' \subseteq S
      BY DEF Least
    <3>1. seen \subseteq S
      BY <2>4 DEF Least
    <3>2. Candidates(tree, file) \subseteq S
      BY <2>4, <3>1 DEF Closed
    <3> QED BY <2>1, <2>2, <3>1, <3>2
  <2>8. MergeTypes'
    BY <1>1, <1>2, <2>2 DEF MergeTypes
  <2>9. WalkInv'
    <3>1. Least(tree, entry, seen)'
      BY <1>1, <2>7
    <3> QED BY <1>1, <2>2, <2>5, <2>6, <3>1 DEF WalkInv
  <2> QED BY <1>3, <2>8, <2>9 DEF MergeInv
<1> QED BY <1>5, <1>6

(* The lint and the verdict of the merge keep it.                          *)
LEMMA Release_Inv ==
  ASSUME MergeInv, Release
  PROVE  MergeInv'
<1>1. /\ UNCHANGED <<tree, entry, seen, pending, prior>> /\ pending = {}
      /\ merge' = IF LintFails THEN "refused" ELSE "released"
  BY DEF Release
<1>2. MergeTypes /\ WalkInv /\ PriorInv
  BY DEF MergeInv
<1>3. MergeTypes'
  BY <1>1, <1>2 DEF MergeTypes
<1>4. WalkInv'
  BY <1>1, <1>2 DEF WalkInv
<1>5. PriorInv'
  BY <1>1, <1>2 DEF PriorInv
<1> QED BY <1>3, <1>4, <1>5 DEF MergeInv

(* So does the edit before the second release.                             *)
LEMMA NextRelease_Inv ==
  ASSUME MergeInv, NextRelease
  PROVE  MergeInv'
<1>1. /\ merge = "released" /\ merge' = "walk"
      /\ prior' = [tree |-> tree, entry |-> entry, seen |-> seen]
      /\ seen' = MergeStart(entry') /\ pending' = MergeStart(entry')
      /\ \/ tree' \in EditedTree(tree) /\ entry' = entry
         \/ entry' \in Entries /\ tree' = tree
  BY DEF NextRelease
<1>2. MergeTypes /\ WalkInv
  BY DEF MergeInv
<1>3. IsTree(tree) /\ entry \in Entries
  BY <1>2 DEF MergeTypes
<1>4. IsTree(tree') /\ entry' \in Entries
  BY <1>1, <1>3, EditedIsTree
<1>5. MergeTypes'
  BY <1>1, <1>4 DEF MergeTypes
<1>6. MergeStart(entry') \subseteq DOMAIN tree'
  BY <1>4, StartIn
<1>7. Least(tree', entry', seen')
  BY <1>1 DEF Least, Closed
<1>8. WalkInv'
  BY <1>1, <1>6, <1>7 DEF WalkInv
<1>9. Closed(tree, entry, seen) /\ Least(tree, entry, seen)
  BY <1>1, <1>2 DEF WalkInv, Closed
<1>10. /\ prior'.tree = tree /\ prior'.entry = entry /\ prior'.seen = seen
  BY <1>1
<1>11. PriorInv'
  BY <1>1, <1>3, <1>9, <1>10 DEF PriorInv
<1> QED BY <1>5, <1>8, <1>11 DEF MergeInv

(* Every step of the merge and of the author does.                         *)
LEMMA MergeNext_Inv == MergeInv /\ [MergeNext]_closure => MergeInv'
<1> SUFFICES ASSUME MergeInv, [MergeNext]_closure PROVE MergeInv'
  OBVIOUS
<1>1. CASE VisitFile
  BY <1>1, VisitFile_Inv
<1>2. CASE Release
  BY <1>2, Release_Inv
<1>3. CASE NextRelease
  BY <1>3, NextRelease_Inv
<1>4. CASE UNCHANGED closure
  BY <1>4 DEF closure, MergeInv, MergeTypes, WalkInv, PriorInv
<1> QED BY <1>1, <1>2, <1>3, <1>4 DEF MergeNext

(* Whatever the order in which resolve_closure reads the files, what it    *)
(* has found when it ends is the least set of files that is closed under   *)
(* imports, in this release and in the one before.                         *)
THEOREM MergeInvariant == MergeSpec => []MergeInv
BY MergeInit_Inv, MergeNext_Inv, PTL DEF MergeSpec

(* The content hashes of two releases are the same.                        *)
SameHash(t, e, s, u, f, r) == HashParts(t, e, s) = HashParts(u, f, r)

(* The hash tells contract entries apart, but for what is left out of it.  *)
LEMMA HashedEntry ==
  ASSUME NEW t, NEW e, NEW s, NEW u, NEW f, NEW r, SameHash(t, e, s, u, f, r)
  PROVE  /\ e.kind = f.kind /\ e.query = f.query
         /\ e.kind = "csv" => e.text = f.text
<1>1. CanonicalEntry(e) = CanonicalEntry(f)
  BY DEF SameHash, HashParts
<1>2. e.kind = f.kind /\ e.query = f.query
  BY <1>1 DEF CanonicalEntry
<1>3. ASSUME e.kind = "csv"
      PROVE  e.text = f.text
  <2>1. [uri |-> <<e.query, e.text>>] = [uri |-> <<f.query, f.text>>]
    BY <1>2, <1>3 DEF SameHash, HashParts
  <2> QED BY <2>1
<1> QED BY <1>2, <1>3

(* The hash tells scripts apart.                                           *)
LEMMA HashedScript ==
  ASSUME NEW t, NEW e, NEW s, NEW u, NEW f, NEW r, SameHash(t, e, s, u, f, r)
  PROVE  e.kind # "csv" => t[Script] = u[Script]
BY DEF SameHash, HashParts, CanonicalEntry

(* The hash tells how many files of the closure have each body.            *)
LEMMA HashedFiles ==
  ASSUME NEW t, NEW e, NEW s, NEW u, NEW f, NEW r, SameHash(t, e, s, u, f, r)
  PROVE  Digests(t, s \ {Script}) = Digests(u, r \ {Script})
BY DEF SameHash, HashParts

(* ... and its code runs alike.                                            *)
LEMMA SameHashSameRun ==
  ASSUME MergeInv, merge = "released", prior # NoRelease,
         HashParts(tree, entry, seen) = HashParts(prior.tree, prior.entry, prior.seen),
         ~BlindSpot(tree), ~BlindSpot(prior.tree), seen = prior.seen,
         ~ImportFails(tree), ~ImportFails(prior.tree)
  PROVE  Execution(tree, entry) = Execution(prior.tree, prior.entry)
<1>1. PICK t : t = prior.tree
  OBVIOUS
<1>2. /\ entry.kind = prior.entry.kind
      /\ entry.kind # "csv" => tree[Script] = t[Script]
      /\ Digests(tree, seen \ {Script}) = Digests(t, prior.seen \ {Script})
  <2>1. SameHash(tree, entry, seen, t, prior.entry, prior.seen)
    BY <1>1 DEF SameHash
  <2>2. entry.kind = prior.entry.kind
    BY <2>1, HashedEntry
  <2>3. entry.kind # "csv" => tree[Script] = t[Script]
    BY <2>1, HashedScript
  <2>4. Digests(tree, seen \ {Script}) = Digests(t, prior.seen \ {Script})
    BY <2>1, HashedFiles
  <2> QED BY <2>2, <2>3, <2>4
<1>3. CASE entry.kind = "csv"
  BY <1>2, <1>3 DEF Execution
<1>4. CASE entry.kind # "csv"
  <2>1. /\ IsTree(tree) /\ IsTree(t)
        /\ Closed(tree, entry, seen) /\ Closed(t, prior.entry, seen)
        /\ tree = t \/ tree \in EditedTree(t)
    BY <1>1 DEF MergeInv, MergeTypes, WalkInv, PriorInv, Closed
  <2>2. Script \in seen /\ seen \subseteq DOMAIN tree /\ seen \subseteq DOMAIN t
    BY <1>4, <2>1 DEF Closed, MergeStart
  <2>3. \A p \in seen : t[p] = tree[p]
    BY <1>2, <1>4, <2>1, <2>2, HashTells
  <2>4. Same(tree, t, seen)
    BY <1>1, <2>1, <2>2, <2>3 DEF Same, Sound, Closed
  <2>5. Execution(tree, entry) = Execution(t, entry)
    BY <1>1, <2>4, ExecutionAgrees
  <2>6. Execution(t, entry) = Execution(t, prior.entry)
    BY <1>2, Zenon DEF Execution
  <2> QED BY <1>1, <2>5, <2>6
<1> QED BY <1>3, <1>4

(* An edit that touches no more than the layout of a read or the timeout.  *)
LEMMA SameWalkSameHash ==
  ASSUME MergeInv, merge = "released", prior # NoRelease, tree = prior.tree,
         Says(entry) = Says(prior.entry)
  PROVE  HashParts(tree, entry, seen) = HashParts(prior.tree, prior.entry, prior.seen)
<1>1. /\ Closed(tree, entry, seen) /\ Closed(tree, prior.entry, prior.seen)
      /\ Least(tree, entry, seen) /\ Least(tree, prior.entry, prior.seen)
  BY DEF MergeInv, WalkInv, PriorInv, Closed
<1>0. /\ entry.kind = prior.entry.kind /\ entry.query = prior.entry.query
      /\ entry.text = prior.entry.text
  BY DEF Says
<1>2. MergeStart(entry) = MergeStart(prior.entry)
  BY <1>0 DEF MergeStart
<1>3. seen \subseteq prior.seen /\ prior.seen \subseteq seen
  BY <1>1, <1>2 DEF Closed, Least
<1>4. seen = prior.seen
  BY <1>3
<1>5. CanonicalEntry(entry) = CanonicalEntry(prior.entry)
  BY <1>0 DEF CanonicalEntry
<1> QED BY <1>0, <1>4, <1>5, Zenon DEF HashParts

(* A release with the hash of the one before runs the same code under the  *)
(* same contract, for every repository, every statement and every edit of  *)
(* one file, outside the blind spots and but for the whitespace of SQL     *)
(* literals and comments; and a change of the timeout or of the layout of  *)
(* a read alone keeps the hash.                                            *)
THEOREM ChangeIsSeenHolds == MergeSpec => []ChangeIsSeen
<1>1. MergeInv => ChangeIsSeen
  <2> SUFFICES ASSUME MergeInv, merge = "released", prior # NoRelease PROVE ChangeIsSeen
    BY DEF ChangeIsSeen
  <2>1. ASSUME HashParts(tree, entry, seen) = HashParts(prior.tree, prior.entry, prior.seen)
        PROVE  /\ Says(entry) = Says(prior.entry) \/ SpacesInText(entry, prior.entry)
               /\ \/ BlindSpot(tree) \/ BlindSpot(prior.tree) \/ seen # prior.seen
                  \/ ImportFails(tree) \/ ImportFails(prior.tree)
                  \/ Execution(tree, entry) = Execution(prior.tree, prior.entry)
    <3>1. Says(entry) = Says(prior.entry) \/ SpacesInText(entry, prior.entry)
      <4>1. /\ entry.kind = prior.entry.kind /\ entry.query = prior.entry.query
            /\ entry.kind = "csv" => entry.text = prior.entry.text
        <5>1. SameHash(tree, entry, seen, prior.tree, prior.entry, prior.seen)
          BY <2>1 DEF SameHash
        <5> QED BY <5>1, HashedEntry
      <4>2. entry \in Entry
        BY ClosureAssumption DEF MergeInv, MergeTypes
      <4>3. entry.kind \in {"script", "csv"}
        BY <4>2 DEF Entry
      <4> QED BY <4>1, <4>3 DEF Says, SpacesInText
    <3>2. ASSUME ~BlindSpot(tree), ~BlindSpot(prior.tree), seen = prior.seen,
                 ~ImportFails(tree), ~ImportFails(prior.tree)
          PROVE  Execution(tree, entry) = Execution(prior.tree, prior.entry)
      BY <2>1, <3>2, SameHashSameRun
    <3> QED BY <3>1, <3>2
  <2>2. ASSUME tree = prior.tree, Says(entry) = Says(prior.entry)
        PROVE  HashParts(tree, entry, seen) = HashParts(prior.tree, prior.entry, prior.seen)
    BY <2>2, SameWalkSameHash
  <2> QED BY <2>1, <2>2 DEF ChangeIsSeen
<1> QED BY <1>1, MergeInvariant, PTL
================================================================================
