-------------------------- MODULE ReleaseGateProofs --------------------------
(***************************************************************************)
(* The release gate.  First the validation runner over the connecting code *)
(* of every adapter, for any number of addresses, of connection attempts   *)
(* and of declared reads; then the columns of a node from the gate to the  *)
(* write (CsvNode), for any probe and limit, any object, and any contract, *)
(* header, script and live table.                                          *)
(***************************************************************************)
EXTENDS ValidationRunner, CsvNode, FiniteSetTheorems, TLAPS

Trying == {"start", "request", "attach"}

(* What an attempt to connect has left open, and where the passfile is.    *)
OpenInv ==
  /\ at = "start" => open = 0 /\ passfile = "none"
  /\ at = "request" => open = (IF engine = "trino" THEN 1 ELSE 0)
  /\ at = "attach" => open = 1 /\ engine = "ducklake"
  /\ at = "connected" => open = 1
  /\ at = "raised" => open = 0 /\ passfile # "kept"

(* Nothing is tried again after an attempt that waited for nothing.        *)
TimeoutInv == timeouts \in 0 .. 1 /\ (at \in Trying => timeouts = 0)

AttemptInv == attempt \in 1 .. ConnectAttempts /\ passfile \in {"none", "kept", "removed"}

ConnectInv ==
  /\ engine \in {"postgres", "trino", "ducklake"}
  /\ at \in Trying \cup {"connected", "raised"}
  /\ AttemptInv /\ OpenInv /\ TimeoutInv

-----------------------------------------------------------------------------
(* Only an attempt that nobody answered and that did not wait is retried.  *)
LEMMA RetriedAtOnce ==
  ASSUME NEW host, Unreachable(host)
  PROVE  ~Waited(host)
BY DEF Unreachable, Waited

(* A host that lets the client in has answered.                            *)
LEMMA LetInAnswers ==
  ASSUME NEW host, LetIn(host)
  PROVE  Answered(host)
BY DEF LetIn, Answered, Tried

(* What becomes of a failed attempt.                                       *)
LEMMA RetryStep ==
  ASSUME NEW retryable, AttemptInv, RetryOrGiveUp(retryable)
  PROVE  /\ AttemptInv'
         /\ at' = "request" \/ (at' = "raised" /\ passfile' # "kept")
         /\ at' = "request" => retryable
  BY ConnectAssumption DEF RetryOrGiveUp, GiveUp, AttemptInv

(* Every attempt of every adapter keeps what is known of the connection.   *)
LEMMA ConnectStepKeeps == ConnectInv /\ ConnectStep => ConnectInv'
<1> SUFFICES ASSUME ConnectInv, ConnectStep PROVE ConnectInv'
  OBVIOUS
<1> USE RetriedAtOnce, LetInAnswers, RetryStep
    DEF ConnectInv, AttemptInv, OpenInv, TimeoutInv, Trying, Remember
<1>1. CASE ConnectPostgres
  BY <1>1 DEF ConnectPostgres
<1>2. CASE UnconnectedTrino
  BY <1>2 DEF UnconnectedTrino
<1>3. CASE ConnectTrino
  <2>1. open = 1 /\ timeouts = 0 /\ engine' = engine /\ engine = "trino"
    BY <1>3 DEF ConnectTrino
  <2>2. PICK host \in Host :
          /\ Remember(host)
          /\ IF LetIn(host)
               THEN at' = "connected" /\ UNCHANGED <<attempt, passfile, open>>
               ELSE /\ RetryOrGiveUp(Unreachable(host))
                    /\ open' = IF at' = "raised" THEN open - 1 ELSE open
    BY <1>3 DEF ConnectTrino
  <2>3. CASE LetIn(host)
    BY <2>1, <2>2, <2>3
  <2>4. CASE ~LetIn(host)
    <3>1. /\ AttemptInv'
          /\ at' = "request" \/ (at' = "raised" /\ passfile' # "kept")
          /\ at' = "request" => ~Waited(host)
      BY <2>2, <2>4
    <3>2. open' = IF at' = "raised" THEN 0 ELSE 1
      BY <2>1, <2>2, <2>4
    <3> QED BY <2>1, <2>2, <3>1, <3>2
  <2> QED BY <2>3, <2>4
<1>4. CASE OpenPassfile
  BY <1>4 DEF OpenPassfile
<1>5. CASE OpenDuckLake
  <2>1. open = 0 /\ open' = open + 1 /\ engine' = "ducklake" /\ at' = "attach"
    BY <1>5 DEF OpenDuckLake
  <2> QED BY <1>5, <2>1 DEF OpenDuckLake
<1>6. CASE AttachDuckLake
  BY <1>6 DEF AttachDuckLake
<1> QED BY <1>1, <1>2, <1>3, <1>4, <1>5, <1>6 DEF ConnectStep

-----------------------------------------------------------------------------
Connected == {"schema", "header", "binds", "build", "close", "close_raising",
              "report"}

(* What main knows of its connection at each step, and that only its       *)
(* finally clause closes the adapter.                                      *)
CloseInv ==
  /\ pc \in Labels
  /\ pc \in {"env", "inputs", "discover"} => at = "start"
  /\ pc = "connect" => at \in Trying
  /\ pc \in Connected => at = "connected"
  /\ pc = "raised" => at \in {"connected", "raised"}
  /\ pc \in {"report", "ended"} /\ at = "connected" =>
       closes = 1 /\ passfile # "kept" /\ open \in {0, 1}
  /\ pc \notin {"report", "ended"} => closes = 0 /\ ConnectInv
  /\ pc = "ended" => at \in {"start", "raised", "connected"}
  /\ pc = "ended" /\ at # "connected" => open = 0 /\ passfile # "kept"
  /\ closes \in 0 .. 1 /\ TimeoutInv

(* The gate is passed step by step.                                        *)
PassedHeader == source \in {"none", "conforms", "extra_column"}
GateInv ==
  /\ reads \in Seq(BOOLEAN) /\ Len(reads) <= MaxReads
  /\ next \in 1 .. Len(reads) + 1
  /\ \A i \in 1 .. Len(reads) : i < next => reads[i]
  /\ op \notin {"check_binds", "build_from_columns"} => reads = <<>>
  /\ op # "build_from_columns" => source = "none"
  /\ pc \in {"binds", "build"} => PassedHeader
  /\ pc = "header" => op = "build_from_columns"
  /\ pc = "binds" => op \in {"check_binds", "build_from_columns"}
  /\ pc = "build" => /\ op \notin SchemaOps \cup {"check_binds"}
                     /\ \A i \in 1 .. Len(reads) : reads[i]
  /\ built => GateHolds

(* The one block, the exit code and the effects.                           *)
BlockInv ==
  /\ pc # "ended" => exit = IF pc = "close_raising" THEN 1 ELSE 0
  /\ pc \notin {"ended", "close_raising"} => blocks = <<>>
  /\ pc = "close_raising" => blocks = <<"error">>
  /\ pc \in {"env", "inputs", "discover", "connect", "schema"} => Untouched
  /\ pc \in {"header", "binds", "build"} => ensured
  /\ pc \in {"close", "report"} => Effective
  /\ BlockAgreesWithExit

RunnerInv == CloseInv /\ GateInv /\ BlockInv

-----------------------------------------------------------------------------
(* Before the container has done anything.                                 *)
LEMMA RunnerInit == Init => RunnerInv
<1> SUFFICES ASSUME Init PROVE RunnerInv
  OBVIOUS
<1>1. reads \in Seq(BOOLEAN) /\ Len(reads) <= MaxReads /\ 1 \in 1 .. Len(reads) + 1
      /\ (op \notin {"check_binds", "build_from_columns"} => reads = <<>>)
  <2>. DEFINE Bound == CASE op = "build_from_columns" ->
                             UNION {[1 .. n -> BOOLEAN] : n \in 0 .. MaxReads}
                        [] op = "check_binds" -> [1 .. 1 -> BOOLEAN]
                        [] OTHER -> {<<>>}
  <2>0. reads \in Bound
    BY DEF Init
  <2>1. CASE op = "build_from_columns"
    <3>1. PICK n \in 0 .. MaxReads : reads \in [1 .. n -> BOOLEAN]
      BY <2>0, <2>1
    <3> QED BY <3>1, <2>1, RunnerAssumption
  <2>2. CASE op = "check_binds"
    <3>1. PICK n \in 1 .. MaxReads : reads \in [1 .. n -> BOOLEAN]
      BY <2>0, <2>2, RunnerAssumption
    <3>2. reads \in Seq(BOOLEAN) /\ Len(reads) = n
      BY <3>1
    <3> QED BY <3>1, <3>2, <2>2, RunnerAssumption
  <2>3. CASE op \notin {"check_binds", "build_from_columns"}
    <3>1. reads = <<>>
      BY <2>0, <2>3
    <3> QED BY <3>1, <2>3, RunnerAssumption
  <2> QED BY <2>1, <2>2, <2>3
<1>2. ConnectInv
  BY ConnectAssumption
     DEF Init, ConnectInit, ConnectInv, AttemptInv, OpenInv, TimeoutInv, Trying
<1>3. pc = "env" /\ next = 1 /\ closes = 0 /\ at = "start" /\ blocks = <<>> /\ exit = 0
      /\ ~ensured /\ ~built /\ ~dropped
  BY DEF Init, ConnectInit
<1>4. op # "build_from_columns" => source = "none"
  BY DEF Init
<1>5. CloseInv
  BY <1>2, <1>3 DEF CloseInv, Connected, Labels, ConnectInv
<1>6. GateInv
  BY <1>1, <1>3, <1>4 DEF GateInv
<1>7. BlockInv
  BY <1>3 DEF BlockInv, Untouched, BlockAgreesWithExit
<1> QED BY <1>5, <1>6, <1>7 DEF RunnerInv

(* The connection through every step of main.                              *)
LEMMA CloseStep == CloseInv /\ [Next]_vars => CloseInv'
<1> SUFFICES ASSUME CloseInv, [Next]_vars PROVE CloseInv'
  OBVIOUS
<1> USE DEF CloseInv, Connected, Labels, Trying, Reject, connection, ConnectInv,
            AttemptInv, OpenInv, TimeoutInv
<1>1. CASE RequireEnv
  BY <1>1 DEF RequireEnv
<1>2. CASE LoadCandidate
  BY <1>2 DEF LoadCandidate
<1>3. CASE Discover
  BY <1>3 DEF Discover
<1>4. CASE FromEnv
  <2>1. ConnectInv' /\ pc = "connect"
    BY <1>4, ConnectStepKeeps DEF FromEnv
  <2> QED BY <1>4, <2>1 DEF FromEnv
<1>5. CASE SchemaOp
  BY <1>5 DEF SchemaOp, AfterSchema
<1>6. CASE CheckHeader
  BY <1>6 DEF CheckHeader
<1>7. CASE CheckBinds
  BY <1>7 DEF CheckBinds
<1>8. CASE Build
  BY <1>8 DEF Build
<1>9. CASE ReportError
  BY <1>9 DEF ReportError
<1>10. CASE CloseAdapter
  BY <1>10 DEF CloseAdapter, CloseConnection
<1>11. CASE ReportSuccess
  BY <1>11 DEF ReportSuccess
<1>12. CASE UNCHANGED vars
  BY <1>12 DEF vars, inputs, effects, report, connection
<1> QED BY <1>1, <1>2, <1>3, <1>4, <1>5, <1>6, <1>7, <1>8, <1>9, <1>10, <1>11,
           <1>12
        DEF Next

(* What reaches the gate, and what it lets through.                        *)
LEMMA GateStep == GateInv /\ [Next]_vars => GateInv'
<1> SUFFICES ASSUME GateInv, [Next]_vars PROVE GateInv'
  OBVIOUS
<1> USE DEF GateInv, PassedHeader, GateHolds, Reject, inputs, effects, SchemaOps
<1>1. CASE RequireEnv
  BY <1>1 DEF RequireEnv
<1>2. CASE LoadCandidate
  BY <1>2 DEF LoadCandidate
<1>3. CASE Discover
  BY <1>3 DEF Discover
<1>4. CASE FromEnv
  BY <1>4 DEF FromEnv
<1>5. CASE SchemaOp
  BY <1>5 DEF SchemaOp, AfterSchema
<1>6. CASE CheckHeader
  BY <1>6 DEF CheckHeader
<1>7. CASE CheckBinds
  BY <1>7 DEF CheckBinds
<1>8. CASE Build
  BY <1>8 DEF Build
<1>9. CASE ReportError
  BY <1>9 DEF ReportError
<1>10. CASE CloseAdapter
  BY <1>10 DEF CloseAdapter
<1>11. CASE ReportSuccess
  BY <1>11 DEF ReportSuccess
<1>12. CASE UNCHANGED vars
  BY <1>12 DEF vars, inputs, effects, report, connection
<1> QED BY <1>1, <1>2, <1>3, <1>4, <1>5, <1>6, <1>7, <1>8, <1>9, <1>10, <1>11,
           <1>12
        DEF Next

(* The block, the exit code and the effects of every step of main.         *)
LEMMA BlockStep ==
  CloseInv /\ GateInv /\ BlockInv /\ [Next]_vars => BlockInv'
<1> SUFFICES ASSUME CloseInv, GateInv, BlockInv, [Next]_vars PROVE BlockInv'
  OBVIOUS
<1> USE DEF BlockInv, BlockAgreesWithExit, Untouched, Effective, Reject, inputs,
            effects, report, connection
<1>0. /\ pc \in {"env", "inputs", "discover"} => at = "start"
      /\ pc = "connect" => at # "connected"
      /\ pc \in Labels
      /\ Append(<<>>, "error") = <<"error">>
      /\ Append(<<>>, "success") = <<"success">>
  BY DEF CloseInv, Trying
<1>1. CASE RequireEnv
  BY <1>0, <1>1 DEF RequireEnv
<1>2. CASE LoadCandidate
  BY <1>0, <1>2 DEF LoadCandidate
<1>3. CASE Discover
  BY <1>0, <1>3 DEF Discover
<1>4. CASE FromEnv
  BY <1>0, <1>4 DEF FromEnv
<1>5. CASE SchemaOp
  BY <1>0, <1>5 DEF SchemaOp, AfterSchema, SchemaOps
<1>6. CASE CheckHeader
  BY <1>0, <1>6 DEF CheckHeader
<1>7. CASE CheckBinds
  BY <1>0, <1>7 DEF CheckBinds, GateInv
<1>8. CASE Build
  BY <1>0, <1>8 DEF Build, GateInv, SchemaOps
<1>9. CASE ReportError
  BY <1>0, <1>9 DEF ReportError
<1>10. CASE CloseAdapter
  BY <1>0, <1>10 DEF CloseAdapter
<1>11. CASE ReportSuccess
  BY <1>0, <1>11 DEF ReportSuccess
<1>12. CASE UNCHANGED vars
  BY <1>12 DEF vars, inputs, effects, report, connection
<1> QED BY <1>1, <1>2, <1>3, <1>4, <1>5, <1>6, <1>7, <1>8, <1>9, <1>10, <1>11,
           <1>12
        DEF Next

(* Together they are an invariant of every run of the container.           *)
LEMMA RunnerInvariant == Spec => []RunnerInv
<1>1. RunnerInv /\ [Next]_vars => RunnerInv'
  BY CloseStep, GateStep, BlockStep DEF RunnerInv
<1> QED BY RunnerInit, <1>1, PTL DEF Spec

-----------------------------------------------------------------------------
(* The inputs and the effects keep their types, and so do the connection   *)
(* (ConnectInv) and the bounded counters (GateInv, CloseInv).              *)
MainTypes ==
  /\ op \in NodeOps \cup SchemaOps \cup {"unknown"}
  /\ unset \subseteq Env
  /\ object \in Objects /\ defect \in Defects /\ source \in Sources
  /\ blocks \in Seq({"success", "error"}) /\ exit \in 0 .. 2

LEMMA MainTypesStep == MainTypes /\ [Next]_vars => MainTypes'
<1> SUFFICES ASSUME MainTypes, [Next]_vars PROVE MainTypes'
  OBVIOUS
<1>1. inputs' = inputs
  BY DEF Next, vars, RequireEnv, LoadCandidate, Discover, FromEnv, SchemaOp,
         CheckHeader, CheckBinds, Build, ReportError, CloseAdapter, ReportSuccess
<1>2. \/ UNCHANGED blocks
      \/ blocks' = Append(blocks, "error")
      \/ blocks' = Append(blocks, "success")
  BY DEF Next, vars, RequireEnv, LoadCandidate, Discover, FromEnv, SchemaOp,
         CheckHeader, CheckBinds, Build, ReportError, CloseAdapter, ReportSuccess,
         Reject, report
<1>3. exit' \in {exit, 1, 2}
  BY DEF Next, vars, RequireEnv, LoadCandidate, Discover, FromEnv, SchemaOp,
         CheckHeader, CheckBinds, Build, ReportError, CloseAdapter, ReportSuccess,
         Reject, report
<1> QED BY <1>1, <1>2, <1>3 DEF MainTypes, inputs

(* An effect has happened or it has not, and close() is called once.       *)
LEMMA EffectTypesStep ==
  /\ ensured \in BOOLEAN /\ built \in BOOLEAN /\ dropped \in BOOLEAN
  /\ [Next]_vars
  => ensured' \in BOOLEAN /\ built' \in BOOLEAN /\ dropped' \in BOOLEAN
BY DEF Next, vars, effects, RequireEnv, LoadCandidate, Discover, FromEnv, SchemaOp,
       CheckHeader, CheckBinds, Build, ReportError, CloseAdapter, ReportSuccess

(* The connection's types through its own steps and close().               *)
LEMMA ConnectTypesStep ==
  CloseInv /\ ConnectTypeOK /\ [Next]_vars => ConnectTypeOK'
<1> SUFFICES ASSUME CloseInv, ConnectTypeOK, [Next]_vars PROVE ConnectTypeOK'
  OBVIOUS
<1>1. CASE FromEnv
  <2>1. ConnectInv'
    BY <1>1, ConnectStepKeeps DEF FromEnv, CloseInv
  <2> QED BY <2>1
          DEF ConnectInv, ConnectTypeOK, AttemptInv, OpenInv, TimeoutInv, Trying
<1>2. CASE CloseAdapter
  BY <1>2 DEF CloseAdapter, CloseConnection, CloseInv, ConnectInv, OpenInv, Connected,
              ConnectTypeOK
<1>3. CASE UNCHANGED connection
  BY <1>3 DEF connection, ConnectTypeOK
<1> QED BY <1>1, <1>2, <1>3
        DEF Next, vars, RequireEnv, LoadCandidate, Discover, SchemaOp,
            CheckHeader, CheckBinds, Build, ReportError, ReportSuccess

(* TypeCorrect: every variable stays in its type; no container makes more  *)
(* attempts to connect than it may, nor closes its adapter twice.          *)
THEOREM TypeCorrect == Spec => []TypeOK
<1> DEFINE Inv == /\ RunnerInv /\ MainTypes /\ ConnectTypeOK
                  /\ ensured \in BOOLEAN /\ built \in BOOLEAN /\ dropped \in BOOLEAN
<1>1. Init => Inv
  <2> SUFFICES ASSUME Init PROVE Inv
    OBVIOUS
  <2>1. MainTypes
    BY DEF Init, MainTypes, Env, Objects, Defects, Sources
  <2>2. ConnectTypeOK
    BY ConnectAssumption DEF Init, ConnectInit, ConnectTypeOK
  <2> QED BY <2>1, <2>2, RunnerInit DEF Init
<1>2. Inv /\ [Next]_vars => Inv'
  BY CloseStep, GateStep, BlockStep, MainTypesStep, EffectTypesStep, ConnectTypesStep
     DEF RunnerInv
<1>3. Inv => TypeOK
  BY RunnerAssumption DEF RunnerInv, CloseInv, GateInv, MainTypes, TypeOK
<1> HIDE DEF Inv
<1> QED BY <1>1, <1>2, <1>3, PTL DEF Spec

(* A silent server is waited for once, whatever the number of addresses    *)
(* and of attempts: a retry follows only a failure that came at once.      *)
THEOREM AtMostOneTimeoutHolds == Spec => []AtMostOneTimeout
<1>1. RunnerInv => AtMostOneTimeout
  BY DEF RunnerInv, CloseInv, TimeoutInv, AtMostOneTimeout
<1> QED BY RunnerInvariant, <1>1, PTL

(* from_env, the except clause and the finally leave no connection open    *)
(* that close() was not asked to close, and no password file.              *)
THEOREM NothingLeaksHolds == Spec => []NothingLeaks
<1>1. RunnerInv => NothingLeaks
  BY DEF RunnerInv, CloseInv, NothingLeaks
<1> QED BY RunnerInvariant, <1>1, PTL

(* No table is built for a node whose csv source lacks a declared column   *)
(* or of whose declared reads one does not bind, however many it has.      *)
THEOREM GateHoldsHolds == Spec => []GateHolds
<1>1. RunnerInv => GateHolds
  BY DEF RunnerInv, GateInv, GateHolds
<1> QED BY RunnerInvariant, <1>1, PTL

(* One block, which agrees with the exit code and with the warehouse.      *)
THEOREM BlockAgreesHolds == Spec => []BlockAgreesWithExit
<1>1. RunnerInv => BlockAgreesWithExit
  BY DEF RunnerInv, BlockInv
<1> QED BY RunnerInvariant, <1>1, PTL

-----------------------------------------------------------------------------
(* Every set of naturals that is not empty has a least element.            *)
LEMMA LeastNat ==
  ASSUME NEW S, S \subseteq Nat, S # {}
  PROVE  \E k \in S : \A l \in S : k <= l
<1>1. PICK k \in S : \A l \in S : <<l, k>> \notin OpToRel(<, Nat)
  BY NatLessThanWellFounded, WFMin, Zenon
<1>2. \A l \in S : ~ (l < k)
  BY <1>1, Zenon DEF OpToRel
<1>3. \A l \in S : k <= l
  BY <1>2
<1> QED BY <1>3

(* Induction over the naturals, for a property given as a set.             *)
LEMMA Induction ==
  ASSUME NEW S, 0 \in S, \A n \in Nat : n \in S => n + 1 \in S
  PROVE  Nat \subseteq S
<1> SUFFICES ASSUME Nat \ S # {} PROVE FALSE
  OBVIOUS
<1>1. PICK k \in Nat \ S : \A l \in Nat \ S : k <= l
  BY LeastNat
<1>2. k # 0 /\ k - 1 \in Nat /\ k - 1 \in S
  BY <1>1
<1> QED BY <1>1, <1>2

(* First: the least place of a set of places, and 0 of none.               *)
LEMMA FirstIsLeast ==
  ASSUME NEW S, S \subseteq Nat, S # {}
  PROVE  First(S) \in S /\ \A l \in S : First(S) <= l
<1>1. \E k \in S : \A l \in S : k <= l
  BY LeastNat
<1> QED BY <1>1 DEF First

(* The declared and the live columns as shape_diff sees them: sequences of *)
(* named columns.                                                          *)
LEMMA ColumnsOf ==
  ASSUME NEW columns, columns \in Seq(OutputColumn) \/ columns \in Seq(LiveColumn)
  PROVE  /\ Len(columns) \in Nat /\ DOMAIN columns = 1 .. Len(columns)
         /\ DOMAIN columns \subseteq Nat \ {0}
         /\ \A i \in DOMAIN columns : columns[i].name \in ColumnName
<1>1. Len(columns) \in Nat /\ DOMAIN columns = 1 .. Len(columns)
  OBVIOUS
<1>2. DOMAIN columns \subseteq Nat \ {0}
  BY <1>1
<1>3. ASSUME NEW i \in DOMAIN columns PROVE columns[i].name \in ColumnName
  <2>1. columns[i] \in OutputColumn \/ columns[i] \in LiveColumn
    OBVIOUS
  <2>2. \A c \in OutputColumn \cup LiveColumn : c.name \in ColumnName
    BY DEF OutputColumn, LiveColumn
  <2> QED BY <2>1, <2>2, Zenon
<1> QED BY <1>1, <1>2, <1>3

(* The column a declared one takes is one of those left, of its folded     *)
(* name, and of its exact name when one is left; 0 when none folds to it.  *)
LEMMA CounterpartFits ==
  ASSUME NEW live_columns, live_columns \in Seq(LiveColumn),
         NEW paired, NEW i, NEW column,
         NEW k, k = Counterpart(Left(paired, i, live_columns), column, live_columns)
  PROVE  /\ k # 0 => k \in Left(paired, i, live_columns)
         /\ k # 0 => Fold[live_columns[k].name] = Fold[column.name]
         /\ ExactIn(Left(paired, i, live_columns), column, live_columns) # {} =>
              k # 0 /\ live_columns[k].name = column.name
<1> DEFINE left   == Left(paired, i, live_columns)
           exact  == ExactIn(left, column, live_columns)
           folded == FoldedIn(left, column, live_columns)
<1>0. left \subseteq Nat \ {0}
  BY ColumnsOf DEF Left
<1> HIDE DEF left
<1>1. exact \subseteq folded /\ folded \subseteq left /\ 0 \notin left
  BY <1>0 DEF ExactIn, FoldedIn
<1>2. CASE exact # {}
  <2>1. k \in exact
    BY <1>0, <1>1, <1>2, FirstIsLeast DEF Counterpart, left
  <2> QED BY <1>1, <1>2, <2>1 DEF ExactIn, FoldedIn, left
<1>3. CASE exact = {} /\ folded # {}
  <2>1. k \in folded
    BY <1>0, <1>1, <1>3, FirstIsLeast DEF Counterpart, left
  <2> QED BY <1>1, <1>3, <2>1 DEF ExactIn, FoldedIn, left
<1>4. CASE exact = {} /\ folded = {}
  BY <1>4 DEF Counterpart, First, left
<1> QED BY <1>2, <1>3, <1>4

(* The recursive function of shape_diff exists: it is built one declared   *)
(* column after the other.                                                 *)
LEMMA PairingIsGreedy ==
  ASSUME NEW columns, columns \in Seq(OutputColumn), NEW live_columns,
         NEW p, p = Pairing(columns, live_columns)
  PROVE  p = [i \in DOMAIN columns |->
                Counterpart(Left(p, i, live_columns), columns[i], live_columns)]
<1> DEFINE Turn(q, i) == Counterpart(Left(q, i, live_columns), columns[i], live_columns)
           Upto(m) == \E q : q = [i \in 1 .. m |-> Turn(q, i)]
<1>1. Upto(0)
  <2>1. \A q : [i \in 1 .. 0 |-> Turn(q, i)] = <<>>
    OBVIOUS
  <2> QED BY <2>1
<1>2. ASSUME NEW m \in Nat, Upto(m) PROVE Upto(m + 1)
  <2>1. PICK q : q = [i \in 1 .. m |-> Turn(q, i)]
    BY <1>2
  <2> DEFINE r == [i \in 1 .. m + 1 |-> IF i <= m THEN q[i] ELSE Turn(q, i)]
  <2>2. \A i \in 1 .. m + 1 : Left(r, i, live_columns) = Left(q, i, live_columns)
    <3>1. \A i \in 1 .. m + 1 : \A j \in 1 .. i - 1 : r[j] = q[j]
      OBVIOUS
    <3> QED BY <3>1 DEF Left
  <2>3. \A i \in 1 .. m + 1 : Turn(r, i) = Turn(q, i)
    BY <2>2
  <2>4. \A i \in 1 .. m + 1 : r[i] = Turn(q, i)
    BY <2>1
  <2> HIDE DEF Turn
  <2>5. r = [i \in 1 .. m + 1 |-> Turn(r, i)]
    BY <2>3, <2>4
  <2> QED BY <2>5
<1> DEFINE S == {m \in Nat : Upto(m)}
<1> HIDE DEF Upto
<1>3. 0 \in S /\ \A m \in Nat : m \in S => m + 1 \in S
  BY <1>1, <1>2
<1> HIDE DEF S
<1>4. Len(columns) \in S
  BY <1>3, Induction, ColumnsOf
<1>5. Upto(Len(columns))
  BY <1>4 DEF S
<1>6. \E q : q = [i \in DOMAIN columns |-> Turn(q, i)]
  BY <1>5, ColumnsOf DEF Upto
<1> QED BY <1>6 DEF Pairing

(* The pairing is one to one where it pairs, and by folded names.          *)
LEMMA PairingFits ==
  ASSUME NEW columns, columns \in Seq(OutputColumn),
         NEW live_columns, live_columns \in Seq(LiveColumn),
         NEW p, p = Pairing(columns, live_columns), NEW i \in DOMAIN columns
  PROVE  /\ p[i] # 0 => p[i] \in Left(p, i, live_columns)
         /\ p[i] # 0 => Fold[live_columns[p[i]].name] = Fold[columns[i].name]
         /\ ExactIn(Left(p, i, live_columns), columns[i], live_columns) # {} =>
              p[i] # 0 /\ live_columns[p[i]].name = columns[i].name
<1>1. p = [j \in DOMAIN columns |->
             Counterpart(Left(p, j, live_columns), columns[j], live_columns)]
  BY PairingIsGreedy
<1>2. p[i] = Counterpart(Left(p, i, live_columns), columns[i], live_columns)
  BY <1>1
<1> QED BY <1>2, CounterpartFits

(* When the live columns are the declared ones in some order, every        *)
(* declared column takes its own, also when two names fold together.       *)
LEMMA OwnColumnTaken ==
  ASSUME NEW columns, columns \in Seq(OutputColumn), Distinct(columns),
         NEW live_columns, live_columns \in Seq(LiveColumn),
         NEW f, Pairs(f, columns, live_columns, Exact),
         NEW p, p = Pairing(columns, live_columns)
  PROVE  \A i \in DOMAIN columns : p[i] = f[i]
<1>0. /\ {f[i] : i \in DOMAIN columns} = DOMAIN live_columns
      /\ \A i \in DOMAIN columns : f[i] \in DOMAIN live_columns
      /\ \A i \in DOMAIN columns : columns[i].name = live_columns[f[i]].name
  <2>1. /\ {f[i] : i \in DOMAIN columns} = DOMAIN live_columns
        /\ \A i \in DOMAIN columns : Exact[columns[i].name] = Exact[live_columns[f[i]].name]
    BY DEF Pairs
  <2>2. \A i \in DOMAIN columns : f[i] \in DOMAIN live_columns
    BY <2>1
  <2>3. \A i \in DOMAIN columns :
          columns[i].name \in ColumnName /\ live_columns[f[i]].name \in ColumnName
    BY <2>2, ColumnsOf
  <2> QED BY <2>1, <2>2, <2>3 DEF Exact
<1> DEFINE Astray == {i \in DOMAIN columns : p[i] # f[i]}
<1> SUFFICES ASSUME Astray # {} PROVE FALSE
  OBVIOUS
<1>1. Astray \subseteq Nat /\ \A i \in DOMAIN columns : i \in Astray <=> p[i] # f[i]
  BY ColumnsOf
<1> HIDE DEF Astray
<1>2. PICK k \in Astray : \A l \in Astray : k <= l
  BY <1>1, LeastNat
<1>3. k \in DOMAIN columns /\ p[k] # f[k]
  BY DEF Astray
<1>4. \A i \in DOMAIN columns : columns[i].name = columns[k].name => i = k
  BY <1>3 DEF Distinct
<1>5. \A j \in 1 .. k - 1 : p[j] = f[j] /\ f[j] # f[k]
  <2> SUFFICES ASSUME NEW j \in 1 .. k - 1 PROVE p[j] = f[j] /\ f[j] # f[k]
    OBVIOUS
  <2>1. k \in Nat /\ j \in DOMAIN columns /\ j \in Nat /\ j < k
    BY <1>3, ColumnsOf
  <2>2. p[j] = f[j]
    BY <1>1, <1>2, <2>1
  <2> QED BY <1>0, <1>3, <1>4, <2>1, <2>2
<1>6. f[k] \in Left(p, k, live_columns)
  BY <1>0, <1>3, <1>5 DEF Left
<1>7. ExactIn(Left(p, k, live_columns), columns[k], live_columns) # {}
  BY <1>0, <1>3, <1>6 DEF ExactIn
<1>8. p[k] \in Left(p, k, live_columns) /\ live_columns[p[k]].name = columns[k].name
  BY <1>3, <1>7, PairingFits
<1>9. PICK i \in DOMAIN columns : p[k] = f[i]
  BY <1>0, <1>8 DEF Left
<1> QED BY <1>0, <1>3, <1>4, <1>8, <1>9

(* The declared columns themselves pass, in any order.                     *)
LEMMA OwnColumnsPass ==
  ASSUME NEW columns, columns \in Seq(OutputColumn), Distinct(columns),
         NEW live_columns, live_columns \in Seq(LiveColumn),
         NEW f, Pairs(f, columns, live_columns, Exact)
  PROVE  ~ShapeDiffers(columns, live_columns)
<1>1. PICK p : p = Pairing(columns, live_columns)
  OBVIOUS
<1>2. \A i \in DOMAIN columns : p[i] = f[i]
  BY <1>1, OwnColumnTaken
<1>3. /\ \A i \in DOMAIN columns : p[i] # 0
      /\ DOMAIN live_columns = {p[i] : i \in DOMAIN columns}
      /\ \A i \in DOMAIN columns : live_columns[p[i]].nullable = columns[i].nullable
  <2>1. \A i \in DOMAIN columns : f[i] \in DOMAIN live_columns
    BY DEF Pairs
  <2>2. \A i \in DOMAIN columns : p[i] # 0
    BY <1>2, <2>1, ColumnsOf
  <2>3. {p[i] : i \in DOMAIN columns} = {f[i] : i \in DOMAIN columns}
    BY <1>2
  <2>4. \A i \in DOMAIN columns : live_columns[p[i]].nullable = columns[i].nullable
    BY <1>2 DEF Pairs
  <2> QED BY <2>2, <2>3, <2>4 DEF Pairs
<1> QED BY <1>1, <1>3 DEF ShapeDiffers

(* Two intervals from 1 with a bijection between them are the same.        *)
LEMMA SameLength ==
  ASSUME NEW n \in Nat, NEW m \in Nat, ExistsBijection(1 .. n, 1 .. m)
  PROVE  n = m
<1>1. \A k \in Nat : IsFiniteSet(1 .. k) /\ Cardinality(1 .. k) = k
  BY FS_Interval
<1> QED BY <1>1, FS_Bijection

(* What shape_diff lets pass pairs all columns with all columns, by their  *)
(* folded names and with their nullability.                                *)
LEMMA PassedIsPaired ==
  ASSUME NEW columns, columns \in Seq(OutputColumn),
         NEW live_columns, live_columns \in Seq(LiveColumn),
         ~ShapeDiffers(columns, live_columns),
         NEW p, p = Pairing(columns, live_columns)
  PROVE  /\ Len(columns) = Len(live_columns)
         /\ p \in [DOMAIN columns -> DOMAIN live_columns]
         /\ Pairs(p, columns, live_columns, Fold)
<1>1. /\ \A i \in DOMAIN columns : p[i] # 0
      /\ {p[i] : i \in DOMAIN columns} = DOMAIN live_columns
      /\ \A i \in DOMAIN columns : live_columns[p[i]].nullable = columns[i].nullable
  BY DEF ShapeDiffers
<1>2. \A i \in DOMAIN columns :
        /\ p[i] \in Left(p, i, live_columns)
        /\ Fold[live_columns[p[i]].name] = Fold[columns[i].name]
  BY <1>1, PairingFits
<1>3. p \in [DOMAIN columns -> DOMAIN live_columns]
  <2>1. p = [i \in DOMAIN columns |->
               Counterpart(Left(p, i, live_columns), columns[i], live_columns)]
    BY PairingIsGreedy
  <2> QED BY <1>1, <2>1
<1>4. /\ Len(columns) \in Nat /\ DOMAIN columns = 1 .. Len(columns)
      /\ Len(live_columns) \in Nat /\ DOMAIN live_columns = 1 .. Len(live_columns)
  BY ColumnsOf
<1>5. \A i, j \in DOMAIN columns : p[i] = p[j] => i = j
  <2>1. \A i, j \in DOMAIN columns : j < i => p[i] # p[j]
    BY <1>2, <1>4 DEF Left
  <2> QED BY <1>4, <2>1
<1>6. Len(columns) = Len(live_columns)
  <2>1. p \in Bijection(DOMAIN columns, DOMAIN live_columns)
    BY <1>1, <1>3, <1>5 DEF Bijection, Injection, IsInjective, Surjection
  <2>2. ExistsBijection(1 .. Len(columns), 1 .. Len(live_columns))
    BY <1>4, <2>1, Zenon DEF ExistsBijection
  <2> QED BY <1>4, <2>2, SameLength
<1> QED BY <1>1, <1>2, <1>3, <1>6 DEF Pairs

-----------------------------------------------------------------------------
(* What a source has whose header is refused though no request failed: a   *)
(* line over the limit, or whole probes and no newline.                    *)
LineTooLong  == FirstLine > MaxHeader
EndsOnProbe  == server # "whole" /\ nl = 0 /\ WholeProbes(size)

(* While the probes go on there is no newline in what they have read, and  *)
(* no more than the limit of it.                                           *)
HeaderInv ==
  /\ HeaderTypeOK /\ HeaderWhole
  /\ buf <= size
  /\ header = Probing => ~NewlineIn(buf) /\ buf <= MaxHeader

(* A ranged probe that is followed by another was full.                    *)
RaisedInv ==
  /\ header = Probing /\ server # "whole" => WholeProbes(buf)
  /\ header # Probing /\ header.state # "line" => failed \/ LineTooLong \/ EndsOnProbe

(* A source that was not replaced since was decided by the names csv.reader *)
(* read in its first line, which are all names of a plain one.             *)
PromotedInv ==
  /\ stage = "gate" => kind = "csv" /\ ~changed
  /\ stage = "refused" =>
       \/ header.state # "line" /\ header # Probing
       \/ first \in {"blank", "broken"}
       \/ MissingFromHeader(spelled, declared) # {} /\ (first = "plain" => spelled = names)
  /\ kind = "csv" /\ stage \notin {"gate", "refused"} /\ ~changed =>
       /\ MissingFromHeader(spelled, declared) = {}
       /\ first = "split" \/ (first = "plain" /\ spelled = names)

(* What a declared column is filled from is selected from a table that     *)
(* conforms.                                                               *)
Filled == Conforms(produced, declared, policy) /\ filled = Selected(produced, declared)

FilledInv ==
  /\ stage \in {"gate", "refused", "promoted", "conform"} => filled = <<>>
  /\ filled = <<>> \/ Filled
  /\ stage \in {"shape", "written"} => Filled

(* A live table that was read was decided by shape_diff.                   *)
ShapeInv ==
  /\ stage \notin {"written", "failed"} => live = <<>>
  /\ live # <<>> => (stage = "failed" <=> ShapeDiffers(declared, live))

NodeTypes ==
  /\ kind \in {"csv", "script"} /\ declared \in Contracts
  /\ policy \in {"raise", "warn"} /\ stage \in Stages
  /\ first \in Shapes /\ names \in Headers \cup {<<>>} /\ changed \in BOOLEAN
  /\ spelled \in Seq(ColumnName)
  /\ produced \in Seq(Column) /\ live \in LiveTables \cup {<<>>}

NodeInv == HeaderInv /\ RaisedInv /\ NodeTypes /\ PromotedInv /\ FilledInv /\ ShapeInv

-----------------------------------------------------------------------------
LEMMA Sizes == ProbeBytes \in Nat \ {0} /\ MaxHeader \in Nat /\ MaxSize \in Nat
BY HeaderAssumption

LEMMA HeaderStarts == HeaderInit => HeaderInv
<1> SUFFICES ASSUME HeaderInit PROVE HeaderInv
  OBVIOUS
<1>1. HeaderTypeOK
  <2>1. 0 \in 0 .. MaxSize /\ 0 \in 0 .. MaxHeader + ProbeBytes
    BY Sizes
  <2>2. Probing \in [state : {"probing", "line", "error"}, length : 0 .. MaxSize]
    BY <2>1 DEF Probing
  <2> QED BY <2>1, <2>2, Zenon DEF HeaderInit, HeaderTypeOK
<1>2. buf <= size /\ buf <= MaxHeader /\ ~NewlineIn(buf)
  BY Sizes DEF HeaderInit, NewlineIn
<1>3. HeaderWhole
  BY DEF HeaderInit, HeaderWhole, Probing
<1> QED BY <1>1, <1>2, <1>3 DEF HeaderInv

(* The line that the first newline ends, or that the whole object is.      *)
LEMMA ExtractIsFirstLine ==
  ASSUME NEW b \in Nat, HeaderTypeOK, b <= size,
         NewlineIn(b) \/ b = size \/ b > MaxHeader
  PROVE  /\ Extract(b).state \in {"line", "error"}
         /\ Extract(b) \in [state : {"probing", "line", "error"}, length : 0 .. MaxSize]
         /\ Extract(b).state = "line" => Extract(b).length = FirstLine
         /\ nl > 0 => (Extract(b).state = "line" <=> FirstLine <= MaxHeader)
<1> USE Sizes DEF HeaderTypeOK, Extract, Raised, Line, FirstLine, NewlineIn
<1>1. CASE nl \in 1 .. b
  BY <1>1
<1>2. CASE nl \notin 1 .. b
  BY <1>2
<1> QED BY <1>1, <1>2

(* A ranged probe ends with a newline, with the object, past the limit, or *)
(* is followed by another.                                                 *)
LEMMA ProbeKeeps == HeaderInv /\ Probe => HeaderInv'
<1> SUFFICES ASSUME HeaderInv, Probe PROVE HeaderInv'
  OBVIOUS
<1> DEFINE read == Lesser(ProbeBytes, size - buf)
           now  == buf + read
<1>1. /\ size \in Nat /\ nl \in 0 .. size /\ buf \in Nat /\ buf < size /\ buf <= MaxHeader
      /\ size <= MaxSize /\ MaxSize \in Nat /\ ProbeBytes \in Nat \ {0} /\ MaxHeader \in Nat
      /\ ~NewlineIn(buf) /\ failed \in BOOLEAN
  BY Sizes DEF HeaderInv, HeaderTypeOK, Probe
<1>2. /\ read \in 1 .. ProbeBytes /\ now \in Nat /\ now <= size /\ now <= MaxHeader + ProbeBytes
      /\ read < ProbeBytes => now = size
  BY <1>1 DEF Lesser
<1>3. /\ buf' = now /\ header' = AfterProbe(read, now) /\ UNCHANGED <<csv_object, failed>>
  BY DEF Probe
<1> HIDE DEF read, now
<1>4. HeaderTypeOK
  BY DEF HeaderInv
<1>5. CASE NewlineIn(now)
  <2>1. header' = Extract(now)
    BY <1>3, <1>5 DEF AfterProbe
  <2>2. header'.state \in {"line", "error"}
    BY <1>2, <1>4, <1>5, <2>1, ExtractIsFirstLine
  <2> QED BY <1>1, <1>2, <1>3, <1>4, <1>5, <2>1, <2>2, ExtractIsFirstLine
          DEF HeaderInv, HeaderTypeOK, HeaderWhole, csv_object, FirstLine, Probing
<1>6. CASE ~NewlineIn(now) /\ read < ProbeBytes
  <2>1. header' = Line(size) /\ nl = 0
    BY <1>1, <1>2, <1>3, <1>6 DEF AfterProbe, NewlineIn
  <2> QED BY <1>1, <1>2, <1>3, <1>4, <2>1
          DEF HeaderInv, HeaderTypeOK, HeaderWhole, csv_object, FirstLine, Probing, Line
<1>7. CASE ~NewlineIn(now) /\ ~(read < ProbeBytes) /\ now > MaxHeader
  <2>1. header' = Raised /\ (nl > 0 => nl > now)
    BY <1>1, <1>2, <1>3, <1>7 DEF AfterProbe, NewlineIn
  <2> QED BY <1>1, <1>2, <1>3, <1>4, <1>7, <2>1
          DEF HeaderInv, HeaderTypeOK, HeaderWhole, csv_object, FirstLine, Probing, Raised
<1>8. CASE ~NewlineIn(now) /\ ~(read < ProbeBytes) /\ ~(now > MaxHeader)
  <2>1. header' = Probing
    BY <1>3, <1>8 DEF AfterProbe
  <2> QED BY <1>1, <1>2, <1>3, <1>4, <1>8, <2>1
          DEF HeaderInv, HeaderTypeOK, HeaderWhole, csv_object, FirstLine, Probing, NewlineIn
<1> QED BY <1>5, <1>6, <1>7, <1>8

(* The same of a body that is read chunk by chunk.                         *)
LEMMA ReadChunkKeeps == HeaderInv /\ ReadChunk => HeaderInv'
<1> SUFFICES ASSUME HeaderInv, ReadChunk PROVE HeaderInv'
  OBVIOUS
<1>1. /\ size \in Nat /\ nl \in 0 .. size /\ buf \in Nat /\ buf <= size /\ buf <= MaxHeader
      /\ size <= MaxSize /\ MaxSize \in Nat /\ ProbeBytes \in Nat \ {0} /\ MaxHeader \in Nat
      /\ ~NewlineIn(buf) /\ failed \in BOOLEAN /\ HeaderTypeOK
  BY Sizes DEF HeaderInv, HeaderTypeOK, ReadChunk
<1>2. /\ buf' \in Nat /\ buf' <= size /\ buf' <= MaxHeader + ProbeBytes
      /\ buf' = buf => buf' = size
  BY <1>1 DEF ReadChunk, Lesser
<1>3. UNCHANGED <<csv_object, failed>>
  BY DEF ReadChunk
<1>4. CASE buf' = buf \/ NewlineIn(buf') \/ buf' > MaxHeader
  <2>1. header' = Extract(buf')
    BY <1>4 DEF ReadChunk
  <2>2. /\ Extract(buf').state \in {"line", "error"}
        /\ Extract(buf') \in [state : {"probing", "line", "error"}, length : 0 .. MaxSize]
        /\ Extract(buf').state = "line" => Extract(buf').length = FirstLine
        /\ nl > 0 => (Extract(buf').state = "line" <=> FirstLine <= MaxHeader)
    BY <1>1, <1>2, <1>4, ExtractIsFirstLine
  <2> QED BY <1>1, <1>2, <1>3, <2>1, <2>2
          DEF HeaderInv, HeaderTypeOK, HeaderWhole, csv_object, FirstLine, Probing
<1>5. CASE ~(buf' = buf \/ NewlineIn(buf') \/ buf' > MaxHeader)
  <2>1. header' = Probing
    BY <1>5 DEF ReadChunk
  <2> QED BY <1>1, <1>2, <1>3, <1>5, <2>1
          DEF HeaderInv, HeaderTypeOK, HeaderWhole, csv_object, FirstLine, Probing, NewlineIn
<1> QED BY <1>4, <1>5

LEMMA HeaderKeeps == HeaderInv /\ FetchHeaderLine => HeaderInv'
<1>1. HeaderInv /\ Unsatisfiable => HeaderInv'
  BY Sizes
     DEF HeaderInv, HeaderTypeOK, HeaderWhole, csv_object, FirstLine, Probing, Raised, Line,
         NewlineIn, Unsatisfiable
<1>2. HeaderInv /\ RequestFails => HeaderInv'
  BY Sizes
     DEF HeaderInv, HeaderTypeOK, HeaderWhole, csv_object, FirstLine, Probing, Raised,
         RequestFails
<1> QED BY <1>1, <1>2, ProbeKeeps, ReadChunkKeeps DEF FetchHeaderLine

(* Full probes add up to whole probes.                                     *)
LEMMA OneProbeMore ==
  ASSUME NEW b \in Nat, WholeProbes(b)
  PROVE  WholeProbes(b + ProbeBytes)
<1>1. PICK n \in 0 .. b : b = n * ProbeBytes
  BY DEF WholeProbes
<1>2. b + ProbeBytes = (n + 1) * ProbeBytes /\ n + 1 \in 0 .. b + ProbeBytes
  BY <1>1, Sizes
<1> QED BY <1>2 DEF WholeProbes

(* Without a newline in b bytes of which there are more than the limit the *)
(* line is too long, and Extract measures the line itself.                 *)
LEMMA TooLong ==
  ASSUME NEW b \in Nat, HeaderTypeOK, b <= size
  PROVE  /\ ~NewlineIn(b) /\ b > MaxHeader => LineTooLong
         /\ NewlineIn(b) \/ b = size \/ b > MaxHeader =>
              Extract(b) # Probing /\ (Extract(b).state # "line" => LineTooLong)
<1> USE Sizes DEF HeaderTypeOK, Extract, Raised, Line, FirstLine, NewlineIn, LineTooLong, Probing
<1>1. CASE nl \in 1 .. b
  BY <1>1
<1>2. CASE nl \notin 1 .. b
  BY <1>2
<1> QED BY <1>1, <1>2

(* A header is refused for a reason: see GateMatchesRun.                   *)
LEMMA RaisedKeeps == HeaderInv /\ RaisedInv /\ FetchHeaderLine => RaisedInv'
<1> SUFFICES ASSUME HeaderInv, RaisedInv, FetchHeaderLine PROVE RaisedInv'
  OBVIOUS
<1>1. /\ HeaderTypeOK /\ size \in Nat /\ nl \in 0 .. size /\ buf \in Nat /\ buf <= size
      /\ ProbeBytes \in Nat \ {0} /\ MaxHeader \in Nat /\ failed \in BOOLEAN
      /\ header = Probing /\ ~NewlineIn(buf)
  BY Sizes
     DEF HeaderInv, HeaderTypeOK, FetchHeaderLine, Probe, Unsatisfiable, ReadChunk, RequestFails
<1>2. /\ UNCHANGED csv_object
      /\ LineTooLong' <=> LineTooLong
      /\ EndsOnProbe' <=> EndsOnProbe
  BY DEF FetchHeaderLine, Probe, Unsatisfiable, ReadChunk, RequestFails, csv_object,
         LineTooLong, EndsOnProbe, FirstLine, WholeProbes
<1>3. CASE Probe
  <2> DEFINE read == Lesser(ProbeBytes, size - buf)
             now  == buf + read
  <2>1. /\ now \in Nat /\ now <= size /\ (read < ProbeBytes \/ read = ProbeBytes)
        /\ read < ProbeBytes => now = size
    BY <1>1, <1>3 DEF Probe, Lesser
  <2>2. buf' = now /\ header' = AfterProbe(read, now) /\ server # "whole" /\ WholeProbes(buf)
    BY <1>1, <1>3 DEF Probe, RaisedInv
  <2>3. read = ProbeBytes => WholeProbes(now)
    BY <1>1, <2>2, OneProbeMore
  <2>4. WholeProbes(now) => WholeProbes(buf)'
    BY <2>2 DEF WholeProbes
  <2> HIDE DEF read, now
  <2>5. CASE NewlineIn(now)
    <3>1. header' = Extract(now)
      BY <2>2, <2>5 DEF AfterProbe
    <3> QED BY <1>1, <1>2, <2>1, <2>5, <3>1, TooLong DEF RaisedInv, Probing
  <2>6. CASE ~NewlineIn(now) /\ read < ProbeBytes
    <3>1. header' = Line(now)
      BY <2>2, <2>6 DEF AfterProbe
    <3> QED BY <3>1 DEF RaisedInv, Line, Probing
  <2>7. CASE ~NewlineIn(now) /\ ~(read < ProbeBytes)
    <3>1. header' = IF now > MaxHeader THEN Raised ELSE Probing
      BY <2>2, <2>7 DEF AfterProbe
    <3> QED BY <1>1, <1>2, <2>1, <2>3, <2>4, <2>7, <3>1, TooLong DEF RaisedInv, Raised, Probing
  <2> QED BY <2>5, <2>6, <2>7
<1>4. CASE Unsatisfiable
  <2>1. /\ server # "whole" /\ nl = 0 /\ WholeProbes(size)
        /\ header' \in {Line(0), Raised}
    BY <1>1, <1>4 DEF Unsatisfiable, RaisedInv, NewlineIn
  <2> QED BY <1>2, <2>1 DEF RaisedInv, EndsOnProbe, Line, Raised, Probing
<1>5. CASE ReadChunk
  <2>1. /\ buf' \in Nat /\ buf' <= size /\ (buf' = buf => buf' = size) /\ server' = "whole"
        /\ header' = IF buf' = buf \/ NewlineIn(buf') \/ buf' > MaxHeader
                       THEN Extract(buf') ELSE Probing
    BY <1>1, <1>5 DEF ReadChunk, Lesser, csv_object
  <2> QED BY <1>1, <1>2, <2>1, TooLong DEF RaisedInv
<1>6. CASE RequestFails
  BY <1>6 DEF RequestFails, RaisedInv, Raised, Probing
<1> QED BY <1>3, <1>4, <1>5, <1>6 DEF FetchHeaderLine

-----------------------------------------------------------------------------
(* Where a declared name is among the produced ones, Named finds it.       *)
LEMMA NamedIsThere ==
  ASSUME NEW columns, NEW name \in Names(columns), NEW k, k = Named(columns, name)
  PROVE  k \in DOMAIN columns /\ columns[k].name = name
BY DEF Names, Named

(* A table that conforms has for each declared column one of its name.     *)
LEMMA ConformingIsNamed ==
  ASSUME NEW table, NEW columns, NEW extra, Conforms(table, columns, extra),
         NEW i \in DOMAIN columns,
         NEW k, k = Named(table, columns[i].name)
  PROVE  /\ k \in DOMAIN table /\ table[k].name = columns[i].name
         /\ \A j \in DOMAIN table : table[j].name = columns[i].name => j = k
         /\ ValueConforms(table[k], columns[i])
<1>1. columns[i].name \in Names(table)
  BY DEF Conforms, NamesConform, Names
<1>2. k \in DOMAIN table /\ table[k].name = columns[i].name
  BY <1>1, NamedIsThere
<1>3. Distinct(table) /\ ValueConforms(table[k], columns[i])
  BY DEF Conforms, NamesConform
<1> QED BY <1>2, <1>3 DEF Distinct

(* Names(AsTable(n)) are the names of the header n.                        *)
LEMMA HeaderAsTable ==
  ASSUME NEW n
  PROVE  Names(AsTable(n)) = {n[i] : i \in DOMAIN n}
<1>1. DOMAIN AsTable(n) = DOMAIN n /\ \A i \in DOMAIN n : AsTable(n)[i].name = n[i]
  BY DEF AsTable
<1> QED BY <1>1 DEF Names

-----------------------------------------------------------------------------
LEMMA NodeStarts == NodeInit => NodeInv
<1> SUFFICES ASSUME NodeInit PROVE NodeInv
  OBVIOUS
<1>1. NodeTypes
  <2>1. <<>> \in Seq(Column) /\ <<>> \in Seq(ColumnName)
    OBVIOUS
  <2>2. stage \in Stages
    BY DEF NodeInit, Stages
  <2> QED BY <2>1, <2>2, Zenon DEF NodeInit, NodeTypes
<1>2. HeaderInv /\ RaisedInv
  <2>1. WholeProbes(0)
    BY Sizes DEF WholeProbes
  <2> QED BY <2>1, HeaderStarts DEF NodeInit, HeaderInit, RaisedInv, Probing
<1>3. PromotedInv /\ FilledInv /\ ShapeInv
  BY DEF NodeInit, PromotedInv, FilledInv, ShapeInv
<1> QED BY <1>1, <1>2, <1>3 DEF NodeInv

(* read_csv yields columns of the names and types the types allow.         *)
LEMMA ParsedIsTable ==
  ASSUME NodeTypes, NEW values \in [DOMAIN names -> {"fine", "null", "long"}]
  PROVE  Parsed(values) \in Seq(Column)
<1>1. names \in Seq(ColumnName) /\ declared \in Seq(OutputColumn)
  BY ColumnsAssumption DEF NodeTypes
<1>2. ASSUME NEW i \in DOMAIN names
      PROVE  Parsed(values)[i] \in Column
  <2>1. names[i] \in ColumnName /\ values[i] \in {"fine", "null", "long"}
    BY <1>1
  <2>2. ASSUME names[i] \in Names(declared)
        PROVE  declared[Named(declared, names[i])].type \in Types
    <3>1. Named(declared, names[i]) \in DOMAIN declared
      BY <2>2, NamedIsThere
    <3>2. declared[Named(declared, names[i])] \in OutputColumn
      BY <1>1, <3>1
    <3>3. \A c \in OutputColumn : c.type \in Types
      BY DEF OutputColumn
    <3> QED BY <3>2, <3>3, Zenon
  <2>3. (IF names[i] \in Names(declared)
           THEN declared[Named(declared, names[i])].type ELSE "varchar") \in SourceTypes
    BY <2>2 DEF Types, SourceTypes
  <2> QED BY <2>1, <2>3 DEF Parsed, Column
<1>3. Parsed(values) = [i \in DOMAIN names |-> Parsed(values)[i]]
  BY Zenon DEF Parsed
<1>4. DOMAIN names = 1 .. Len(names) /\ Len(names) \in Nat
  BY <1>1
<1>5. Parsed(values) \in [1 .. Len(names) -> Column]
  BY <1>2, <1>3, <1>4, Zenon
<1>6. \A n \in Nat : \A f \in [1 .. n -> Column] : f \in Seq(Column)
  OBVIOUS
<1> QED BY <1>4, <1>5, <1>6, Zenon

(* What csv.reader reads in a first line is a list of names.               *)
LEMMA ReadNamesAreNames == NodeTypes /\ ReadFirstLine => spelled' \in Seq(ColumnName)
<1> SUFFICES ASSUME NodeTypes, ReadFirstLine PROVE spelled' \in Seq(ColumnName)
  OBVIOUS
<1>1. names \in Seq(ColumnName)
  <2>1. names \in Headers \cup {<<>>} /\ Headers \subseteq Seq(ColumnName)
    BY ColumnsAssumption, Zenon DEF NodeTypes
  <2>2. <<>> \in Seq(ColumnName)
    OBVIOUS
  <2> QED BY <2>1, <2>2, Zenon
<1>2. ASSUME NEW k \in DOMAIN names, NEW n \in ColumnName
      PROVE  Append(SubSeq(names, 1, k - 1), n) \in Seq(ColumnName)
  <2>1. k \in 1 .. Len(names)
    BY <1>1
  <2>2. SubSeq(names, 1, k - 1) \in Seq(ColumnName)
    BY <1>1, <2>1
  <2> QED BY <2>2
<1> QED BY <1>1, <1>2, Zenon DEF ReadFirstLine

LEMMA NodeTypesStep == NodeTypes /\ [NodeNext]_node => NodeTypes'
<1> SUFFICES ASSUME NodeTypes, [NodeNext]_node PROVE NodeTypes'
  OBVIOUS
<1> USE DEF NodeTypes, contract, source_csv, Stages
<1>1. CASE FetchHeader
  BY <1>1 DEF FetchHeader
<1>2. CASE GateHeader
  <2>1. spelled' \in Seq(ColumnName)
    BY <1>2, ReadNamesAreNames DEF GateHeader
  <2> QED BY <1>2, <2>1 DEF GateHeader
<1>3. CASE SourceChanges
  BY <1>3 DEF SourceChanges
<1>4. CASE ProduceCsv
  <2>1. produced' \in Seq(Column)
    BY <1>4, ParsedIsTable DEF ProduceCsv
  <2> QED BY <1>4, <2>1 DEF ProduceCsv
<1>5. CASE ProduceScript
  BY <1>5, ColumnsAssumption DEF ProduceScript
<1>6. CASE Conform
  BY <1>6 DEF Conform
<1>7. CASE CheckShape
  BY <1>7 DEF CheckShape
<1>8. CASE UNCHANGED node
  BY <1>8 DEF node
<1> QED BY <1>1, <1>2, <1>3, <1>4, <1>5, <1>6, <1>7, <1>8 DEF NodeNext

(* The gate decides by the names it parses; nobody decides again.          *)
LEMMA GateStepKeeps ==
  NodeTypes /\ PromotedInv /\ [NodeNext]_node => PromotedInv'
<1> SUFFICES ASSUME NodeTypes, PromotedInv, [NodeNext]_node PROVE PromotedInv'
  OBVIOUS
<1> USE DEF PromotedInv, contract, source_csv, probe
<1>1. CASE FetchHeader
  BY <1>1 DEF FetchHeader
<1>2. CASE GateHeader
  <2>1. /\ stage' \in {"promoted", "refused"} /\ kind = "csv" /\ ~changed /\ header # Probing
        /\ UNCHANGED <<kind, declared, header, first, names, changed>>
    BY <1>2 DEF GateHeader
  <2>2. stage' = "refused" =>
          \/ header.state # "line" \/ first \notin {"plain", "split"}
          \/ /\ ReadFirstLine /\ first \in {"plain", "split"}
             /\ MissingFromHeader(spelled', declared) # {}
    BY <1>2 DEF GateHeader
  <2>3. stage' = "promoted" =>
          /\ ReadFirstLine /\ first \in {"plain", "split"}
          /\ MissingFromHeader(spelled', declared) = {}
    BY <1>2 DEF GateHeader
  <2>4. first = "plain" /\ ReadFirstLine => spelled' = names
    BY DEF ReadFirstLine
  <2> HIDE DEF PromotedInv
  <2>5. (MissingFromHeader(spelled, declared))' = MissingFromHeader(spelled', declared)
    BY <2>1 DEF MissingFromHeader, Names
  <2>6. first \in Shapes
    BY DEF NodeTypes
  <2> QED BY <2>1, <2>2, <2>3, <2>4, <2>5, <2>6 DEF PromotedInv, Shapes
<1>3. CASE SourceChanges
  BY <1>3 DEF SourceChanges
<1>4. CASE ProduceCsv
  BY <1>4 DEF ProduceCsv
<1>5. CASE ProduceScript
  BY <1>5 DEF ProduceScript
<1>6. CASE Conform
  BY <1>6 DEF Conform
<1>7. CASE CheckShape
  BY <1>7 DEF CheckShape
<1>8. CASE UNCHANGED node
  BY <1>8 DEF node
<1> QED BY <1>1, <1>2, <1>3, <1>4, <1>5, <1>6, <1>7, <1>8 DEF NodeNext

(* Only a table that conforms is selected, and it stays as it is.          *)
LEMMA FilledStep == FilledInv /\ [NodeNext]_node => FilledInv'
<1> SUFFICES ASSUME FilledInv, [NodeNext]_node PROVE FilledInv'
  OBVIOUS
<1> USE DEF FilledInv, contract, source_csv, Filled
<1>1. CASE FetchHeader
  BY <1>1 DEF FetchHeader
<1>2. CASE GateHeader
  BY <1>2 DEF GateHeader
<1>3. CASE SourceChanges
  BY <1>3 DEF SourceChanges
<1>4. CASE ProduceCsv
  BY <1>4 DEF ProduceCsv
<1>5. CASE ProduceScript
  BY <1>5 DEF ProduceScript
<1>6. CASE Conform
  BY <1>6 DEF Conform
<1>7. CASE CheckShape
  BY <1>7 DEF CheckShape
<1>8. CASE UNCHANGED node
  BY <1>8 DEF node
<1> QED BY <1>1, <1>2, <1>3, <1>4, <1>5, <1>6, <1>7, <1>8 DEF NodeNext

(* The live columns are read once, and shape_diff decides on them.         *)
LEMMA ShapeStep == NodeTypes /\ ShapeInv /\ [NodeNext]_node => ShapeInv'
<1> SUFFICES ASSUME NodeTypes, ShapeInv, [NodeNext]_node PROVE ShapeInv'
  OBVIOUS
<1> USE DEF ShapeInv, contract, source_csv
<1>1. CASE FetchHeader
  BY <1>1 DEF FetchHeader
<1>2. CASE GateHeader
  BY <1>2 DEF GateHeader
<1>3. CASE SourceChanges
  BY <1>3 DEF SourceChanges
<1>4. CASE ProduceCsv
  BY <1>4 DEF ProduceCsv
<1>5. CASE ProduceScript
  BY <1>5 DEF ProduceScript
<1>6. CASE Conform
  BY <1>6 DEF Conform
<1>7. CASE CheckShape
  BY <1>7 DEF CheckShape
<1>8. CASE UNCHANGED node
  BY <1>8 DEF node
<1> QED BY <1>1, <1>2, <1>3, <1>4, <1>5, <1>6, <1>7, <1>8 DEF NodeNext

LEMMA HeaderStepKeeps == HeaderInv /\ [NodeNext]_node => HeaderInv'
<1> SUFFICES ASSUME HeaderInv, [NodeNext]_node PROVE HeaderInv'
  OBVIOUS
<1>1. CASE FetchHeader
  BY <1>1, HeaderKeeps DEF FetchHeader
<1>2. CASE UNCHANGED probe
  BY <1>2 DEF HeaderInv, HeaderTypeOK, HeaderWhole, NewlineIn, FirstLine, probe, csv_object
<1> QED BY <1>1, <1>2
        DEF NodeNext, node, GateHeader, SourceChanges, ProduceCsv, ProduceScript, Conform,
            CheckShape

LEMMA RaisedStepKeeps == HeaderInv /\ RaisedInv /\ [NodeNext]_node => RaisedInv'
<1> SUFFICES ASSUME HeaderInv, RaisedInv, [NodeNext]_node PROVE RaisedInv'
  OBVIOUS
<1>1. CASE FetchHeader
  BY <1>1, RaisedKeeps DEF FetchHeader
<1>2. CASE UNCHANGED probe
  BY <1>2 DEF RaisedInv, LineTooLong, EndsOnProbe, WholeProbes, FirstLine, probe, csv_object
<1> QED BY <1>1, <1>2
        DEF NodeNext, node, GateHeader, SourceChanges, ProduceCsv, ProduceScript, Conform,
            CheckShape

(* The inductive invariant of a node: the header's probes, the gate, the   *)
(* conformed table and the live table each keep their part of it.          *)
THEOREM NodeInvariant == NodeSpec => []NodeInv
<1>1. NodeInv /\ [NodeNext]_node => NodeInv'
  BY HeaderStepKeeps, RaisedStepKeeps, NodeTypesStep, GateStepKeeps, FilledStep, ShapeStep DEF NodeInv
<1> QED BY NodeStarts, <1>1, PTL DEF NodeSpec

-----------------------------------------------------------------------------
(* NodeTypeCorrect: every variable stays in its type; fetch_header_line    *)
(* never holds more than the limit and one probe in memory, and what a     *)
(* declared column is filled from is a column of the produced table.       *)
THEOREM NodeTypeCorrect == NodeSpec => []NodeTypeOK
<1>1. NodeInv => NodeTypeOK
  <2> SUFFICES ASSUME NodeInv PROVE NodeTypeOK
    OBVIOUS
  <2>1. ASSUME filled # <<>>
        PROVE  DOMAIN filled \subseteq DOMAIN declared
               /\ \A i \in DOMAIN filled : filled[i] \in DOMAIN produced
    <3>1. Filled
      BY <2>1 DEF NodeInv, FilledInv
    <3>2. DOMAIN filled = DOMAIN declared
          /\ \A i \in DOMAIN declared : filled[i] = Named(produced, declared[i].name)
      BY <3>1 DEF Filled, Selected
    <3> QED BY <3>1, <3>2, ConformingIsNamed DEF Filled
  <2>2. ASSUME filled = <<>>
        PROVE  DOMAIN filled = {}
    BY <2>2
  <2> QED BY <2>1, <2>2 DEF NodeInv, HeaderInv, NodeTypes, NodeTypeOK
<1> QED BY NodeInvariant, <1>1, PTL

(* fetch_header_line returns the object's whole first line wherever the    *)
(* probes cut it, and a terminated line exactly when it is within the      *)
(* limit, for every probe size, limit and object.                          *)
THEOREM HeaderWholeHolds == NodeSpec => []HeaderWhole
<1>1. NodeInv => HeaderWhole
  BY DEF NodeInv, HeaderInv
<1> QED BY NodeInvariant, <1>1, PTL

(* The gate and the run, each with a parser of its own, differ on a source *)
(* that was not replaced only where its first line is not plain, is over   *)
(* the limit or could not be read, and in what the gate does not look at.  *)
THEOREM GateMatchesRunHolds == NodeSpec => []GateMatchesRun
<1>1. NodeInv => GateMatchesRun
  <2> SUFFICES ASSUME NodeInv, kind = "csv", stage # "gate", ~changed
               PROVE  IF stage = "refused"
                        THEN \/ ~NamesConform(AsTable(names), declared, "warn")
                             \/ first # "plain" \/ failed \/ LineTooLong \/ EndsOnProbe
                        ELSE \/ NamesConform(AsTable(names), declared, "warn")
                             \/ ~Distinct(AsTable(names)) \/ first = "split"
    BY DEF GateMatchesRun, LineTooLong, EndsOnProbe
  <2>1. MissingFromHeader(names, declared) = {} <=> Names(declared) \subseteq Names(AsTable(names))
    BY HeaderAsTable DEF MissingFromHeader
  <2>2. NamesConform(AsTable(names), declared, "warn") <=>
          Distinct(AsTable(names)) /\ Names(declared) \subseteq Names(AsTable(names))
    BY DEF NamesConform
  <2>3. ASSUME stage = "refused", first = "plain"
        PROVE  MissingFromHeader(names, declared) # {} \/ failed \/ LineTooLong \/ EndsOnProbe
    <3>1. header # Probing /\ header.state # "line" => failed \/ LineTooLong \/ EndsOnProbe
      BY DEF NodeInv, RaisedInv
    <3> QED BY <2>3, <3>1 DEF NodeInv, PromotedInv
  <2>4. ASSUME stage # "refused", first # "split"
        PROVE  MissingFromHeader(names, declared) = {}
    BY <2>4 DEF NodeInv, PromotedInv
  <2> QED BY <2>1, <2>2, <2>3, <2>4
<1> QED BY NodeInvariant, <1>1, PTL

(* The casts that change values and that conform lets through.             *)
LEMMA LetThroughIsUnguarded ==
  ASSUME NEW source_type, NEW target_type,
         CastChanges(source_type, target_type), ~RejectLossyCast(source_type, target_type)
  PROVE  <<source_type, target_type>> \in Unguarded
BY DEF CastChanges, RejectLossyCast, Unguarded

(* Whatever table conform is given, what is written fills each declared    *)
(* column from the one of its name, with no value the contract excludes;   *)
(* of the casts that change values only three reach a write.               *)
THEOREM WrittenIsDeclaredHolds == NodeSpec => []WrittenIsDeclared
<1>1. NodeInv => WrittenIsDeclared
  <2> SUFFICES ASSUME NodeInv, stage = "written", NEW i \in DOMAIN declared,
                      NEW from, from = produced[filled[i]]
               PROVE  /\ from.name = declared[i].name
                      /\ \A j \in DOMAIN produced :
                           produced[j].name = from.name => j = filled[i]
                      /\ from.values = "null" => declared[i].nullable
                      /\ from.values = "long" => declared[i].type # "varchar"
                      /\ from.values = "inexact" =>
                           <<from.type, declared[i].type>> \in Unguarded
    BY DEF WrittenIsDeclared
  <2>1. Filled
    BY DEF NodeInv, FilledInv
  <2>2. filled[i] = Named(produced, declared[i].name)
    BY <2>1 DEF Filled, Selected
  <2>3. /\ from.name = declared[i].name
        /\ \A j \in DOMAIN produced : produced[j].name = declared[i].name => j = filled[i]
        /\ ValueConforms(from, declared[i])
    BY <2>1, <2>2, ConformingIsNamed DEF Filled
  <2>4. from.values = "inexact" => <<from.type, declared[i].type>> \in Unguarded
    BY <2>3, LetThroughIsUnguarded DEF ValueConforms
  <2> QED BY <2>3, <2>4 DEF ValueConforms
<1> QED BY NodeInvariant, <1>1, PTL

(* shape_diff lets only tables pass whose columns pair with the declared   *)
(* ones, and every table with exactly those: for any number of columns in  *)
(* any order, also when names fold together.                               *)
THEOREM DriftIsSeenHolds == NodeSpec => []DriftIsSeen
<1>1. NodeInv => DriftIsSeen
  <2> SUFFICES ASSUME NodeInv, live # <<>>
               PROVE  /\ stage = "written" => Matches(Fold)
                      /\ stage = "failed"  => ~Matches(Exact)
    BY DEF DriftIsSeen
  <2>1. /\ declared \in Seq(OutputColumn) /\ live \in Seq(LiveColumn) /\ Distinct(declared)
        /\ stage = "failed" <=> ShapeDiffers(declared, live)
    BY ColumnsAssumption DEF NodeInv, NodeTypes, ShapeInv
  <2>2. ASSUME stage = "written" PROVE Matches(Fold)
    <3>1. PICK p : p = Pairing(declared, live)
      OBVIOUS
    <3>2. /\ Len(declared) = Len(live) /\ p \in [DOMAIN declared -> DOMAIN live]
          /\ Pairs(p, declared, live, Fold)
      BY <2>1, <2>2, <3>1, PassedIsPaired
    <3> QED BY <3>2 DEF Matches
  <2>3. ASSUME stage = "failed", Matches(Exact) PROVE FALSE
    BY <2>1, <2>3, OwnColumnsPass DEF Matches
  <2> QED BY <2>2, <2>3
<1> QED BY NodeInvariant, <1>1, PTL

-----------------------------------------------------------------------------
(* The two models of the csv gate are one: what the runner's source stands *)
(* for is computed by the gate of CsvNode from the line and its names.     *)
Verdict(line, shape, read) ==
  IF line.state # "line" \/ shape = "broken" THEN "unreadable"
  ELSE IF shape = "blank" THEN "headerless"
  ELSE IF MissingFromHeader(read, declared) # {} THEN "missing_column"
  ELSE IF {read[i] : i \in DOMAIN read} \subseteq Names(declared)
    THEN "conforms" ELSE "extra_column"

(* main goes on to the binds and the build exactly when the header it has  *)
(* fetched promotes the source.                                            *)
THEOREM GatesAgree ==
  ASSUME first \in Shapes, GateHeader, CheckHeader, source = Verdict(header, first, spelled')
  PROVE  stage' = "promoted" <=> pc' = "binds"
<1>1. CASE header.state = "line" /\ first \in {"plain", "split"}
  BY <1>1 DEF GateHeader, CheckHeader, Verdict
<1>2. CASE ~(header.state = "line" /\ first \in {"plain", "split"})
  BY <1>2 DEF GateHeader, CheckHeader, Verdict, Shapes
<1> QED BY <1>1, <1>2
=============================================================================
