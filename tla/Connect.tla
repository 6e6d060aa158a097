------------------------------- MODULE Connect -------------------------------
(***************************************************************************)
(* from_env of the three adapters: up to five attempts to reach a host of  *)
(* several addresses, what each attempt leaves open, and the passfile that *)
(* holds the DuckLake catalog's password.  The client library tries the    *)
(* addresses in order until one accepts the connection.                    *)
(***************************************************************************)
EXTENDS Naturals

CONSTANTS
  Addresses,        \* how many addresses the host name has
  ConnectAttempts   \* _CONNECT_ATTEMPTS, _ATTACH_ATTEMPTS

ASSUME ConnectAssumption ==
  Addresses \in Nat \ {0} /\ ConnectAttempts \in Nat \ {0}

VARIABLES
  engine,
  at,          \* "start", "request", "attach", "connected" or "raised"
  attempt,
  open,        \* how many connections are open
  passfile,    \* "none", "kept" or "removed"
  timeouts     \* history: attempts that waited out a timeout for no answer

connection == <<engine, at, attempt, open, passfile, timeouts>>

ConnectTypeOK ==
  /\ engine \in {"postgres", "trino", "ducklake"}
  /\ at \in {"start", "request", "attach", "connected", "raised"}
  /\ attempt \in 1 .. ConnectAttempts
  /\ open \in Nat /\ passfile \in {"none", "kept", "removed"}
  /\ timeouts \in Nat

ConnectInit ==
  /\ engine \in {"postgres", "trino", "ducklake"}
  /\ at = "start" /\ attempt = 1 /\ open = 0
  /\ passfile = "none" /\ timeouts = 0

-----------------------------------------------------------------------------
(* What one attempt meets: every address refuses (or has no route), stays  *)
(* silent until the timeout, answers with an error, or lets the client in. *)

Host == [1 .. Addresses -> {"refuses", "silent", "rejects", "accepts"}]
Answered(host) == \E i \in 1 .. Addresses : host[i] \in {"rejects", "accepts"}
Tried(host) ==      \* the addresses up to the first one that answers
  {i \in 1 .. Addresses :
     \A j \in 1 .. i - 1 : host[j] \notin {"rejects", "accepts"}}
Waited(host)   == \E i \in Tried(host) : host[i] = "silent"
LetIn(host)    == \E i \in Tried(host) : host[i] = "accepts"

(* libpq reports every address; urllib3 raises the last one's error, so    *)
(* the Trino adapter also asks the clock.                                  *)
Unreachable_LastAddress(host) ==   \* fault: a failure's duration is not looked at
  ~Answered(host) /\ host[Addresses] = "refuses"

Unreachable(host) ==
  IF engine = "trino"
    THEN ~Answered(host) /\ host[Addresses] = "refuses" /\ ~Waited(host)
    ELSE \A i \in Tried(host) : host[i] = "refuses"

Remember(host) ==
  timeouts' = IF Waited(host) /\ ~Answered(host) THEN timeouts + 1 ELSE timeouts

GiveUp_KeepsPassfile ==        \* fault: the password stays on disk
  at' = "raised" /\ UNCHANGED <<attempt, passfile>>

GiveUp ==
  /\ at' = "raised"
  /\ passfile' = IF passfile = "kept" THEN "removed" ELSE passfile
  /\ UNCHANGED attempt

RetryOrGiveUp_OnceMore(retryable) ==   \* fault: the last attempt is retried too
  IF retryable /\ attempt <= ConnectAttempts
    THEN /\ at' = "request" /\ attempt' = attempt + 1
         /\ UNCHANGED passfile
    ELSE GiveUp

RetryOrGiveUp(retryable) ==
  IF retryable /\ attempt < ConnectAttempts
    THEN /\ at' = "request" /\ attempt' = attempt + 1
         /\ UNCHANGED passfile
    ELSE GiveUp

(* psycopg2.connect leaves nothing open when it fails.                     *)
ConnectPostgres ==
  /\ engine = "postgres" /\ at \in {"start", "request"}
  /\ \E host \in Host :
       /\ Remember(host)
       /\ IF LetIn(host)
            THEN /\ at' = "connected" /\ open' = open + 1
                 /\ UNCHANGED <<attempt, passfile>>
            ELSE RetryOrGiveUp(Unreachable(host)) /\ UNCHANGED open
  /\ UNCHANGED engine

(* The DBAPI connection, which sends no request yet, or a bad setting.     *)
UnconnectedTrino ==
  /\ engine = "trino" /\ at = "start"
  /\ \/ at' = "request" /\ open' = open + 1
     \/ at' = "raised" /\ UNCHANGED open
  /\ UNCHANGED <<engine, attempt, passfile, timeouts>>

(* SELECT 1; the adapter is closed by whatever failure is not retried.     *)
ConnectTrino ==
  /\ engine = "trino" /\ at = "request"
  /\ \E host \in Host :
       /\ Remember(host)
       /\ IF LetIn(host)
            THEN at' = "connected" /\ UNCHANGED <<attempt, passfile, open>>
            ELSE /\ RetryOrGiveUp(Unreachable(host))
                 /\ open' = IF at' = "raised" THEN open - 1 ELSE open
  /\ UNCHANGED engine

(* DuckLakeSettings.from_env may refuse; the password goes inline when it  *)
(* cannot be stored in a file.                                             *)
OpenPassfile ==
  /\ engine = "ducklake" /\ at = "start"
  /\ \/ at' = "request" /\ passfile' \in {"none", "kept"}
     \/ at' = "raised" /\ UNCHANGED passfile
  /\ UNCHANGED <<engine, attempt, open, timeouts>>

OpenDuckLake ==
  /\ engine = "ducklake" /\ at = "request"
  /\ at' = "attach" /\ open' = open + 1
  /\ UNCHANGED <<engine, attempt, passfile, timeouts>>

(* Extensions, secret, ATTACH, USE: a failed _open closes its connection.  *)
(* A reached catalog may fail the first ATTACH: it is being initialised by *)
(* another container (_is_first_attach_race), or for any other reason.     *)
AttachDuckLake ==
  /\ engine = "ducklake" /\ at = "attach"
  /\ \E host \in Host :
       /\ Remember(host)
       /\ \/ /\ LetIn(host) /\ at' = "connected"
             /\ UNCHANGED <<open, attempt, passfile>>
          \/ /\ LetIn(host) /\ open' = open - 1
             /\ \E raced \in BOOLEAN : RetryOrGiveUp(raced)
          \/ /\ ~LetIn(host) /\ open' = open - 1
             /\ RetryOrGiveUp(Unreachable(host))
  /\ UNCHANGED engine

ConnectStep ==
  \/ ConnectPostgres \/ UnconnectedTrino \/ ConnectTrino
  \/ OpenPassfile \/ OpenDuckLake \/ AttachDuckLake

(* adapter.close(): the session removes its passfile even when closing the *)
(* connection fails.                                                       *)
CloseConnection(fails) ==
  /\ at = "connected"
  /\ open' = IF fails THEN open ELSE open - 1
  /\ passfile' = IF passfile = "kept" THEN "removed" ELSE passfile
  /\ UNCHANGED <<engine, at, attempt, timeouts>>
-----------------------------------------------------------------------------
(* A silent server is waited for once: no attempt follows one that waited  *)
(* out a timeout and reached nobody, also where the client library reports *)
(* only the last of several addresses.                                     *)
AtMostOneTimeout == timeouts <= 1
=============================================================================
