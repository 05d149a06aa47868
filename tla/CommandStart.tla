------------------------------ MODULE CommandStart ------------------------------
(***************************************************************************)
(* check-pg-queries from its start to the end of the query log: Run reads  *)
(* the rules and the schema, opens the pool (YdbPoolOpen), opens the log,  *)
(* and starts the reader that the flags ask for (QuerySource).             *)
(***************************************************************************)
EXTENDS YdbPoolOpen, QuerySource

VARIABLE phase      \* "load", "connect", "open", "read" or "fatal"

startVars == <<openVars, sourceVars, phase>>

StartInit ==
  /\ OpenInit
  /\ phase = "load"
  /\ log = <<>> /\ flags \in Flags
  /\ pc = "read" /\ at = 1 /\ counter = 0 /\ kept = {} /\ queue = <<>> /\ sent = <<>>

(* The rules and the schema dump; a file that cannot be read ends it all. *)
LoadFiles ==
  /\ phase = "load"
  /\ phase' \in {"connect", "fatal"}
  /\ UNCHANGED <<openVars, sourceVars>>

OpenPool(e) == phase = "connect" /\ Open(e) /\ UNCHANGED <<sourceVars, phase>>

(* OpenYdbPool returns, or ends the process without a driver. *)
PoolOpened ==
  /\ phase = "connect" /\ MakePool
  /\ phase' = IF opener' = "fatal" THEN "fatal" ELSE "open"
  /\ UNCHANGED sourceVars

(* openFileReader: the log has any contents, or cannot be opened. *)
OpenLog ==
  /\ phase = "open"
  /\ \/ phase' = "read" /\ log' \in Logs
     \/ phase' = "fatal" /\ UNCHANGED log
  /\ UNCHANGED <<openVars, flags, pc, at, counter, kept, queue, sent>>

ReadLog == phase = "read" /\ Read /\ UNCHANGED <<openVars, phase>>

Over == phase = "fatal" \/ pc \in {"closed", "panic"}

StartNext ==
  \/ LoadFiles \/ PoolOpened \/ OpenLog \/ ReadLog
  \/ \E e \in Endpoints : OpenPool(e)
  \/ Over /\ UNCHANGED startVars

(* Run goes on whenever it can, so does every goroutine; ydb.Open ends in  *)
(* ten seconds, and the checkers receive until the channel is closed.      *)
StartSpec ==
  /\ StartInit /\ [][StartNext]_startVars
  /\ WF_startVars(LoadFiles \/ PoolOpened \/ OpenLog \/ ReadLog)
  /\ \A e \in Endpoints : WF_startVars(OpenPool(e))

-----------------------------------------------------------------------------
(* The opener waits for every goroutine, each of which may wait for the    *)
(* mutex and may fail to connect, but not for ever.                        *)
OpenEnds == (phase = "connect") ~> (opener # "waiting")

(* The channel is closed, or the process has died: the checkers do not     *)
(* wait for ever on a log that can be read to its end, or under a limit.   *)
ReaderEnds ==
  (phase = "read" /\ (flags.limit > 0 \/ \A i \in DOMAIN log : log[i].kind # "broken"))
    ~> (pc \in {"closed", "panic"})
=============================================================================
