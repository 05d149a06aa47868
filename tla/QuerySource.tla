----------------------------- MODULE QuerySource -----------------------------
(***************************************************************************)
(* The two readers of cmd/check_pg_queries.go that feed the channel of     *)
(* queries.  readSortedQueries streams a log that is already in order.     *)
(* With query-log-need-sort, readSessions first reads the whole log into   *)
(* nested maps (process, session, transaction, query), and extractQueries  *)
(* sends what they hold in the order of the keys.                          *)
(*                                                                         *)
(* A log is a sequence of JSON values.  A "record" has a key and tells     *)
(* whether its transaction succeeded; "mistyped" is a value that does not  *)
(* fit the record; at "broken" the decoder meets a syntax error, which it  *)
(* returns again on every later call; "cut" is the end of a file that was  *)
(* cut in the middle of a value.  A query is named by its place in the log. *)
(***************************************************************************)
EXTENDS Integers, Sequences, FiniteSets, SequencesExt

CONSTANTS Logs,     \* the logs considered
          Limits    \* values of requests-limit; 0 is unlimited

ASSUME QuerySourceAssumption ==
  /\ Limits \subseteq Nat
  /\ \A l \in Logs : /\ Len(l) \in Nat /\ DOMAIN l = 1..Len(l)
                     /\ \A i \in DOMAIN l : l[i].kind = "record" => l[i].key \in [1..4 -> Nat]

VARIABLES log,      \* the log that is read
          flags,    \* the flags of the command
          pc,       \* where the reader is
          at,       \* the place of the decoder
          counter,  \* what is compared with requests-limit
          kept,     \* sortedLogs: the places of the records in the maps
          queue,    \* the queries extractQueries has still to send
          sent      \* the queries received by the checkers, in order

sourceVars == <<log, flags, pc, at, counter, kept, queue, sent>>

Flags == [needSort : BOOLEAN, includeFailed : BOOLEAN, limit : Limits, progressEvery : {0, 1}]

SourceInit ==
  /\ log \in Logs
  /\ flags \in Flags
  /\ pc = "read"
  /\ at = 1
  /\ counter = 0
  /\ kept = {}
  /\ queue = <<>>
  /\ sent = <<>>

Kind(i) == IF i > Len(log) THEN "end" ELSE log[i].kind

(* Mutant of LimitReached: one query more. *)
LimitExceeded == flags.limit > 0 /\ counter > flags.limit

LimitReached == flags.limit > 0 /\ counter >= flags.limit

(* Without a limit the counter is only printed; it is kept modulo 2. *)
Bumped == IF flags.limit > 0 THEN counter + 1 ELSE 1 - counter

-----------------------------------------------------------------------------
(* readSortedQueries: the limit, the end of the log and any error end it;  *)
(* a record of a failed transaction is passed over.                        *)
StreamEnd ==
  /\ pc = "read" /\ ~flags.needSort
  /\ LimitReached \/ Kind(at) # "record"
  /\ pc' = "closed"
  /\ UNCHANGED <<log, flags, at, counter, kept, queue, sent>>

Passes(i) == flags.includeFailed \/ log[i].success

StreamSkip ==
  /\ pc = "read" /\ ~flags.needSort
  /\ ~LimitReached /\ Kind(at) = "record" /\ ~Passes(at)
  /\ at' = at + 1
  /\ UNCHANGED <<log, flags, pc, counter, kept, queue, sent>>

(* The query is sent, then counted, then the counter is divided by         *)
(* print-progress-every-queries, which panics when that is 0.              *)
StreamSend ==
  /\ pc = "read" /\ ~flags.needSort
  /\ ~LimitReached /\ Kind(at) = "record" /\ Passes(at)
  /\ sent' = Append(sent, at)
  /\ counter' = Bumped
  /\ at' = at + 1
  /\ pc' = IF flags.progressEvery = 0 THEN "panic" ELSE "read"
  /\ UNCHANGED <<log, flags, kept, queue>>

-----------------------------------------------------------------------------
(* readSessions counts every value it tries to decode, also the ones it    *)
(* cannot use.                                                             *)
SessionsEnd ==
  /\ pc = "read" /\ flags.needSort
  /\ LimitReached \/ Kind(at) \in {"end", "cut"}
  /\ pc' = "sort"
  /\ UNCHANGED <<log, flags, at, counter, kept, queue, sent>>

(* Mutant of SessionsError: only what could be decoded is counted. *)
SessionsErrorUncounted ==
  /\ pc = "read" /\ flags.needSort /\ ~LimitReached
  /\ Kind(at) \in {"mistyped", "broken"}
  /\ at' = IF Kind(at) = "broken" THEN at ELSE at + 1
  /\ UNCHANGED <<log, flags, pc, counter, kept, queue, sent>>

(* An error of Decode is logged and the loop goes on: past a mistyped      *)
(* value, but not past a syntax error.                                     *)
SessionsError ==
  /\ pc = "read" /\ flags.needSort /\ ~LimitReached
  /\ Kind(at) \in {"mistyped", "broken"}
  /\ counter' = Bumped
  /\ at' = IF Kind(at) = "broken" THEN at ELSE at + 1
  /\ UNCHANGED <<log, flags, pc, kept, queue, sent>>

(* The first record with a key stays; the others are duplicates. *)
IsDuplicate(i) == \E j \in kept : log[j].key = log[i].key

(* Mutant of SessionsRecord: a duplicate replaces what the map holds. *)
SessionsRecordReplaces ==
  /\ pc = "read" /\ flags.needSort /\ ~LimitReached
  /\ Kind(at) = "record"
  /\ counter' = Bumped
  /\ kept' = {i \in kept : log[i].key # log[at].key} \cup {at}
  /\ at' = at + 1
  /\ UNCHANGED <<log, flags, pc, queue, sent>>

SessionsRecord ==
  /\ pc = "read" /\ flags.needSort /\ ~LimitReached
  /\ Kind(at) = "record"
  /\ counter' = Bumped
  /\ kept' = IF IsDuplicate(at) THEN kept ELSE kept \cup {at}
  /\ at' = at + 1
  /\ UNCHANGED <<log, flags, pc, queue, sent>>

(* Keys are <<process, session, transaction, query>>. *)
Before(k, m) == \E j \in 1..4 : k[j] < m[j] /\ \A i \in 1..(j - 1) : k[i] = m[i]

(* transaction.Success starts as FALSE and is only ever set to FALSE. *)
TransactionSuccess(i) == FALSE

Extracted == {i \in kept : flags.includeFailed \/ TransactionSuccess(i)}

(* Mutant of Sorted: a map is ranged over without sorting its keys. *)
Scattered(places) == SetToSeqs(places)

(* The one list of the places in the order of their keys. *)
Sorted(places) ==
  {q \in [1..Cardinality(places) -> places] :
     \A m, n \in DOMAIN q : m < n => Before(log[q[m]].key, log[q[n]].key)}

SortSessions ==
  /\ pc = "sort"
  /\ queue' \in Sorted(Extracted)
  /\ pc' = "extract"
  /\ UNCHANGED <<log, flags, at, counter, kept, sent>>

(* extractQueries divides by print-progress-every-queries before it sends. *)
ExtractSend ==
  /\ pc = "extract" /\ queue # <<>>
  /\ IF flags.progressEvery = 0
     THEN pc' = "panic" /\ UNCHANGED <<queue, sent>>
     ELSE /\ sent' = Append(sent, Head(queue))
          /\ queue' = Tail(queue)
          /\ UNCHANGED pc
  /\ UNCHANGED <<log, flags, at, counter, kept>>

ExtractEnd ==
  /\ pc = "extract" /\ queue = <<>>
  /\ pc' = "closed"
  /\ UNCHANGED <<log, flags, at, counter, kept, queue, sent>>

-----------------------------------------------------------------------------
Read == \/ StreamEnd \/ StreamSkip \/ StreamSend
        \/ SessionsEnd \/ SessionsError \/ SessionsRecord
        \/ SortSessions \/ ExtractSend \/ ExtractEnd

SourceNext == Read \/ (pc \in {"closed", "panic"} /\ UNCHANGED sourceVars)

(* The reader is one goroutine that goes on whenever it can, and the       *)
(* checkers go on receiving until the channel is closed.                   *)
SourceSpec == SourceInit /\ [][SourceNext]_sourceVars /\ WF_sourceVars(Read)

-----------------------------------------------------------------------------
Sent == {sent[n] : n \in DOMAIN sent}

(* With query-log-need-sort the queries arrive in the order of their keys, *)
(* each key once, and the record that is sent is the first of its key: a   *)
(* duplicate never replaces it, wherever the limit falls.                  *)
SessionOrder ==
  flags.needSort =>
    /\ \A m, n \in DOMAIN sent : m < n => Before(log[sent[m]].key, log[sent[n]].key)
    /\ \A i \in Sent : \A j \in 1..(i - 1) : Kind(j) = "record" => log[j].key # log[i].key

(* requests-limit bounds the queries that are checked, in both modes. *)
LimitHolds == flags.limit > 0 => Len(sent) <= flags.limit

InOrder == /\ \A i \in DOMAIN log : log[i].kind = "record"
           /\ \A i, j \in DOMAIN log : i < j => Before(log[i].key, log[j].key)

(* The two readers agree: from a log that is in order, either of them      *)
(* sends every query, once and in the order of the log.                    *)
ReadersAgree ==
  pc = "closed" /\ InOrder /\ flags.includeFailed /\ flags.limit = 0 =>
    sent = [i \in DOMAIN log |-> i]

(* "Extract sessions with failed transactions", a flag: without it only    *)
(* the transactions with a failed query are left out.                      *)
Successful(i) ==
  \A j \in DOMAIN log : SubSeq(log[j].key, 1, 3) = SubSeq(log[i].key, 1, 3) => log[j].success

SuccessfulAreSent ==
  pc = "closed" /\ InOrder /\ flags.limit = 0 =>
    \A i \in DOMAIN log : Successful(i) => i \in Sent

(* "Sort query log in memory before start", with a bad line reported as    *)
(* "failed to parse line": whatever the log, the command starts.           *)
SortingEnds == <>(pc # "read")
=============================================================================
