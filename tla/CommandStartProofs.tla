--------------------------- MODULE CommandStartProofs ---------------------------
(***************************************************************************)
(* Proofs about the start of check-pg-queries: the pool has every driver   *)
(* that was opened, for any number of endpoints, and the readers keep the  *)
(* limit and the order, for any logs and limits.                           *)
(***************************************************************************)
EXTENDS CommandStart, FiniteSetTheorems, SequenceTheorems, WellFoundedInduction, TLAPS

(* The readers: a stream is bounded by what it counts, a sorted log by     *)
(* what was kept of it; what is sent are the first records of their keys.  *)
Places == {"read", "sort", "extract", "closed", "panic"}

SourceTypes ==
  /\ pc \in Places
  /\ flags \in Flags
  /\ at \in Nat /\ at > 0 /\ counter \in Int
  /\ kept \subseteq 1..(at - 1)
  /\ sent \in Seq(Nat) /\ queue \in Seq(Nat)

(* A stream is counted as it is sent; a log that is sorted is counted as   *)
(* it is read, and no more is sent than was kept.                          *)
CountInv ==
  /\ ~flags.needSort =>
       /\ pc \in {"read", "closed", "panic"}
       /\ flags.limit > 0 => Len(sent) = counter /\ counter <= flags.limit
  /\ flags.needSort =>
       /\ flags.limit > 0 => Cardinality(kept) <= counter /\ counter <= flags.limit
       /\ pc \in {"read", "sort"} => sent = <<>> /\ queue = <<>>
       /\ Len(sent) + Len(queue) <= Cardinality(kept)

(* Each record that was read has its key in the maps, under the first      *)
(* record of that key.                                                     *)
KeptInv ==
  flags.needSort =>
    /\ \A i \in kept : \A j \in 1..(i - 1) : Kind(j) = "record" => log[j].key # log[i].key
    /\ \A j \in 1..(at - 1) : Kind(j) = "record" => \E i \in kept : log[i].key = log[j].key

Ordered(list, places) ==
  \A m, n \in DOMAIN places : m < n => Before(list[places[m]].key, list[places[n]].key)

(* What was sent and what is still to be sent are kept records, in order.  *)
QueueInv ==
  flags.needSort =>
    /\ \A n \in DOMAIN sent : sent[n] \in kept
    /\ \A n \in DOMAIN queue : queue[n] \in kept
    /\ Ordered(log, sent \o queue)

SourceInv == SourceTypes /\ CountInv /\ KeptInv /\ QueueInv

(* Nothing was read of any log: the invariant holds. *)
Fresh ==
  /\ flags \in Flags
  /\ pc = "read" /\ at = 1 /\ counter = 0
  /\ kept = {} /\ queue = <<>> /\ sent = <<>>

LEMMA FreshSourceInv == Fresh => SourceInv
<1> SUFFICES ASSUME Fresh PROVE SourceInv
  OBVIOUS
<1>1. Cardinality({}) = 0
  BY FS_EmptySet
<1>2. flags.limit \in Nat
  BY QuerySourceAssumption DEF Fresh, QuerySourceAssumption, Flags
<1> QED
  BY <1>1, <1>2
  DEF Fresh, SourceInv, SourceTypes, Places, CountInv, KeptInv, QueueInv, Ordered

LEMMA KeptFinite ==
  ASSUME SourceTypes
  PROVE  /\ IsFiniteSet(kept) /\ Cardinality(kept) \in Nat
         /\ at \notin kept /\ Cardinality(kept \cup {at}) = Cardinality(kept) + 1
         /\ IsFiniteSet(Extracted) /\ Cardinality(Extracted) \in Nat
         /\ Cardinality(Extracted) <= Cardinality(kept)
<1>1. IsFiniteSet(1..(at - 1)) /\ at \notin kept /\ kept \subseteq 1..(at - 1)
  BY FS_Interval DEF SourceTypes
<1>2. IsFiniteSet(kept)
  BY <1>1, FS_Subset
<1>3. Extracted \subseteq kept
  BY DEF Extracted
<1> QED
  BY <1>1, <1>2, <1>3, FS_Subset, FS_CardinalityType, FS_AddElement

(* What was read, what is kept and what is sent stay as they are. *)
LEMMA KeptUntouched ==
  ASSUME KeptInv, UNCHANGED <<log, flags, at, kept>>
  PROVE  KeptInv'
<1>1. \A i : Kind(i)' = Kind(i)
  BY DEF Kind
<1> QED
  BY <1>1 DEF KeptInv

(* The stream: nothing is kept, and every query that is sent is counted.   *)
LEMMA StreamStepInv ==
  ASSUME SourceInv, StreamEnd \/ StreamSkip \/ StreamSend
  PROVE  SourceInv'
<1> USE DEF SourceInv
<1>1. ~flags.needSort /\ flags' = flags /\ kept' = kept /\ flags.limit \in Nat
  BY QuerySourceAssumption
  DEF StreamEnd, StreamSkip, StreamSend, SourceTypes, Flags, QuerySourceAssumption
<1>2. SourceTypes' /\ CountInv'
  <2>1. CASE StreamEnd
    BY <1>1, <2>1 DEF StreamEnd, SourceTypes, Places, CountInv
  <2>2. CASE StreamSkip
    BY <1>1, <2>2 DEF StreamSkip, SourceTypes, Places, CountInv
  <2>3. CASE StreamSend
    <3>1. /\ at \in Nat /\ at > 0 /\ kept \subseteq 1..(at - 1) /\ at' = at + 1
          /\ sent \in Seq(Nat) /\ sent' = Append(sent, at)
      BY <2>3 DEF StreamSend, SourceTypes
    <3>2. sent' \in Seq(Nat) /\ Len(sent') = Len(sent) + 1 /\ kept \subseteq 1..(at' - 1)
      BY <3>1
    <3>3. pc' \in {"read", "panic"} /\ counter' = Bumped /\ UNCHANGED queue /\ ~LimitReached
      BY <2>3 DEF StreamSend
    <3>4. counter' \in Int
      BY <3>3 DEF Bumped, SourceTypes
    <3> QED
      BY <1>1, <3>1, <3>2, <3>3, <3>4
      DEF SourceTypes, Places, CountInv, LimitReached, Bumped
  <2> QED
    BY <2>1, <2>2, <2>3
<1> QED
  BY <1>1, <1>2 DEF KeptInv, QueueInv

(* A value is tried, counted, and kept when it is the first of its key.    *)
LEMMA SessionsStepInv ==
  ASSUME SourceInv, SessionsEnd \/ SessionsError \/ SessionsRecord
  PROVE  SourceInv'
<1> USE DEF SourceInv
<1>1. /\ flags.needSort /\ flags' = flags /\ log' = log /\ flags.limit \in Nat
      /\ UNCHANGED <<sent, queue>> /\ sent = <<>> /\ queue = <<>> /\ Len(<<>>) = 0
  BY QuerySourceAssumption
  DEF SessionsEnd, SessionsError, SessionsRecord, SourceTypes, CountInv, Flags,
      QuerySourceAssumption
<1>2. kept' \in {kept, kept \cup {at}} /\ at' \in {at, at + 1}
      /\ (kept' # kept => SessionsRecord /\ ~IsDuplicate(at))
      /\ (at' # at /\ Kind(at) = "record" => SessionsRecord)
      /\ (SessionsRecord => at' = at + 1)
  BY DEF SessionsEnd, SessionsError, SessionsRecord
<1>3. PICK here \in Nat, next \in Nat : here = at /\ next = at'
  BY <1>2 DEF SourceTypes
<1>4. /\ here > 0 /\ (next = here \/ next = here + 1)
      /\ kept \subseteq 1..(here - 1) /\ kept' \subseteq kept \cup {here}
      /\ kept' # kept => next = here + 1
  BY <1>3, <1>2 DEF SourceTypes
<1>5. pc' \in {"read", "sort"} /\ counter' \in Int
      /\ (flags.limit > 0 => counter' \in {counter, counter + 1} /\ counter' <= flags.limit)
      /\ (kept' # kept => counter' = Bumped /\ at' = at + 1)
  <2>1. CASE SessionsEnd
    BY <1>1, <2>1 DEF SessionsEnd, SourceTypes, CountInv
  <2>2. CASE SessionsError
    BY <1>1, <2>2 DEF SessionsError, SourceTypes, LimitReached, Bumped
  <2>3. CASE SessionsRecord
    BY <1>1, <2>3 DEF SessionsRecord, SourceTypes, LimitReached, Bumped
  <2> QED
    BY <2>1, <2>2, <2>3
<1>6. SourceTypes' /\ CountInv'
  <2>1. kept' \subseteq 1..(next - 1)
    BY <1>4
  <2>2. SourceTypes'
    <3>1. at' \in Nat /\ at' > 0
      BY <1>3, <1>4
    <3>2. kept' \subseteq 1..(at' - 1)
      BY <1>3, <2>1
    <3> QED
      BY <1>1, <1>5, <3>1, <3>2 DEF SourceTypes, Places
  <2>3. /\ Cardinality(kept') \in Nat
        /\ flags.limit > 0 => Cardinality(kept') <= counter'
    <3>1. CASE kept' = kept
      BY <1>1, <1>5, <3>1, KeptFinite DEF SourceTypes, CountInv
    <3>2. CASE kept' # kept
      <4>1. Cardinality(kept') = Cardinality(kept) + 1 /\ Cardinality(kept) \in Nat
        BY <1>2, <3>2, KeptFinite
      <4>2. flags.limit > 0 => counter' = counter + 1 /\ Cardinality(kept) <= counter
        BY <1>1, <1>5, <3>2 DEF CountInv, Bumped
      <4> QED
        BY <4>1, <4>2 DEF SourceTypes
    <3> QED
      BY <3>1, <3>2
  <2> QED
    BY <1>1, <1>5, <2>2, <2>3 DEF CountInv
<1>7. KeptInv'
  <2>1. \A i : Kind(i)' = Kind(i)
    BY <1>1 DEF Kind
  <2>2. ASSUME NEW i \in kept', NEW j \in 1..(i - 1), Kind(j) = "record"
        PROVE  log[j].key # log[i].key
    BY <1>1, <1>2, <2>2 DEF KeptInv, SourceTypes, IsDuplicate
  <2>3. ASSUME NEW j \in 1..(next - 1), Kind(j) = "record"
        PROVE  \E i \in kept' : log[i].key = log[j].key
    <3>1. CASE j \in 1..(here - 1)
      BY <1>3, <1>1, <1>2, <2>3, <3>1 DEF KeptInv
    <3>2. CASE j \notin 1..(here - 1)
      <4>1. j = here /\ next # here
        BY <1>4, <3>2
      <4>2. SessionsRecord
        BY <1>3, <1>2, <2>3, <4>1
      <4> QED
        BY <1>3, <4>1, <4>2 DEF SessionsRecord, IsDuplicate
    <3> QED
      BY <3>1, <3>2
  <2> QED
    BY <1>3, <1>1, <2>1, <2>2, <2>3 DEF KeptInv
<1>8. QueueInv'
  BY <1>1 DEF QueueInv, Ordered
<1> QED
  BY <1>6, <1>7, <1>8

LEMMA SortStepInv ==
  ASSUME SourceInv, SortSessions
  PROVE  SourceInv'
<1> USE DEF SourceInv
<1>1. /\ flags.needSort /\ sent = <<>>
      /\ pc' = "extract" /\ UNCHANGED <<log, flags, at, counter, kept, sent>>
  BY DEF SortSessions, CountInv
<1>2. PICK size \in Nat : size = Cardinality(Extracted) /\ size <= Cardinality(kept)
  BY KeptFinite
<1>3. /\ queue' \in [1..size -> Extracted] /\ Extracted \subseteq kept /\ kept \subseteq Nat
      /\ \A m, n \in DOMAIN queue' : m < n => Before(log[queue'[m]].key, log[queue'[n]].key)
  BY <1>2 DEF SortSessions, Sorted, Extracted, SourceTypes
<1>4. queue' \in Seq(Nat) /\ Len(queue') = size /\ sent \o queue' = queue'
      /\ \A n \in DOMAIN queue' : queue'[n] \in kept
  <2>1. PICK list \in [1..size -> Nat] : list = queue' /\ \A n \in 1..size : list[n] \in kept
    BY <1>3
  <2>2. list \in Seq(Nat) /\ Len(list) = size /\ DOMAIN list = 1..size
    BY <2>1, SeqDef, LenProperties
  <2>3. <<>> \o list = list
    BY <2>2, ConcatEmptySeq
  <2> QED
    BY <1>1, <2>1, <2>2, <2>3
<1>5. SourceTypes'
  BY <1>1, <1>4 DEF SourceTypes, Places
<1>6. CountInv'
  BY <1>1, <1>2, <1>4 DEF CountInv
<1>7. KeptInv'
  BY <1>1, KeptUntouched
<1>8. Ordered(log, queue')
  BY <1>3 DEF Ordered
<1>9. QueueInv'
  BY <1>1, <1>4, <1>8 DEF QueueInv
<1> QED
  BY <1>5, <1>6, <1>7, <1>9

(* The head of the queue moves to the end of what was sent. *)
LEMMA ExtractStepInv ==
  ASSUME SourceInv, ExtractSend \/ ExtractEnd
  PROVE  SourceInv'
<1> USE DEF SourceInv
<1>1. UNCHANGED <<log, flags, at, counter, kept>> /\ flags.needSort
      /\ pc' \in {"extract", "panic", "closed"}
  BY DEF ExtractSend, ExtractEnd, CountInv
<1>2. CASE sent' = sent /\ queue' = queue
  <2>1. SourceTypes' /\ CountInv'
    BY <1>1, <1>2 DEF SourceTypes, Places, CountInv
  <2> QED
    BY <1>1, <1>2, <2>1, KeptUntouched DEF QueueInv
<1>3. CASE /\ queue # <<>>
           /\ sent' = Append(sent, Head(queue)) /\ queue' = Tail(queue)
  <2>1. sent \in Seq(Nat) /\ queue \in Seq(Nat)
    BY DEF SourceTypes
  <2>2. /\ sent' \in Seq(Nat) /\ queue' \in Seq(Nat)
        /\ Len(sent') = Len(sent) + 1 /\ Len(queue') = Len(queue) - 1
        /\ sent' \o queue' = sent \o queue
    BY <1>3, <2>1
  <2>3. /\ \A n \in DOMAIN sent' : sent'[n] \in kept
        /\ \A n \in DOMAIN queue' : queue'[n] \in kept
    BY <1>1, <1>3, <2>1 DEF QueueInv
  <2>4. SourceTypes'
    BY <1>1, <2>2 DEF SourceTypes, Places
  <2>5. CountInv'
    BY <1>1, <2>1, <2>2 DEF CountInv
  <2>6. KeptInv'
    BY <1>1, KeptUntouched
  <2>7. QueueInv'
    BY <1>1, <2>2, <2>3 DEF QueueInv
  <2> QED
    BY <2>4, <2>5, <2>6, <2>7
<1> QED
  BY <1>2, <1>3 DEF ExtractSend, ExtractEnd

(* Every step of a reader keeps the invariant. *)
LEMMA ReadKeepsInv == SourceInv /\ Read => SourceInv'
  BY StreamStepInv, SessionsStepInv, SortStepInv, ExtractStepInv DEF Read

LEMMA SourceUntouched ==
  ASSUME SourceInv, UNCHANGED sourceVars
  PROVE  SourceInv'
<1> USE DEF SourceInv, sourceVars
<1>1. SourceTypes' /\ CountInv' /\ QueueInv'
  BY DEF SourceTypes, CountInv, QueueInv
<1> QED
  BY <1>1, KeptUntouched

(* The invariant gives the limit ... *)
LEMMA InvKeepsLimit == SourceInv => LimitHolds
<1> SUFFICES ASSUME SourceInv, flags.limit > 0 PROVE Len(sent) <= flags.limit
  BY DEF LimitHolds
<1>1. Cardinality(kept) \in Nat
  BY KeptFinite DEF SourceInv
<1>2. flags.limit \in Nat
  BY QuerySourceAssumption DEF SourceInv, SourceTypes, Flags, QuerySourceAssumption
<1>3. Len(sent) \in Nat /\ Len(queue) \in Nat /\ counter \in Int
  BY DEF SourceInv, SourceTypes
<1> QED
  BY <1>1, <1>2, <1>3 DEF SourceInv, CountInv

(* ... and the order. *)
LEMMA InvKeepsOrder == SourceInv => SessionOrder
<1> SUFFICES ASSUME SourceInv, flags.needSort PROVE SessionOrder
  BY DEF SessionOrder
<1>1. \A n \in DOMAIN sent : n \in DOMAIN (sent \o queue) /\ (sent \o queue)[n] = sent[n]
  BY DEF SourceInv, SourceTypes
<1>2. \A m, n \in DOMAIN sent : m < n => Before(log[sent[m]].key, log[sent[n]].key)
  BY <1>1 DEF SourceInv, QueueInv, Ordered
<1>3. \A i \in Sent : i \in kept
  BY DEF SourceInv, QueueInv, Sent
<1> QED
  BY <1>2, <1>3 DEF SourceInv, KeptInv, SessionOrder

-----------------------------------------------------------------------------
(* The endpoints whose append is complete. *)
Stored == {e \in opened : stage[e] \in {"unlock", "done"}}

(* The mutex is held by the one goroutine that is inside the append, what  *)
(* it read of the slice is still true when it stores, and the visible part *)
(* of the slice is what was stored.                                        *)
OpenInv ==
  /\ stage \in [Endpoints -> {"connect", "lock", "append", "store", "unlock", "done"}]
  /\ seen \in [Endpoints -> Nat] /\ len \in Nat
  /\ drivers \in [1..Cardinality(Endpoints) -> Endpoints \cup {Nobody}]
  /\ opened \subseteq Endpoints
  /\ \A e \in Endpoints : stage[e] \in {"append", "store", "unlock"} => mutex = e
  /\ \A e \in Endpoints : stage[e] = "connect" => e \notin opened
  /\ \A e \in Endpoints : stage[e] \in {"lock", "append", "store", "unlock"} => e \in opened
  /\ \A e \in Endpoints : stage[e] = "store" => seen[e] = len
  /\ len = Cardinality(Stored)
  /\ {drivers[i] : i \in 1..len} = Stored
  /\ opener \in {"waiting", "ready", "fatal"}
  /\ opener # "waiting" => /\ \A e \in Endpoints : stage[e] = "done"
                           /\ opener = "fatal" <=> len = 0

LEMMA StoredFinite ==
  ASSUME opened \subseteq Endpoints
  PROVE  /\ IsFiniteSet(Stored) /\ Stored \subseteq Endpoints
         /\ Cardinality(Stored) \in Nat /\ Cardinality(Stored) <= Cardinality(Endpoints)
         /\ Stored # Endpoints => Cardinality(Stored) < Cardinality(Endpoints)
<1>1. Stored \in SUBSET Endpoints
  BY DEF Stored
<1>2. IsFiniteSet(Stored) /\ Cardinality(Stored) \in Nat /\ Cardinality(Endpoints) \in Nat
  BY <1>1, OpenAssumption, FS_Subset, FS_CardinalityType DEF OpenAssumption
<1>3. /\ Cardinality(Stored) <= Cardinality(Endpoints)
      /\ Cardinality(Endpoints) = Cardinality(Stored) => Endpoints = Stored
  BY <1>1, OpenAssumption, FS_Subset DEF OpenAssumption
<1> QED
  BY <1>1, <1>2, <1>3

LEMMA OpenInitInv == OpenInit => OpenInv
<1> SUFFICES ASSUME OpenInit PROVE OpenInv
  OBVIOUS
<1>1. Stored = {} /\ Cardinality({}) = 0
  BY FS_EmptySet DEF OpenInit, Stored
<1>2. {drivers[i] : i \in 1..len} = {}
  BY DEF OpenInit
<1> QED
  BY <1>1, <1>2 DEF OpenInit, OpenInv

(* A step of a goroutine that leaves the slice alone, and stores nothing.  *)
LEMMA QuietOpenStep ==
  ASSUME OpenInv, Stored' = Stored, UNCHANGED <<drivers, len>>
  PROVE  len' = Cardinality(Stored') /\ {drivers'[i] : i \in 1..len'} = Stored'
BY DEF OpenInv

LEMMA OpenStepInv ==
  ASSUME OpenInv, NEW e \in Endpoints, Open(e), opener = "waiting"
  PROVE  OpenInv'
<1> USE DEF Step
<1>1. CASE Connect(e)
  <2>1. Stored' = Stored
    BY <1>1 DEF Connect, OpenInv, Stored
  <2>2. len' = Cardinality(Stored') /\ {drivers'[i] : i \in 1..len'} = Stored'
    BY <1>1, <2>1, QuietOpenStep DEF Connect
  <2> QED
    BY <1>1, <2>2 DEF Connect, OpenInv
<1>2. CASE LockSlice(e)
  <2>1. Stored' = Stored
    BY <1>2 DEF LockSlice, OpenInv, Stored
  <2>2. len' = Cardinality(Stored') /\ {drivers'[i] : i \in 1..len'} = Stored'
    BY <1>2, <2>1, QuietOpenStep DEF LockSlice
  <2>3. \A f \in Endpoints : stage[f] \notin {"append", "store", "unlock"}
    BY <1>2, OpenAssumption DEF LockSlice, OpenInv, OpenAssumption
  <2> QED
    BY <1>2, <2>2, <2>3 DEF LockSlice, OpenInv
<1>3. CASE AppendRead(e)
  <2>1. Stored' = Stored
    BY <1>3 DEF AppendRead, OpenInv, Stored
  <2>2. len' = Cardinality(Stored') /\ {drivers'[i] : i \in 1..len'} = Stored'
    BY <1>3, <2>1, QuietOpenStep DEF AppendRead
  <2> QED
    BY <1>3, <2>2 DEF AppendRead, OpenInv
<1>4. CASE AppendStore(e)
  <2>1. /\ e \notin Stored /\ e \in opened /\ seen[e] = len /\ mutex = e
        /\ \A f \in Endpoints \ {e} : stage[f] \notin {"append", "store", "unlock"}
    BY <1>4 DEF AppendStore, OpenInv, Stored
  <2>2. Stored' = Stored \cup {e}
    BY <1>4, <2>1 DEF AppendStore, OpenInv, Stored
  <2>3. Cardinality(Stored') = len + 1 /\ len + 1 \in 1..Cardinality(Endpoints)
    <3>1. opened \subseteq Endpoints /\ len = Cardinality(Stored) /\ len \in Nat
      BY DEF OpenInv
    <3>2. Stored # Endpoints /\ IsFiniteSet(Stored) /\ len < Cardinality(Endpoints)
      BY <2>1, <3>1, StoredFinite
    <3>3. Cardinality(Stored') = len + 1
      BY <2>1, <2>2, <3>1, <3>2, FS_AddElement
    <3>4. Cardinality(Endpoints) \in Nat
      BY OpenAssumption, FS_CardinalityType DEF OpenAssumption
    <3> QED
      BY <3>1, <3>2, <3>3, <3>4
  <2>4. len' = len + 1 /\ drivers' = [drivers EXCEPT ![len + 1] = e]
    BY <1>4, <2>1 DEF AppendStore
  <2>5. {drivers'[i] : i \in 1..len'} = {drivers[i] : i \in 1..len} \cup {e}
    <3>1. len \in Nat /\ DOMAIN drivers = 1..Cardinality(Endpoints)
          /\ Cardinality(Endpoints) \in Nat
      BY OpenAssumption, FS_CardinalityType DEF OpenInv, OpenAssumption
    <3>2. drivers'[len + 1] = e /\ \A i \in 1..len : drivers'[i] = drivers[i]
      BY <2>3, <2>4, <3>1
    <3>3. 1..len' = (1..len) \cup {len + 1}
      BY <2>4, <3>1
    <3> QED
      BY <3>2, <3>3
  <2>6. len' = Cardinality(Stored') /\ {drivers'[i] : i \in 1..len'} = Stored'
    BY <2>2, <2>3, <2>4, <2>5 DEF OpenInv
  <2>7. drivers' \in [1..Cardinality(Endpoints) -> Endpoints \cup {Nobody}] /\ len' \in Nat
    <3> DEFINE places == 1..Cardinality(Endpoints)
    <3>1. drivers \in [places -> Endpoints \cup {Nobody}] /\ len \in Nat
      BY DEF OpenInv
    <3> HIDE DEF places
    <3>2. drivers' \in [places -> Endpoints \cup {Nobody}]
      BY <2>4, <3>1
    <3>3. len' \in Nat
      BY <2>4, <3>1
    <3> QED
      BY <3>2, <3>3 DEF places
  <2> QED
    BY <1>4, <2>1, <2>6, <2>7 DEF AppendStore, OpenInv
<1>5. CASE UnlockSlice(e)
  <2>1. Stored' = Stored
    BY <1>5 DEF UnlockSlice, OpenInv, Stored
  <2>2. len' = Cardinality(Stored') /\ {drivers'[i] : i \in 1..len'} = Stored'
    BY <1>5, <2>1, QuietOpenStep DEF UnlockSlice
  <2>3. \A f \in Endpoints \ {e} : stage[f] \notin {"append", "store", "unlock"}
    BY <1>5 DEF UnlockSlice, OpenInv
  <2> QED
    BY <1>5, <2>2, <2>3 DEF UnlockSlice, OpenInv
<1> QED
  BY <1>1, <1>2, <1>3, <1>4, <1>5 DEF Open

LEMMA MakePoolInv == OpenInv /\ MakePool => OpenInv'
<1> SUFFICES ASSUME OpenInv, MakePool PROVE OpenInv'
  OBVIOUS
<1>1. Stored' = Stored
  BY DEF MakePool, Stored
<1>2. len' = Cardinality(Stored') /\ {drivers'[i] : i \in 1..len'} = Stored'
  BY <1>1, QuietOpenStep DEF MakePool
<1> QED
  BY <1>2 DEF MakePool, OpenInv

LEMMA OpenUntouched == OpenInv /\ UNCHANGED openVars => OpenInv'
BY DEF OpenInv, openVars, Stored

(* The pool is opened once, before anything is read. *)
PoolInvariant == OpenInv /\ (phase \in {"load", "connect"} => opener = "waiting")

LEMMA PoolInvariantStep == PoolInvariant /\ [StartNext]_startVars => PoolInvariant'
<1> SUFFICES ASSUME PoolInvariant, [StartNext]_startVars PROVE PoolInvariant'
  OBVIOUS
<1> USE DEF PoolInvariant
<1>1. CASE LoadFiles
  BY <1>1, OpenUntouched DEF LoadFiles, openVars
<1>2. ASSUME NEW e \in Endpoints, OpenPool(e) PROVE PoolInvariant'
  <2>1. OpenInv' /\ opener' = opener
    BY <1>2, OpenStepInv
    DEF OpenPool, Open, Connect, LockSlice, AppendRead, AppendStore, UnlockSlice
  <2> QED
    BY <1>2, <2>1 DEF OpenPool
<1>3. CASE PoolOpened
  BY <1>3, MakePoolInv DEF PoolOpened
<1>4. CASE OpenLog
  BY <1>4, OpenUntouched DEF OpenLog
<1>5. CASE ReadLog
  BY <1>5, OpenUntouched DEF ReadLog, openVars
<1>6. CASE UNCHANGED startVars
  BY <1>6, OpenUntouched DEF startVars, openVars
<1> QED
  BY <1>1, <1>2, <1>3, <1>4, <1>5, <1>6 DEF StartNext

(* No driver is lost, for any number of endpoints: the mutex covers the    *)
(* read of the slice and the store, and the opener comes after them all.   *)
THEOREM PoolIsComplete == StartSpec => []PoolHoldsEveryDriver
<1>1. StartInit => PoolInvariant
  BY OpenInitInv DEF StartInit, OpenInit, PoolInvariant
<1>2. PoolInvariant => PoolHoldsEveryDriver
  <2> SUFFICES ASSUME OpenInv, opener # "waiting" PROVE PoolHoldsEveryDriver
    BY DEF PoolInvariant, PoolHoldsEveryDriver
  <2>1. Stored = opened
    BY DEF OpenInv, Stored
  <2>2. len = Cardinality(opened) /\ {drivers[i] : i \in 1..len} = opened
    BY <2>1 DEF OpenInv
  <2>3. len = 0 <=> opened = {}
    BY <2>1, <2>2, OpenAssumption, FS_Subset, FS_EmptySet DEF OpenInv, OpenAssumption
  <2> QED
    BY <2>2, <2>3 DEF OpenInv, PoolHoldsEveryDriver
<1> QED
  BY <1>1, <1>2, PoolInvariantStep, PTL DEF StartSpec

-----------------------------------------------------------------------------
(* Nothing is read before the log is opened. *)
ReaderInvariant == SourceInv /\ (phase # "read" => Fresh)

LEMMA ReaderInvariantStep == ReaderInvariant /\ [StartNext]_startVars => ReaderInvariant'
<1> SUFFICES ASSUME ReaderInvariant, [StartNext]_startVars PROVE ReaderInvariant'
  OBVIOUS
<1> USE DEF ReaderInvariant
<1>1. ASSUME UNCHANGED sourceVars, phase # "read" \/ UNCHANGED phase PROVE ReaderInvariant'
  BY <1>1, SourceUntouched DEF sourceVars, Fresh
<1>2. CASE LoadFiles \/ PoolOpened \/ UNCHANGED startVars
  BY <1>1, <1>2 DEF LoadFiles, PoolOpened, startVars
<1>3. ASSUME NEW e \in Endpoints, OpenPool(e) PROVE ReaderInvariant'
  BY <1>1, <1>3 DEF OpenPool
<1>4. CASE OpenLog
  <2>1. Fresh'
    BY <1>4 DEF OpenLog, Fresh
  <2>2. SourceInv'
    BY <2>1, FreshSourceInv, PTL
  <2> QED
    BY <1>4, <2>1, <2>2
<1>5. CASE ReadLog
  BY <1>5, ReadKeepsInv DEF ReadLog
<1> QED
  BY <1>2, <1>3, <1>4, <1>5 DEF StartNext

LEMMA ReaderInvariantInit == StartInit => ReaderInvariant
  BY FreshSourceInv DEF StartInit, Fresh, ReaderInvariant

(* No more queries are checked than requests-limit allows, with any log,   *)
(* any limit and either reader.                                            *)
THEOREM LimitIsKept == StartSpec => []LimitHolds
<1>1. ReaderInvariant => LimitHolds
  BY InvKeepsLimit DEF ReaderInvariant
<1> QED
  BY <1>1, ReaderInvariantInit, ReaderInvariantStep, PTL DEF StartSpec

(* With query-log-need-sort the queries come in the order of their keys,   *)
(* and the first record of a key is the one that is checked.               *)
THEOREM OrderIsKept == StartSpec => []SessionOrder
<1>1. ReaderInvariant => SessionOrder
  BY InvKeepsOrder DEF ReaderInvariant
<1> QED
  BY <1>1, ReaderInvariantInit, ReaderInvariantStep, PTL DEF StartSpec
-----------------------------------------------------------------------------
(* Why the two readers agree.  A log is a sequence, and the keys of its    *)
(* records are quadruples of numbers.                                      *)
LogShape ==
  /\ Len(log) \in Nat /\ DOMAIN log = 1..Len(log)
  /\ \A i \in DOMAIN log : log[i].kind = "record" => log[i].key \in [1..4 -> Nat]

(* The order of the keys is strict. *)
LEMMA BeforeIsStrict ==
  ASSUME NEW k \in [1..4 -> Nat], NEW m \in [1..4 -> Nat], Before(k, m)
  PROVE  ~Before(m, k)
<1> SUFFICES ASSUME Before(m, k) PROVE FALSE
  OBVIOUS
<1>1. PICK i \in 1..4 : k[i] < m[i] /\ \A h \in 1..(i - 1) : k[h] = m[h]
  BY DEF Before
<1>2. PICK j \in 1..4 : m[j] < k[j] /\ \A h \in 1..(j - 1) : m[h] = k[h]
  BY DEF Before
<1>3. k[i] \in Nat /\ m[i] \in Nat /\ k[j] \in Nat /\ m[j] \in Nat
  OBVIOUS
<1>4. i # j /\ ~(i < j) /\ ~(j < i)
  BY <1>1, <1>2, <1>3
<1> QED
  BY <1>4

(* In a log that is in order, the order of the places is that of the keys. *)
LEMMA KeysFollowPlaces ==
  ASSUME LogShape, InOrder, NEW i \in DOMAIN log, NEW j \in DOMAIN log
  PROVE  /\ log[i].key = log[j].key => i = j
         /\ Before(log[i].key, log[j].key) => i < j
<1>1. log[i].key \in [1..4 -> Nat] /\ log[j].key \in [1..4 -> Nat] /\ i \in Nat /\ j \in Nat
  BY DEF LogShape, InOrder
<1>2. /\ i < j => Before(log[i].key, log[j].key)
      /\ j < i => Before(log[j].key, log[i].key)
  BY DEF InOrder
<1>3. ~Before(log[i].key, log[i].key)
  BY <1>1, BeforeIsStrict
<1>4. ~(Before(log[i].key, log[j].key) /\ Before(log[j].key, log[i].key))
  BY <1>1, BeforeIsStrict
<1> QED
  BY <1>1, <1>2, <1>3, <1>4

(* Induction in the form the provers can use: the least counterexample.    *)
LEMMA LeastExists ==
  ASSUME NEW S \in SUBSET Nat, S # {}
  PROVE  \E i \in S : \A j \in S : i <= j
<1> DEFINE R == OpToRel(<, Nat)
<1>1. \A i, j \in Nat : i < j => <<i, j>> \in R
  BY DEF OpToRel
<1>2. IsWellFoundedOn(R, Nat)
  BY NatLessThanWellFounded
<1> HIDE DEF R
<1>3. PICK i \in S : \A j \in S : <<j, i>> \notin R
  BY <1>2, WFMin
<1>4. \A j \in S : ~(j < i) /\ j \in Nat /\ i \in Nat
  BY <1>1, <1>3
<1> QED
  BY <1>4

(* n numbers up to n that only grow are the numbers from 1 to n. *)
LEMMA GrowingIsIdentity ==
  ASSUME NEW n \in Nat, NEW q \in [1..n -> 1..n],
         \A i, j \in 1..n : i < j => q[i] < q[j]
  PROVE  q = [i \in 1..n |-> i]
<1>1. \A i \in 1..n : q[i] \in Nat /\ 1 <= q[i] /\ q[i] <= n
  OBVIOUS
<1>2. ASSUME NEW i \in 1..n PROVE q[i] >= i
  <2> DEFINE low == {h \in 1..n : q[h] < h}
  <2>1. SUFFICES ASSUME low # {} PROVE FALSE
    BY <1>1
  <2>2. low \in SUBSET Nat
    OBVIOUS
  <2>3. PICK h \in low : \A j \in low : h <= j
    BY <2>1, <2>2, LeastExists
  <2>4. h - 1 \in 1..n /\ h - 1 \notin low
    BY <1>1, <2>3
  <2>5. q[h - 1] >= h - 1 /\ q[h - 1] < q[h]
    BY <1>1, <2>4
  <2> QED
    BY <1>1, <2>3, <2>4, <2>5
<1>3. ASSUME NEW i \in 1..n PROVE q[i] <= i
  <2> DEFINE TooBig(k) == \E m \in 1..n : m = n - k /\ q[m] > m
             high == {k \in 0..(n - 1) : TooBig(k)}
  <2>1. SUFFICES ASSUME high # {} PROVE FALSE
    <3>1. n - i \in 0..(n - 1) /\ i = n - (n - i)
      OBVIOUS
    <3>2. q[i] > i => TooBig(n - i)
      BY <3>1
    <3> HIDE DEF TooBig
    <3>3. ~TooBig(n - i)
      BY <3>1
    <3> QED
      BY <1>1, <3>2, <3>3
  <2>2. high \in SUBSET Nat
    OBVIOUS
  <2>3. PICK k \in high : \A j \in high : k <= j
    BY <2>1, <2>2, LeastExists
  <2>4. PICK m \in 1..n : m = n - k /\ q[m] > m
    BY <2>3
  <2>5. m + 1 \in 1..n /\ q[m] < q[m + 1] /\ q[m + 1] > m + 1
    BY <1>1, <2>4
  <2>6. k - 1 \in 0..(n - 1) /\ n - (k - 1) = m + 1
    BY <2>4, <2>5
  <2>7. TooBig(k - 1)
    BY <2>5, <2>6
  <2> HIDE DEF TooBig
  <2>8. k - 1 \in high
    BY <2>6, <2>7
  <2>9. ~(k <= k - 1)
    OBVIOUS
  <2> QED
    BY <2>3, <2>8, <2>9
<1>4. \A i \in 1..n : q[i] = i
  BY <1>1, <1>2, <1>3
<1> QED
  BY <1>4

(* Where the readers are in a log that is in order and is read as a whole. *)
WholeLog == InOrder /\ flags.includeFailed /\ flags.limit = 0

FirstPlaces(n) == [i \in 1..n |-> i]

AgreeInv ==
  WholeLog =>
    /\ at - 1 <= Len(log)
    /\ ~flags.needSort => /\ sent = FirstPlaces(at - 1)
                          /\ pc = "closed" => at - 1 = Len(log)
    /\ flags.needSort =>
         /\ kept = 1..(at - 1)
         /\ pc # "read" => at - 1 = Len(log)
         /\ pc \in {"extract", "closed"} => sent \o queue = FirstPlaces(Len(log))
         /\ pc = "closed" => queue = <<>>

LEMMA FreshAgreeInv == Fresh /\ LogShape => AgreeInv
<1> SUFFICES ASSUME Fresh, LogShape, WholeLog PROVE AgreeInv
  BY DEF AgreeInv
<1>1. FirstPlaces(0) = <<>> /\ 1..0 = {}
  BY DEF FirstPlaces
<1> QED
  BY <1>1 DEF Fresh, LogShape, AgreeInv

LEMMA StreamAgrees ==
  ASSUME LogShape, SourceInv, AgreeInv, StreamEnd \/ StreamSkip \/ StreamSend
  PROVE  AgreeInv'
<1> SUFFICES ASSUME WholeLog' PROVE AgreeInv'
  BY DEF AgreeInv
<1>1. ~flags.needSort /\ UNCHANGED <<log, flags>> /\ WholeLog
  BY DEF StreamEnd, StreamSkip, StreamSend, WholeLog, InOrder
<1>2. /\ at \in Nat /\ at > 0 /\ at - 1 <= Len(log) /\ Len(log) \in Nat
      /\ sent = FirstPlaces(at - 1)
  BY <1>1 DEF AgreeInv, LogShape, SourceInv, SourceTypes
<1>3. Kind(at) = "record" <=> at <= Len(log)
  BY <1>1, <1>2 DEF WholeLog, InOrder, Kind, LogShape
<1>4. ~LimitReached
  BY <1>1 DEF WholeLog, LimitReached
<1>5. CASE StreamEnd
  BY <1>1, <1>2, <1>3, <1>4, <1>5 DEF StreamEnd, AgreeInv
<1>6. CASE StreamSkip
  BY <1>1, <1>6 DEF StreamSkip, WholeLog, Passes
<1>7. CASE StreamSend
  <2>1. at' = at + 1 /\ at <= Len(log) /\ pc' # "closed" /\ sent' = Append(sent, at)
    BY <1>3, <1>7 DEF StreamSend
  <2>2. Append(FirstPlaces(at - 1), at) = FirstPlaces(at)
    <3> DEFINE a == FirstPlaces(at - 1)
               b == FirstPlaces(at)
    <3>1. a \in Seq(Nat) /\ b \in Seq(Nat) /\ Len(a) = at - 1 /\ Len(b) = at
          /\ (\A i \in 1..(at - 1) : a[i] = i) /\ (\A i \in 1..at : b[i] = i)
      BY <1>2 DEF FirstPlaces
    <3> HIDE DEF a, b
    <3>2. Append(a, at) \in Seq(Nat) /\ Len(Append(a, at)) = at
          /\ \A i \in 1..at : Append(a, at)[i] = i
      BY <1>2, <3>1
    <3>3. Append(a, at) = b
      BY <1>2, <3>1, <3>2, SeqEqual
    <3> QED
      BY <3>3 DEF a, b
  <2>3. sent' = FirstPlaces(at' - 1) /\ at' - 1 <= Len(log)
    BY <1>2, <2>1, <2>2
  <2> QED
    BY <1>1, <2>1, <2>3 DEF AgreeInv
<1> QED
  BY <1>5, <1>6, <1>7

LEMMA SessionsAgree ==
  ASSUME LogShape, SourceInv, AgreeInv, SessionsEnd \/ SessionsError \/ SessionsRecord
  PROVE  AgreeInv'
<1> SUFFICES ASSUME WholeLog' PROVE AgreeInv'
  BY DEF AgreeInv
<1>1. flags.needSort /\ UNCHANGED <<log, flags, sent, queue>> /\ WholeLog /\ pc = "read"
  BY DEF SessionsEnd, SessionsError, SessionsRecord, WholeLog, InOrder
<1>2. /\ at \in Nat /\ at > 0 /\ at - 1 <= Len(log) /\ Len(log) \in Nat
      /\ kept = 1..(at - 1)
  BY <1>1 DEF AgreeInv, LogShape, SourceInv, SourceTypes
<1>3. at <= Len(log) => at \in DOMAIN log /\ Kind(at) = "record"
  BY <1>1, <1>2 DEF WholeLog, InOrder, Kind, LogShape
<1>4. at > Len(log) => Kind(at) = "end"
  BY <1>2 DEF Kind
<1>5. ~LimitReached
  BY <1>1 DEF WholeLog, LimitReached
<1>6. CASE SessionsEnd
  BY <1>1, <1>2, <1>3, <1>4, <1>5, <1>6 DEF SessionsEnd, AgreeInv
<1>7. CASE SessionsError
  BY <1>2, <1>3, <1>4, <1>7 DEF SessionsError
<1>8. CASE SessionsRecord
  <2>1. at' = at + 1 /\ at <= Len(log) /\ UNCHANGED pc
    BY <1>2, <1>4, <1>8 DEF SessionsRecord
  <2>2. ~IsDuplicate(at)
    <3> SUFFICES ASSUME NEW j \in kept, log[j].key = log[at].key PROVE FALSE
      BY DEF IsDuplicate
    <3>1. j \in DOMAIN log /\ at \in DOMAIN log /\ j # at
      BY <1>2, <1>3, <2>1 DEF LogShape
    <3> QED
      BY <1>1, <3>1, KeysFollowPlaces DEF WholeLog
  <2>3. kept' = kept \cup {at}
    BY <1>8, <2>2 DEF SessionsRecord
  <2>4. kept' = 1..(at' - 1) /\ at' - 1 <= Len(log)
    BY <1>2, <2>1, <2>3
  <2> QED
    BY <1>1, <2>1, <2>4 DEF AgreeInv
<1> QED
  BY <1>6, <1>7, <1>8

LEMMA SortAgrees ==
  ASSUME LogShape, SourceInv, AgreeInv, SortSessions
  PROVE  AgreeInv'
<1> SUFFICES ASSUME WholeLog' PROVE AgreeInv'
  BY DEF AgreeInv
<1>1. /\ flags.needSort /\ UNCHANGED <<log, flags, at, kept, sent>> /\ WholeLog
      /\ pc = "sort" /\ pc' = "extract" /\ sent = <<>>
  BY DEF SortSessions, WholeLog, InOrder, SourceInv, CountInv
<1>2. PICK n \in Nat : n = Len(log) /\ n = at - 1 /\ kept = 1..n /\ DOMAIN log = 1..n
  BY <1>1 DEF AgreeInv, LogShape, SourceInv, SourceTypes
<1>3. Extracted = 1..n /\ Cardinality(1..n) = n
  BY <1>1, <1>2, FS_Interval DEF Extracted, WholeLog
<1>4. /\ queue' \in [1..n -> 1..n]
      /\ \A i, j \in 1..n : i < j => Before(log[queue'[i]].key, log[queue'[j]].key)
  BY <1>3 DEF SortSessions, Sorted
<1>5. \A i, j \in 1..n : i < j => queue'[i] < queue'[j]
  BY <1>1, <1>2, <1>4, KeysFollowPlaces DEF WholeLog
<1>6. queue' = FirstPlaces(n)
  BY <1>4, <1>5, GrowingIsIdentity DEF FirstPlaces
<1>7. <<>> \o FirstPlaces(n) = FirstPlaces(n)
  <2>1. FirstPlaces(n) \in Seq(Nat)
    BY DEF FirstPlaces
  <2> QED
    BY <2>1, ConcatEmptySeq
<1> QED
  BY <1>1, <1>2, <1>6, <1>7 DEF AgreeInv

LEMMA ExtractAgrees ==
  ASSUME SourceInv, AgreeInv, ExtractSend \/ ExtractEnd
  PROVE  AgreeInv'
<1> SUFFICES ASSUME WholeLog' PROVE AgreeInv'
  BY DEF AgreeInv
<1>1. /\ flags.needSort /\ UNCHANGED <<log, flags, at, kept>> /\ WholeLog
      /\ pc = "extract" /\ pc' \in {"extract", "panic", "closed"}
      /\ pc' = "closed" => queue' = <<>>
      /\ sent \in Seq(Nat) /\ queue \in Seq(Nat)
  BY DEF ExtractSend, ExtractEnd, WholeLog, InOrder, SourceInv, CountInv, SourceTypes
<1>2. sent' \o queue' = sent \o queue
  <2>1. CASE UNCHANGED <<sent, queue>>
    BY <2>1
  <2>2. CASE queue # <<>> /\ sent' = Append(sent, Head(queue)) /\ queue' = Tail(queue)
    BY <1>1, <2>2
  <2> QED
    BY <2>1, <2>2 DEF ExtractSend, ExtractEnd
<1> QED
  BY <1>1, <1>2 DEF AgreeInv

LEMMA ReadKeepsAgreement == LogShape /\ SourceInv /\ AgreeInv /\ Read => AgreeInv'
  BY StreamAgrees, SessionsAgree, SortAgrees, ExtractAgrees DEF Read

LEMMA InvKeepsAgreement == LogShape /\ SourceInv /\ AgreeInv => ReadersAgree
<1> SUFFICES ASSUME LogShape, SourceInv, AgreeInv, WholeLog, pc = "closed"
             PROVE  sent = [i \in DOMAIN log |-> i]
  BY DEF ReadersAgree, WholeLog
<1>1. DOMAIN log = 1..Len(log) /\ sent \in Seq(Nat)
  BY DEF LogShape, SourceInv, SourceTypes
<1>2. sent = FirstPlaces(Len(log))
  <2>1. CASE flags.needSort
    <3>1. sent \o <<>> = FirstPlaces(Len(log))
      BY <2>1 DEF AgreeInv
    <3> QED
      BY <1>1, <3>1, ConcatEmptySeq
  <2>2. CASE ~flags.needSort
    BY <2>2 DEF AgreeInv
  <2> QED
    BY <2>1, <2>2
<1> QED
  BY <1>1, <1>2 DEF FirstPlaces

(* From a log that is in order both readers send the same, every query     *)
(* once and in the order of the log, when nothing else restricts them: for *)
(* a log of any length.                                                    *)
THEOREM ReadersSendTheSame == StartSpec => []ReadersAgree
<1> DEFINE Agreement == ReaderInvariant /\ LogShape /\ AgreeInv
<1>1. StartInit => Agreement
  <2>1. StartInit => ReaderInvariant /\ Fresh /\ log = <<>>
    BY ReaderInvariantInit DEF StartInit, Fresh
  <2>2. log = <<>> => LogShape
    BY DEF LogShape
  <2> QED
    BY <2>1, <2>2, FreshAgreeInv
<1>2. Agreement /\ [StartNext]_startVars => Agreement'
  <2> SUFFICES ASSUME Agreement, [StartNext]_startVars PROVE LogShape' /\ AgreeInv'
    BY ReaderInvariantStep
  <2>1. ASSUME UNCHANGED sourceVars PROVE LogShape' /\ AgreeInv'
    BY <2>1 DEF sourceVars, LogShape, AgreeInv, WholeLog, InOrder
  <2>2. CASE LoadFiles \/ PoolOpened \/ UNCHANGED startVars
    BY <2>1, <2>2 DEF LoadFiles, PoolOpened, startVars
  <2>3. ASSUME NEW e \in Endpoints, OpenPool(e) PROVE LogShape' /\ AgreeInv'
    BY <2>1, <2>3 DEF OpenPool
  <2>4. CASE OpenLog
    <3>1. Fresh'
      BY <2>4 DEF OpenLog, Fresh, ReaderInvariant
    <3>2. LogShape'
      BY <2>4, QuerySourceAssumption DEF OpenLog, LogShape, QuerySourceAssumption
    <3> QED
      BY <3>1, <3>2, FreshAgreeInv, PTL
  <2>5. CASE ReadLog
    <3>1. log' = log
      BY <2>5 DEF ReadLog, Read, StreamEnd, StreamSkip, StreamSend, SessionsEnd,
                  SessionsError, SessionsRecord, SortSessions, ExtractSend, ExtractEnd
    <3> QED
      BY <2>5, <3>1, ReadKeepsAgreement DEF ReadLog, ReaderInvariant, LogShape
  <2> QED
    BY <2>2, <2>3, <2>4, <2>5 DEF StartNext
<1>3. Agreement => ReadersAgree
  BY InvKeepsAgreement DEF ReaderInvariant
<1> QED
  BY <1>1, <1>2, <1>3, PTL DEF StartSpec
=============================================================================
