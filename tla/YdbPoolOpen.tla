----------------------------- MODULE YdbPoolOpen -----------------------------
(***************************************************************************)
(* OpenYdbPool of internal/ydb_pool.go: one goroutine per connection       *)
(* string opens a driver and appends it to a shared slice under a mutex;   *)
(* the opener waits for all of them and makes the pool of what they        *)
(* appended, or ends the process when that is nothing.                     *)
(*                                                                         *)
(* append reads the slice header, writes the element behind the end it     *)
(* read and stores the new header: two steps, which the mutex holds        *)
(* together.  The array has the capacity of all drivers from the start.    *)
(***************************************************************************)
EXTENDS Integers, Sequences, FiniteSets

CONSTANTS Endpoints,    \* the connection strings; equal strings are told apart
          Nobody        \* the mutex is free

ASSUME OpenAssumption ==
  /\ IsFiniteSet(Endpoints)
  /\ Nobody \notin Endpoints

VARIABLES stage,     \* where the goroutine of each endpoint is
          mutex,     \* the goroutine that holds m
          drivers,   \* the slice: drivers[1..len] is what can be seen
          len,       \* its length
          seen,      \* seen[e]: the length that the append of e read
          opened,    \* the endpoints that ydb.Open connected to
          opener     \* "waiting", "ready" (the pool is made) or "fatal"

openVars == <<stage, mutex, drivers, len, seen, opened, opener>>

OpenInit ==
  /\ stage = [e \in Endpoints |-> "connect"]
  /\ mutex = Nobody
  /\ drivers = [i \in 1..Cardinality(Endpoints) |-> Nobody]
  /\ len = 0
  /\ seen = [e \in Endpoints |-> 0]
  /\ opened = {}
  /\ opener = "waiting"

Step(e, from, to) == stage[e] = from /\ stage' = [stage EXCEPT ![e] = to]

(* ydb.Open answers, or the ten seconds of its context are over. *)
Connect(e) ==
  /\ \/ Step(e, "connect", "lock") /\ opened' = opened \cup {e}
     \/ Step(e, "connect", "done") /\ UNCHANGED opened
  /\ UNCHANGED <<mutex, drivers, len, seen, opener>>

(* Mutant of LockSlice: the slice is not protected. *)
LockNothing(e) ==
  /\ Step(e, "lock", "append")
  /\ mutex' = e
  /\ UNCHANGED <<drivers, len, seen, opened, opener>>

LockSlice(e) ==
  /\ Step(e, "lock", "append")
  /\ mutex = Nobody
  /\ mutex' = e
  /\ UNCHANGED <<drivers, len, seen, opened, opener>>

AppendRead(e) ==
  /\ Step(e, "append", "store")
  /\ seen' = [seen EXCEPT ![e] = len]
  /\ UNCHANGED <<mutex, drivers, len, opened, opener>>

AppendStore(e) ==
  /\ Step(e, "store", "unlock")
  /\ drivers' = [drivers EXCEPT ![seen[e] + 1] = e]
  /\ len' = seen[e] + 1
  /\ UNCHANGED <<mutex, seen, opened, opener>>

(* Mutant of UnlockSlice: the mutex is kept. *)
KeepSlice(e) ==
  /\ Step(e, "unlock", "done")
  /\ UNCHANGED <<mutex, drivers, len, seen, opened, opener>>

UnlockSlice(e) ==
  /\ Step(e, "unlock", "done")
  /\ mutex' = Nobody
  /\ UNCHANGED <<drivers, len, seen, opened, opener>>

(* wg.Wait, then log.Fatalf or NewYdbPool. *)
MakePool ==
  /\ opener = "waiting"
  /\ \A e \in Endpoints : stage[e] = "done"
  /\ opener' = IF len = 0 THEN "fatal" ELSE "ready"
  /\ UNCHANGED <<stage, mutex, drivers, len, seen, opened>>

Open(e) == Connect(e) \/ LockSlice(e) \/ AppendRead(e) \/ AppendStore(e) \/ UnlockSlice(e)

Opened == opener # "waiting" /\ UNCHANGED openVars

OpenNext == (\E e \in Endpoints : Open(e)) \/ MakePool \/ Opened

OpenSpec == OpenInit /\ [][OpenNext]_openVars

-----------------------------------------------------------------------------
(* The pool holds each driver that was opened, once, and nothing else: no  *)
(* append is lost however the goroutines interleave; and the process gives *)
(* up only when no endpoint could be reached.                              *)
PoolHoldsEveryDriver ==
  opener # "waiting" =>
    /\ {drivers[i] : i \in 1..len} = opened
    /\ len = Cardinality(opened)
    /\ opener = "fatal" <=> opened = {}
=============================================================================
