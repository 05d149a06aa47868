------------------------------- MODULE YdbPool -------------------------------
(***************************************************************************)
(* The pool of YDB drivers of internal/ydb_pool.go: a mutex and a slice of *)
(* (driver, inflight counter) pairs.  Get and Release hold the mutex for   *)
(* their whole body, so each is one atomic action.  A client is a checker  *)
(* goroutine; it uses the pool the way checkQuery does: one Get, one       *)
(* deferred Release of the same driver.                                    *)
(*                                                                         *)
(* ydb.Open never returns the same *ydb.Driver twice, so a driver is       *)
(* identified with the index of its slot.                                  *)
(***************************************************************************)
EXTENDS Integers, FiniteSets

CONSTANTS Clients,       \* the goroutines that use the pool
          DriverCount    \* len(p.drivers)

ASSUME PoolAssumption ==
  /\ IsFiniteSet(Clients)
  /\ Clients # {}
  /\ DriverCount \in Nat \ {0}     \* NewYdbPool panics on an empty slice

VARIABLES inflight,   \* drivers[d].inflyght
          held        \* held[c]: the driver c got and has not released, or NoDriver

poolVars == <<inflight, held>>

Drivers  == 1..DriverCount
NoDriver == 0

PoolInit ==
  /\ inflight = [d \in Drivers |-> 0]
  /\ held = [c \in Clients |-> NoDriver]

(* Mutant of MinInflight: the comparison is the wrong way round. *)
MaxInflight(d) == \A e \in Drivers : inflight[d] >= inflight[e]

(* The scan of Get keeps the first slot whose counter is minimal. *)
MinInflight(d) ==
  \A e \in Drivers : /\ inflight[d] <= inflight[e]
                     /\ e < d => inflight[d] < inflight[e]

(* Mutant of Get: the index is moved on after the slot was chosen. *)
GetNextSlot(c) ==
  /\ held[c] = NoDriver
  /\ \E d \in Drivers :
       /\ MinInflight(d)
       /\ inflight' = [inflight EXCEPT ![d] = @ + 1]
       /\ held' = [held EXCEPT ![c] = d + 1]

Get(c) ==
  /\ held[c] = NoDriver
  /\ \E d \in Drivers :
       /\ MinInflight(d)
       /\ inflight' = [inflight EXCEPT ![d] = @ + 1]
       /\ held' = [held EXCEPT ![c] = d]

(* Mutant of Release: the counter is not given back. *)
ReleaseWithoutCounter(c) ==
  /\ held[c] # NoDriver
  /\ held' = [held EXCEPT ![c] = NoDriver]
  /\ UNCHANGED inflight

(* The counter is decremented before it is tested, so a panic leaves it    *)
(* negative.  The other panic (unknown driver) cannot be reached by a      *)
(* client that releases what Get returned.                                 *)
Release(c) ==
  /\ held[c] # NoDriver
  /\ inflight' = [inflight EXCEPT ![held[c]] = @ - 1]
  /\ held' = [held EXCEPT ![c] = NoDriver]

PoolNext == \E c \in Clients : Get(c) \/ Release(c)

PoolSpec == PoolInit /\ [][PoolNext]_poolVars

-----------------------------------------------------------------------------
Holders(d) == {c \in Clients : held[c] = d}

(* Type invariant of the pool: the counters are integers (a Go int may go  *)
(* negative) and every client holds a driver of the pool or none.          *)
PoolTypeOK ==
  /\ inflight \in [Drivers -> Int]
  /\ held \in [Clients -> Drivers \cup {NoDriver}]

(* The counter of a driver is exactly the number of goroutines between Get *)
(* and Release on it, whatever the interleaving.  In particular it is      *)
(* never negative, so the panic "released more times, then get" of         *)
(* ydb_pool.go:91 is unreachable.                                          *)
PoolBalanced == \A d \in Drivers : inflight[d] = Cardinality(Holders(d))

(* "Get return driver with minimal current inflight" (ydb_pool.go:67)      *)
(* spreads the load: no driver ever carries more than the ceiling of       *)
(* (clients / drivers) queries, although releases come in any order.       *)
PoolSpread ==
  \A d \in Drivers : DriverCount * (inflight[d] - 1) < Cardinality(Clients)
=============================================================================
