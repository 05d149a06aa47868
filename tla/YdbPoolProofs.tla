---------------------------- MODULE YdbPoolProofs ----------------------------
(* Proofs about YdbPool, for any finite set of clients and any number of   *)
(* drivers.                                                                *)
EXTENDS YdbPool, FiniteSetTheorems, TLAPS

(* Get and Release keep the types. *)
LEMMA PoolTypeInductive == PoolTypeOK /\ [PoolNext]_poolVars => PoolTypeOK'
<1> SUFFICES ASSUME PoolTypeOK, [PoolNext]_poolVars PROVE PoolTypeOK'
  OBVIOUS
<1> USE DEF PoolTypeOK
<1>1. ASSUME NEW c \in Clients, Get(c) PROVE PoolTypeOK'
  BY <1>1 DEF Get
<1>2. ASSUME NEW c \in Clients, Release(c) PROVE PoolTypeOK'
  BY <1>2 DEF Release
<1>3. CASE UNCHANGED poolVars
  BY <1>3 DEF poolVars
<1> QED
  BY <1>1, <1>2, <1>3 DEF PoolNext

(* The counters stay integers and clients hold drivers of the pool. *)
THEOREM PoolTypeCorrect == PoolSpec => []PoolTypeOK
<1>1. PoolInit => PoolTypeOK
  BY PoolAssumption DEF PoolInit, PoolTypeOK
<1> QED
  BY <1>1, PoolTypeInductive, PTL DEF PoolSpec

-----------------------------------------------------------------------------
(* A driver has finitely many holders. *)
LEMMA HoldersFinite ==
  \A d : IsFiniteSet(Holders(d)) /\ Cardinality(Holders(d)) \in Nat
  BY PoolAssumption, FS_Subset, FS_CardinalityType DEF Holders

PoolInv == PoolTypeOK /\ PoolBalanced

(* A Get adds its client to the holders of the chosen driver, and a        *)
(* Release takes it away: the counters follow.                             *)
LEMMA PoolInvInductive == PoolInv /\ [PoolNext]_poolVars => PoolInv'
<1> SUFFICES ASSUME PoolInv, [PoolNext]_poolVars PROVE PoolBalanced' /\ PoolTypeOK'
  BY DEF PoolInv
<1> USE DEF PoolInv, PoolTypeOK
<1>1. ASSUME NEW c \in Clients, Get(c) PROVE PoolBalanced' /\ PoolTypeOK'
  <2>1. PICK d \in Drivers : /\ inflight' = [inflight EXCEPT ![d] = @ + 1]
                             /\ held' = [held EXCEPT ![c] = d]
    BY <1>1 DEF Get
  <2>2. held[c] = NoDriver /\ c \notin Holders(d)
    BY <1>1 DEF Get, Holders, Drivers, NoDriver
  <2>3. Holders(d)' = Holders(d) \cup {c}
    BY <2>1 DEF Holders
  <2>4. \A e \in Drivers \ {d} : Holders(e)' = Holders(e)
    BY <2>1, <2>2 DEF Holders, Drivers, NoDriver
  <2>5. Cardinality(Holders(d)') = Cardinality(Holders(d)) + 1
    BY <2>2, <2>3, HoldersFinite, FS_AddElement
  <2>6. ASSUME NEW e \in Drivers PROVE inflight'[e] = Cardinality(Holders(e)')
    BY <2>1, <2>4, <2>5, e \in Drivers DEF PoolBalanced
  <2> QED
    BY <2>1, <2>6 DEF PoolBalanced, Holders
<1>2. ASSUME NEW c \in Clients, Release(c) PROVE PoolBalanced' /\ PoolTypeOK'
  <2>1. PICK d \in Drivers : /\ d = held[c]
                             /\ inflight' = [inflight EXCEPT ![d] = @ - 1]
                             /\ held' = [held EXCEPT ![c] = NoDriver]
    BY <1>2 DEF Release
  <2>2. c \in Holders(d)
    BY <2>1 DEF Holders
  <2>3. Holders(d)' = Holders(d) \ {c}
    BY <2>1 DEF Holders, Drivers, NoDriver
  <2>4. \A e \in Drivers \ {d} : Holders(e)' = Holders(e)
    BY <2>1 DEF Holders, Drivers, NoDriver
  <2>5. Cardinality(Holders(d)') = Cardinality(Holders(d)) - 1
    BY <2>2, <2>3, HoldersFinite, FS_RemoveElement
  <2>6. ASSUME NEW e \in Drivers PROVE inflight'[e] = Cardinality(Holders(e)')
    BY <2>1, <2>4, <2>5, e \in Drivers DEF PoolBalanced
  <2> QED
    BY <2>1, <2>6 DEF PoolBalanced, Holders
<1>3. CASE UNCHANGED poolVars
  BY <1>3 DEF poolVars, PoolBalanced, Holders
<1> QED
  BY <1>1, <1>2, <1>3 DEF PoolNext

LEMMA PoolInvInit == PoolInit => PoolInv
<1> SUFFICES ASSUME PoolInit PROVE PoolInv
  OBVIOUS
<1>1. PoolTypeOK
  BY PoolAssumption DEF PoolInit, PoolTypeOK
<1>2. ASSUME NEW d \in Drivers PROVE inflight[d] = Cardinality(Holders(d))
  <2>1. Holders(d) = {}
    BY DEF PoolInit, Holders, Drivers, NoDriver
  <2> QED
    BY <2>1, FS_EmptySet DEF PoolInit
<1> QED
  BY <1>1, <1>2 DEF PoolInv, PoolBalanced

(* The counter of a driver is the number of goroutines between Get and     *)
(* Release on it.                                                          *)
THEOREM PoolIsBalanced == PoolSpec => []PoolBalanced
<1>1. PoolInv => PoolBalanced
  BY DEF PoolInv
<1> QED
  BY <1>1, PoolInvInit, PoolInvInductive, PTL DEF PoolSpec

(* The panic of Release, "released more times, then get", is unreachable:  *)
(* no counter is ever negative.                                            *)
THEOREM CountersNeverNegative == PoolSpec => [](\A d \in Drivers : inflight[d] >= 0)
<1>1. PoolInv => \A d \in Drivers : inflight[d] >= 0
  BY HoldersFinite DEF PoolInv, PoolBalanced
<1> QED
  BY <1>1, PoolInvInit, PoolInvInductive, PTL DEF PoolSpec

-----------------------------------------------------------------------------
(* If every driver has at least m holders and some client holds none, the  *)
(* drivers times m are fewer than the clients: numbering the holders of    *)
(* each driver maps the pairs <<driver, k>>, k in 1..m, to different       *)
(* clients, and never to the one that holds nothing.                       *)
LEMMA HoldersFillDrivers ==
  ASSUME PoolInv, NEW m \in Nat, \A e \in Drivers : m <= inflight[e],
         NEW c \in Clients, held[c] = NoDriver
  PROVE  DriverCount * m < Cardinality(Clients)
<1> DEFINE Number(e) == CHOOSE b : b \in Bijection(1..inflight[e], Holders(e))
           f == [x \in Drivers \X (1..m) |-> Number(x[1])[x[2]]]
<1>1. \A e \in Drivers : inflight[e] \in Nat /\ 1..m \subseteq 1..inflight[e]
  BY HoldersFinite DEF PoolInv, PoolTypeOK, PoolBalanced
<1>2. ASSUME NEW e \in Drivers PROVE Number(e) \in Bijection(1..inflight[e], Holders(e))
  <2>1. ExistsBijection(1..inflight[e], Holders(e))
    BY <1>1, HoldersFinite, FS_CardinalityType DEF PoolInv, PoolBalanced
  <2> QED
    BY <2>1 DEF ExistsBijection
<1>3. ASSUME NEW e \in Drivers
      PROVE  /\ Number(e) \in [1..inflight[e] -> Holders(e)]
             /\ \A j, k \in 1..inflight[e] : Number(e)[j] = Number(e)[k] => j = k
  BY <1>2 DEF Bijection, Injection, IsInjective
<1> HIDE DEF Number
<1>4. ASSUME NEW e \in Drivers, NEW k \in 1..m
      PROVE  Number(e)[k] \in Clients /\ held[Number(e)[k]] = e
  BY <1>1, <1>3 DEF Holders
<1>5. f \in Injection(Drivers \X (1..m), Clients)
  <2>1. f \in [Drivers \X (1..m) -> Clients]
    BY <1>4
  <2>2. ASSUME NEW x \in Drivers \X (1..m), NEW y \in Drivers \X (1..m), f[x] = f[y]
        PROVE  x = y
    <3>1. x[1] = y[1]
      BY <1>4, <2>2
    <3>2. x[2] = y[2]
      BY <1>1, <1>3, <2>2, <3>1
    <3> QED
      BY <3>1, <3>2
  <2> QED
    BY <2>1, <2>2 DEF Injection, IsInjective
<1>6. f \notin Surjection(Drivers \X (1..m), Clients)
  <2>1. \A x \in Drivers \X (1..m) : f[x] # c
    BY <1>4 DEF Drivers, NoDriver
  <2> QED
    BY <2>1 DEF Surjection
<1>7. /\ IsFiniteSet(Drivers) /\ Cardinality(Drivers) = DriverCount
      /\ IsFiniteSet(1..m) /\ Cardinality(1..m) = m
  BY PoolAssumption, FS_Interval DEF Drivers
<1>8. Cardinality(Drivers \X (1..m)) = DriverCount * m
  BY <1>7, FS_Product
<1>9. Cardinality(Drivers \X (1..m)) < Cardinality(Clients)
  <2> HIDE DEF f
  <2> QED
    BY <1>5, <1>6, FS_Injection, FS_CardinalityType, PoolAssumption
<1> QED
  BY <1>8, <1>9

(* Get only raises the counter of a least loaded driver, and its client    *)
(* holds no driver, so the bound on the least counter carries over.        *)
LEMMA SpreadInductive ==
  PoolInv /\ PoolSpread /\ [PoolNext]_poolVars => PoolSpread'
<1> SUFFICES ASSUME PoolInv, PoolSpread, [PoolNext]_poolVars, NEW e \in Drivers
             PROVE  DriverCount * (inflight'[e] - 1) < Cardinality(Clients)
  BY DEF PoolSpread
<1>0. /\ \A d \in Drivers : inflight[d] \in Nat
      /\ DriverCount * (inflight[e] - 1) < Cardinality(Clients)
      /\ DriverCount \in Nat \ {0}
      /\ Cardinality(Clients) \in Nat
  BY HoldersFinite, PoolAssumption, FS_CardinalityType DEF PoolInv, PoolBalanced, PoolSpread
<1>1. ASSUME NEW c \in Clients, Get(c)
      PROVE  DriverCount * (inflight'[e] - 1) < Cardinality(Clients)
  <2>1. PICK d \in Drivers : /\ \A k \in Drivers : inflight[d] <= inflight[k]
                             /\ inflight' = [inflight EXCEPT ![d] = @ + 1]
    BY <1>1 DEF Get, MinInflight
  <2>2. CASE e = d
    <3>1. DriverCount * inflight[d] < Cardinality(Clients)
      BY <1>0, <1>1, <2>1, HoldersFillDrivers DEF Get
    <3>2. inflight'[e] - 1 = inflight[d]
      BY <1>0, <2>1, <2>2 DEF PoolInv, PoolTypeOK
    <3> QED
      BY <3>1, <3>2
  <2>3. CASE e # d
    BY <1>0, <2>1, <2>3 DEF PoolInv, PoolTypeOK
  <2> QED
    BY <2>2, <2>3
<1>2. ASSUME NEW c \in Clients, Release(c)
      PROVE  DriverCount * (inflight'[e] - 1) < Cardinality(Clients)
  <2>1. inflight'[e] = inflight[e] \/ inflight'[e] = inflight[e] - 1
    BY <1>0, <1>2 DEF Release, PoolInv, PoolTypeOK
  <2>2. DriverCount * (inflight[e] - 1 - 1) = DriverCount * (inflight[e] - 1) - DriverCount
    BY <1>0
  <2> QED
    BY <1>0, <2>1, <2>2
<1>3. CASE UNCHANGED poolVars
  BY <1>0, <1>3 DEF poolVars
<1> QED
  BY <1>1, <1>2, <1>3 DEF PoolNext

(* "Get return driver with minimal current inflight": no driver ever       *)
(* carries more than the ceiling of clients / drivers, whatever the order  *)
(* in which the drivers come back.                                         *)
THEOREM PoolSpreads == PoolSpec => []PoolSpread
<1>1. PoolInit => PoolSpread
  <2> SUFFICES ASSUME PoolInit, NEW d \in Drivers
               PROVE  DriverCount * (inflight[d] - 1) < Cardinality(Clients)
    BY DEF PoolSpread
  <2>1. inflight[d] - 1 = -1 /\ DriverCount * (-1) = -DriverCount
    BY PoolAssumption DEF PoolInit
  <2>2. Cardinality(Clients) \in Nat
    BY PoolAssumption, FS_CardinalityType
  <2> QED
    BY <2>1, <2>2, PoolAssumption
<1> QED
  BY <1>1, PoolInvInit, PoolInvInductive, SpreadInductive, PTL DEF PoolSpec
=============================================================================
