----------------------- MODULE LogManagerFactory_proofs -----------------------
(* Proofs about LogManagerFactory: the registry is exact for every application, and for C++
   modules the names in a pool count its owners. *)
EXTENDS LogManagerFactory, WellFoundedInduction, TLAPS

\* The members of the factory have their types.
RegistryType ==
    /\ shared \in [Hosts -> [names : SUBSET AllNames, instance : Instances \cup {NoInstance}]]
    /\ exclusive \in [AllNames -> Instances \cup {NoInstance}]
    /\ managers \subseteq Instances

\* The inductive invariant of the registry.
RInv == RegistryType /\ RegistryIsExact /\ AnyHostIsAlone

\* std::map's first key: a set that is not empty has one.
LEMMA FirstIn == ASSUME NEW S, S \subseteq Nat, S # {} PROVE First(S) \in S
<1>1. S \subseteq Nat
  BY Zenon
<1>2. PICK x \in S : \A y \in S : ~ (<<y, x>> \in OpToRel(<, Nat))
  BY <1>1, WFMin, NatLessThanWellFounded, Zenon
<1>3. ASSUME NEW y \in S PROVE x <= y
  <2>1. y < x => <<y, x>> \in OpToRel(<, Nat)
    BY <1>1, Zenon DEF OpToRel
  <2>2. ~ (y < x)
    BY <1>2, <2>1, Zenon
  <2> QED
    BY <1>1, <2>2
<1> QED
  BY <1>2, <1>3, Zenon DEF First

\* Hosts are numbers, and the values that stand for none are apart.
LEMMA HostFacts ==
    /\ AnyHost \in Hosts
    /\ NoHost \notin Hosts
    /\ AllNames \subseteq Hosts
    /\ Hosts \subseteq Nat
    /\ NoInstance \notin Instances
<1>1. \A n \in AllNames : n \in Nat
  <2>1. \A h \in Handles : TokenName(h) \in Nat
    BY ConstantsOK DEF TokenName
  <2>2. \A n \in Names : n \in Nat
    BY ConstantsOK
  <2> QED
    BY <2>1, <2>2, Zenon DEF AllNames
<1> QED
  BY <1>1, ConstantsOK DEF Hosts, AnyHost, NoHost

\* A name joins a pool.
LEMMA AddName_RInv ==
    ASSUME RInv, NEW h \in Pools, NEW n \in AllNames, AddName(h, n),
           UNCHANGED <<exclusive, managers>>
    PROVE  RInv'
<1>1. /\ h \in Hosts
      /\ shared'[h] = [names |-> shared[h].names \cup {n}, instance |-> shared[h].instance]
      /\ \A g \in Hosts : g # h => shared'[g] = shared[g]
      /\ shared' \in [Hosts -> [names : SUBSET AllNames, instance : Instances \cup {NoInstance}]]
  BY Zenon DEF RInv, RegistryType, AddName, Pools
<1>2. Pools' = Pools
  BY <1>1 DEF Pools, NoPool
<1>3. \A g \in Hosts : shared'[g].instance = shared[g].instance
  BY <1>1
<1>4. RegistryType'
  BY <1>1, Zenon DEF RInv, RegistryType
<1>5. RegistryIsExact'
  <2>1. \A g \in Pools : shared'[g].names # {}
    BY <1>1 DEF RInv, RegistryIsExact, Pools
  <2> QED
    BY <1>2, <1>3, <2>1 DEF RInv, RegistryIsExact, Pools
<1> QED
  BY <1>2, <1>4, <1>5, Zenon DEF RInv, AnyHostIsAlone

\* Guests without a host move to the pool of the first one.
LEMMA Rehome_RInv ==
    ASSUME RInv, NEW h \in Hosts, NEW n \in AllNames, AnyHost \in Pools, h \notin Pools,
           Rehome(n, h), UNCHANGED <<exclusive, managers>>
    PROVE  RInv' /\ Pools' = {h} /\ shared'[h].instance = shared[AnyHost].instance
                 /\ shared'[h].names = shared[AnyHost].names \cup {n}
<1>1. /\ h # AnyHost
      /\ shared'[h] = [names |-> shared[AnyHost].names \cup {n},
                       instance |-> shared[AnyHost].instance]
      /\ shared'[AnyHost] = NoPool
      /\ \A g \in Hosts \ {h, AnyHost} : shared'[g] = shared[g]
      /\ shared' \in [Hosts -> [names : SUBSET AllNames, instance : Instances \cup {NoInstance}]]
  <2>1. h # AnyHost
    BY Zenon
  <2> DEFINE moved == [shared[AnyHost] EXCEPT !.names = @ \cup {n}]
  <2>a. shared[AnyHost] \in [names : SUBSET AllNames, instance : Instances \cup {NoInstance}]
    BY HostFacts, Zenon DEF RInv, RegistryType
  <2>2. /\ moved = [names |-> shared[AnyHost].names \cup {n}, instance |-> shared[AnyHost].instance]
        /\ moved \in [names : SUBSET AllNames, instance : Instances \cup {NoInstance}]
    BY <2>a
  <2>3. NoPool \in [names : SUBSET AllNames, instance : Instances \cup {NoInstance}]
    BY Zenon DEF NoPool
  <2>4. shared' = [shared EXCEPT ![h] = moved, ![AnyHost] = NoPool]
    BY Zenon DEF Rehome
  <2> HIDE DEF moved
  <2> QED
    BY <2>1, <2>2, <2>3, <2>4, HostFacts, Zenon DEF RInv, RegistryType
<1>2. Pools = {AnyHost}
  BY Zenon DEF RInv, AnyHostIsAlone
<1>3. Pools' = {h}
  <2>1. shared'[h] # NoPool
    <3>1. n \in shared'[h].names
      BY <1>1
    <3> QED
      BY <3>1 DEF NoPool
  <2>2. ASSUME NEW g \in Hosts, g # h PROVE shared'[g] = NoPool
    <3>1. CASE g = AnyHost
      BY <1>1, <3>1, Zenon
    <3>2. CASE g # AnyHost
      BY <1>1, <1>2, <2>2, <3>2, Zenon DEF Pools
    <3> QED
      BY <3>1, <3>2, Zenon
  <2> QED
    BY <2>1, <2>2, Zenon DEF Pools
<1>4. RegistryType'
  BY <1>1, Zenon DEF RInv, RegistryType
<1>5. RegistryIsExact'
  <2>1. shared'[h].names # {} /\ shared'[h].instance \in managers
    BY <1>1, <1>2 DEF RInv, RegistryIsExact
  <2>2. \A k \in AllNames : shared'[h].instance # exclusive[k]
    BY <1>1, <1>2 DEF RInv, RegistryIsExact
  <2>3. \A i \in managers : \/ shared'[h].instance = i
                            \/ \E k \in AllNames : exclusive[k] = i
    BY <1>1, <1>2 DEF RInv, RegistryIsExact
  <2> QED
    BY <1>3, <2>1, <2>2, <2>3, Zenon DEF RInv, RegistryIsExact
<1> QED
  BY <1>1, <1>3, <1>4, <1>5 DEF RInv, AnyHostIsAlone

\* A new pool with a new instance.
LEMMA NewPool_RInv ==
    ASSUME RInv, NEW h \in Hosts, NEW n \in AllNames, NEW i \in Instances \ managers,
           h \notin Pools, AnyHost \notin Pools, h = AnyHost => Pools = {},
           shared' = [shared EXCEPT ![h] = [names |-> {n}, instance |-> i]],
           managers' = managers \cup {i}, UNCHANGED exclusive
    PROVE  RInv'
<1>1. /\ shared'[h] = [names |-> {n}, instance |-> i]
      /\ \A g \in Hosts \ {h} : shared'[g] = shared[g]
      /\ shared' \in [Hosts -> [names : SUBSET AllNames, instance : Instances \cup {NoInstance}]]
  BY Zenon DEF RInv, RegistryType
<1>2. Pools' = Pools \cup {h}
  BY <1>1, Zenon DEF Pools, NoPool
<1>3. RegistryType'
  BY <1>1, Zenon DEF RInv, RegistryType
<1>4. \A g \in Pools : shared'[g] = shared[g] /\ shared[g].instance # i
  BY <1>1 DEF RInv, RegistryIsExact, Pools
<1>5. \A k \in AllNames : exclusive[k] # i
  BY HostFacts DEF RInv, RegistryIsExact
<1>6. RegistryIsExact'
  <2>1. \A g \in Pools' : shared'[g].names # {} /\ shared'[g].instance \in managers'
    BY <1>1, <1>2, <1>4 DEF RInv, RegistryIsExact
  <2>2. \A k \in AllNames : exclusive'[k] # NoInstance => exclusive'[k] \in managers'
    BY Zenon DEF RInv, RegistryIsExact
  <2>3. \A g, k \in Pools' : shared'[g].instance = shared'[k].instance => g = k
    BY <1>1, <1>2, <1>4 DEF RInv, RegistryIsExact
  <2>4. \A g \in Pools', k \in AllNames : shared'[g].instance # exclusive'[k]
    BY <1>1, <1>2, <1>4, <1>5 DEF RInv, RegistryIsExact
  <2>5. \A j \in managers' : \/ \E g \in Pools' : shared'[g].instance = j
                             \/ \E k \in AllNames : exclusive'[k] = j
    BY <1>1, <1>2, <1>4 DEF RInv, RegistryIsExact
  <2> QED
    BY <2>1, <2>2, <2>3, <2>4, <2>5 DEF RInv, RegistryIsExact
<1> QED
  BY <1>2, <1>3, <1>6, Zenon DEF RInv, AnyHostIsAlone

\* An exclusive instance is created.
LEMMA NewExclusive_RInv ==
    ASSUME RInv, NEW n \in AllNames, NEW i \in Instances \ managers,
           exclusive[n] = NoInstance, exclusive' = [exclusive EXCEPT ![n] = i],
           managers' = managers \cup {i}, UNCHANGED shared
    PROVE  RInv'
<1>1. /\ exclusive'[n] = i
      /\ \A k \in AllNames \ {n} : exclusive'[k] = exclusive[k]
      /\ exclusive' \in [AllNames -> Instances \cup {NoInstance}]
  BY Zenon DEF RInv, RegistryType
<1>2. Pools' = Pools
  BY Zenon DEF Pools
<1>3. (\A g \in Pools : shared[g].instance # i) /\ (\A k \in AllNames : exclusive[k] # i)
  BY HostFacts DEF RInv, RegistryIsExact
<1>4. RegistryIsExact'
  <2>1. \A k \in AllNames : exclusive'[k] # NoInstance => exclusive'[k] \in managers'
    BY <1>1 DEF RInv, RegistryIsExact
  <2>2. \A k, l \in AllNames : exclusive'[k] = exclusive'[l] /\ exclusive'[k] # NoInstance => k = l
    BY <1>1, <1>3 DEF RInv, RegistryIsExact
  <2>3. \A g \in Pools, k \in AllNames : shared[g].instance # exclusive'[k]
    BY <1>1, <1>3 DEF RInv, RegistryIsExact
  <2>4. \A j \in managers' : \/ \E g \in Pools : shared[g].instance = j
                             \/ \E k \in AllNames : exclusive'[k] = j
    BY <1>1, HostFacts DEF RInv, RegistryIsExact, RegistryType
  <2> QED
    BY <1>2, <2>1, <2>2, <2>3, <2>4 DEF RInv, RegistryIsExact
<1> QED
  BY <1>1, <1>2, <1>4, Zenon DEF RInv, RegistryType, AnyHostIsAlone

\* A name leaves a pool that keeps others.
LEMMA DropName_RInv ==
    ASSUME RInv, NEW h \in Pools, NEW n \in shared[h].names, shared[h].names # {n},
           RemoveName(h, n), UNCHANGED exclusive
    PROVE  /\ RInv'
           /\ Pools' = Pools
           /\ managers' = managers
           /\ \A g \in Pools : shared'[g].instance = shared[g].instance
           /\ shared'[h].names = shared[h].names \ {n}
           /\ \A g \in Pools \ {h} : shared'[g].names = shared[g].names
<1>1. /\ h \in Hosts
      /\ shared'[h] = [names |-> shared[h].names \ {n}, instance |-> shared[h].instance]
      /\ \A g \in Hosts : g # h => shared'[g] = shared[g]
      /\ shared' \in [Hosts -> [names : SUBSET AllNames, instance : Instances \cup {NoInstance}]]
      /\ managers' = managers
  BY DEF RInv, RegistryType, RemoveName, Pools
<1>2. shared[h].names \ {n} # {}
  BY Zenon
<1>3. Pools' = Pools
  BY <1>1, <1>2 DEF Pools, NoPool
<1>4. \A g \in Hosts : shared'[g].instance = shared[g].instance
  BY <1>1
<1>5. RegistryType'
  BY <1>1, Zenon DEF RInv, RegistryType
<1>6. RegistryIsExact'
  <2>1. \A g \in Pools : shared'[g].names # {}
    BY <1>1, <1>2 DEF RInv, RegistryIsExact, Pools
  <2> QED
    BY <1>1, <1>3, <1>4, <2>1 DEF RInv, RegistryIsExact, Pools
<1>7. \A g \in Pools : g \in Hosts
  BY Zenon DEF Pools
<1> QED
  BY <1>1, <1>3, <1>4, <1>5, <1>6, <1>7 DEF RInv, AnyHostIsAlone

\* The last name of a pool takes the pool and its instance with it.
LEMMA DropPool_RInv ==
    ASSUME RInv, NEW h \in Pools, NEW n, shared[h].names = {n},
           RemoveName(h, n), UNCHANGED exclusive
    PROVE  /\ RInv'
           /\ Pools' = Pools \ {h}
           /\ managers' = managers \ {shared[h].instance}
           /\ \A g \in Pools \ {h} : shared'[g] = shared[g]
<1>1. /\ h \in Hosts
      /\ shared'[h] = NoPool
      /\ \A g \in Hosts : g # h => shared'[g] = shared[g]
      /\ shared' \in [Hosts -> [names : SUBSET AllNames, instance : Instances \cup {NoInstance}]]
      /\ managers' = managers \ {shared[h].instance}
  BY DEF RInv, RegistryType, RemoveName, Destroy, Pools, NoPool
<1>2. Pools' = Pools \ {h}
  BY <1>1, Zenon DEF Pools
<1>3. \A g \in Pools \ {h} : shared'[g] = shared[g] /\ shared[g].instance # shared[h].instance
  BY <1>1, Zenon DEF RInv, RegistryIsExact, Pools
<1>4. RegistryType'
  BY <1>1, Zenon DEF RInv, RegistryType
<1>5. RegistryIsExact'
  <2>1. \A g \in Pools' : shared'[g].names # {} /\ shared'[g].instance \in managers'
    BY <1>1, <1>2, <1>3, Zenon DEF RInv, RegistryIsExact
  <2>2. \A k \in AllNames : exclusive'[k] # NoInstance => exclusive'[k] \in managers'
    BY <1>1, Zenon DEF RInv, RegistryIsExact
  <2>3. \A g, k \in Pools' : shared'[g].instance = shared'[k].instance => g = k
    BY <1>2, <1>3 DEF RInv, RegistryIsExact
  <2>4. \A g \in Pools', k \in AllNames : shared'[g].instance # exclusive'[k]
    BY <1>2, <1>3 DEF RInv, RegistryIsExact
  <2>5. \A j \in managers' : \/ \E g \in Pools' : shared'[g].instance = j
                             \/ \E k \in AllNames : exclusive'[k] = j
    BY <1>1, <1>2, <1>3 DEF RInv, RegistryIsExact
  <2> QED
    BY <2>1, <2>2, <2>3, <2>4, <2>5 DEF RInv, RegistryIsExact
<1> QED
  BY <1>1, <1>2, <1>3, <1>4, <1>5, Zenon DEF RInv, AnyHostIsAlone

\* An exclusive instance is destroyed.
LEMMA ReleaseExclusive_RInv ==
    ASSUME RInv, NEW n \in AllNames, ReleaseExclusive(n)
    PROVE  RInv'
<1>1. CASE exclusive[n] = NoInstance
  BY <1>1 DEF ReleaseExclusive, RInv, RegistryType, RegistryIsExact, AnyHostIsAlone, Pools
<1>2. CASE exclusive[n] # NoInstance
  <2>1. /\ exclusive'[n] = NoInstance
        /\ \A k \in AllNames \ {n} : exclusive'[k] = exclusive[k]
        /\ exclusive' \in [AllNames -> Instances \cup {NoInstance}]
        /\ managers' = managers \ {exclusive[n]}
        /\ shared' = shared
    BY <1>2, Zenon DEF ReleaseExclusive, Destroy, RInv, RegistryType
  <2>2. Pools' = Pools
    BY <2>1, Zenon DEF Pools
  <2>3. RegistryIsExact'
    <3>1. \A g \in Pools : shared[g].names # {} /\ shared[g].instance \in managers'
      BY <2>1, Zenon DEF RInv, RegistryIsExact
    <3>2. \A k \in AllNames : exclusive'[k] # NoInstance => exclusive'[k] \in managers'
      BY <1>2, <2>1 DEF RInv, RegistryIsExact
    <3>3. \A k, l \in AllNames : exclusive'[k] = exclusive'[l] /\ exclusive'[k] # NoInstance => k = l
      BY <2>1 DEF RInv, RegistryIsExact
    <3>4. \A g \in Pools : shared[g].instance # NoInstance
      BY HostFacts DEF RInv, RegistryIsExact, RegistryType
    <3>5. \A g \in Pools, k \in AllNames : shared[g].instance # exclusive'[k]
      BY <2>1, <3>4 DEF RInv, RegistryIsExact
    <3>6. \A j \in managers' : \/ \E g \in Pools : shared[g].instance = j
                               \/ \E k \in AllNames : exclusive'[k] = j
      BY <2>1 DEF RInv, RegistryIsExact
    <3> QED
      BY <2>1, <2>2, <3>1, <3>2, <3>3, <3>5, <3>6 DEF RInv, RegistryIsExact
  <2> QED
    BY <2>1, <2>2, <2>3, Zenon DEF RInv, RegistryType, AnyHostIsAlone
<1> QED
  BY <1>1, <1>2, Zenon

\* lease, for every configuration: its name and host are all that is read of it.
LEMMA Lease_RInv ==
    ASSUME RInv, NEW c, c.name \in AllNames, c.host \in Hosts \cup {NoHost}, NEW i, Lease(c, i)
    PROVE  RInv'
<1>1. CASE Lease_Exclusive(c, i)
  <2>1. CASE exclusive[c.name] = NoInstance
    BY <1>1, <2>1, NewExclusive_RInv, Zenon DEF Lease_Exclusive, Create
  <2>2. CASE exclusive[c.name] # NoInstance
    BY <1>1, <2>2 DEF Lease_Exclusive, NoCreate, RInv, RegistryType, RegistryIsExact,
                      AnyHostIsAlone, Pools
  <2> QED
    BY <2>1, <2>2, Zenon
<1>2. CASE Lease_AnyHost(c, i)
  <2>1. First(Pools) \in Pools
    BY <1>2, FirstIn, HostFacts, Zenon DEF Lease_AnyHost, Pools
  <2> QED
    BY <1>2, <2>1, AddName_RInv, Zenon DEF Lease_AnyHost, NoCreate
<1>3. CASE Lease_Host(c, i)
  <2>1. CASE c.host \in Pools
    BY <1>3, <2>1, AddName_RInv, Zenon DEF Lease_Host, NoCreate
  <2>2. CASE c.host \notin Pools /\ AnyHost \in Pools
    BY <1>3, <2>2, Rehome_RInv, Zenon DEF Lease_Host, NoCreate
  <2>3. CASE c.host \notin Pools /\ AnyHost \notin Pools
    BY <1>3, <2>3, NewPool_RInv, Zenon DEF Lease_Host, Create
  <2> QED
    BY <2>1, <2>2, <2>3, Zenon
<1> QED
  BY <1>1, <1>2, <1>3, Zenon DEF Lease

\* A name leaves a pool it is in.
LEMMA RemoveName_RInv ==
    ASSUME RInv, NEW n \in AllNames, NEW h \in PoolsOf(n), RemoveName(h, n), UNCHANGED exclusive
    PROVE  RInv'
<1>1. h \in Pools /\ n \in shared[h].names
  BY Zenon DEF PoolsOf
<1>2. CASE shared[h].names = {n}
  BY <1>1, <1>2, DropPool_RInv, Zenon
<1>3. CASE shared[h].names # {n}
  BY <1>1, <1>3, DropName_RInv, Zenon
<1> QED
  BY <1>2, <1>3, Zenon

\* release by name.
LEMMA ReleaseName_RInv == ASSUME RInv, NEW n \in AllNames, ReleaseName(n) PROVE RInv'
<1>1. CASE PoolsOf(n) = {}
  BY <1>1 DEF ReleaseName, RInv, RegistryType, RegistryIsExact, AnyHostIsAlone, Pools
<1>2. CASE PoolsOf(n) # {}
  <2>1. First(PoolsOf(n)) \in PoolsOf(n)
    BY <1>2, FirstIn, HostFacts, Zenon DEF PoolsOf, Pools
  <2> QED
    BY <1>2, <2>1, RemoveName_RInv, Zenon DEF ReleaseName
<1> QED
  BY <1>1, <1>2, Zenon

\* release by name and host.
LEMMA Release_RInv == ASSUME RInv, NEW n \in AllNames, NEW h, Release(n, h) PROVE RInv'
<1>1. CASE h = NoHost
  BY <1>1, ReleaseExclusive_RInv, Zenon DEF Release
<1>2. CASE h # NoHost /\ h \in PoolsOf(n)
  BY <1>2, RemoveName_RInv, Zenon DEF Release
<1>3. CASE h # NoHost /\ h \notin PoolsOf(n)
  BY <1>3, ReleaseName_RInv, Zenon DEF Release
<1> QED
  BY <1>1, <1>2, <1>3, Zenon

\* Every call of a module or a C client keeps the registry exact.
LEMMA Next_RInv == ASSUME RInv, [Next]_vars PROVE RInv'
<1> USE DEF Next
<1>a. \A m \in Modules : Name[m] \in AllNames /\ Host[m] \in Hosts \cup {NoHost}
  BY ConstantsOK DEF AllNames, Hosts
<1>1. CASE \E m \in Modules : Initialize(m)
  <2>1. PICK m \in Modules, i \in Instances : Lease(Configuration(m, Name[m], Host[m]), i)
    BY <1>1, Zenon DEF Initialize
  <2> QED
    BY <1>a, <2>1, Lease_RInv, Zenon DEF Configuration
<1>2. CASE \E m \in Modules : FlushAndTeardown(m)
  BY <1>2, <1>a, Release_RInv, Zenon DEF FlushAndTeardown
<1>3. CASE \E m \in Modules : DestroyLogManager(m)
  BY <1>3, <1>a, ReleaseName_RInv, Zenon DEF DestroyLogManager
<1>4. CASE \E s \in Configs : MatOpen(s)
  <2>1. PICK s \in Configs : MatOpen(s)
    BY <1>4, ZenonT(30)
  <2> DEFINE h == First(Stops(s))
  <2>a. Stops(s) \subseteq Handles /\ Handles \subseteq Nat /\ Stops(s) # {}
    BY <2>1, ConstantsOK, ZenonT(30) DEF MatOpen, Stops
  <2>2. h \in Handles
    BY <2>a, FirstIn, Zenon
  <2> HIDE DEF h
  <2>b. Name[s] \in Names \cup {NoName} /\ Host[s] \in Names \cup {AnyHost, NoHost}
    BY ConstantsOK
  <2>3. ClientName(s, h) \in AllNames /\ Host[s] \in Hosts \cup {NoHost}
    BY <2>2, <2>b, Zenon DEF ClientName, AllNames, Hosts
  <2>4. PICK i \in Instances : Lease(Configuration(h, ClientName(s, h), Host[s]), i)
    BY <2>1, Zenon DEF MatOpen, h
  <2> QED
    BY <2>3, <2>4, Lease_RInv, Zenon DEF Configuration
<1>5. CASE \E h \in Handles : MatClose(h)
  <2>1. PICK h \in Handles : MatClose(h)
    BY <1>5, Zenon
  <2> DEFINE lm == object[clients[h].logmanager]
  <2>2. CASE lm.c.name \in AllNames /\ Release(lm.c.name, lm.c.host)
    BY <2>2, Release_RInv, Zenon
  <2>3. CASE UNCHANGED <<shared, exclusive, managers>>
    BY <2>3 DEF RInv, RegistryType, RegistryIsExact, AnyHostIsAlone, Pools
  <2> QED
    BY <2>1, <2>2, <2>3, Zenon DEF MatClose
<1>6. CASE UNCHANGED vars
  BY <1>6 DEF vars, registryVars, RInv, RegistryType, RegistryIsExact, AnyHostIsAlone, Pools
<1> QED
  BY <1>1, <1>2, <1>3, <1>4, <1>5, <1>6, Zenon

\* The factory starts empty.
LEMMA Init_RInv == Init => RInv
<1> SUFFICES ASSUME Init PROVE RInv
  BY Zenon
<1>1. Pools = {}
  BY Zenon DEF Init, Pools
<1>2. RegistryType
  BY Zenon DEF Init, RegistryType, NoPool
<1>3. managers = {} /\ \A n \in AllNames : exclusive[n] = NoInstance
  BY Zenon DEF Init
<1>4. RegistryIsExact /\ AnyHostIsAlone
  BY <1>1, <1>3, Zenon DEF RegistryIsExact, AnyHostIsAlone
<1> QED
  BY <1>2, <1>4, Zenon DEF RInv

\* The registry accounts for every log manager, whatever modules and C clients do in whatever
\* order (LogManagerFactory.cpp, lease and release).
THEOREM RegistryAlwaysExact == Spec => []RegistryIsExact
<1>1. RInv => RegistryIsExact
  BY Zenon DEF RInv
<1> QED
  BY <1>1, Init_RInv, Next_RInv, PTL DEF Spec

\* Guests without a host are rehomed with the first host that comes.
THEOREM AnyHostAlwaysAlone == Spec => []AnyHostIsAlone
<1>1. RInv => AnyHostIsAlone
  BY Zenon DEF RInv
<1> QED
  BY <1>1, Init_RInv, Next_RInv, PTL DEF Spec

-----------------------------------------------------------------------------
(* Leases of C++ modules *)

\* What a module holds is registered under its name ...
LeaseOf(m) ==
    instance[m] # NoInstance =>
        IF Host[m] = NoHost THEN exclusive[Name[m]] = instance[m]
        ELSE \E h \in PoolsOf(Name[m]) : shared[h].instance = instance[m]

\* ... and what is registered under a name is held by the module of that name.
OInv ==
    /\ app \subseteq Counted /\ NamesApart
    /\ \A h \in Handles : clients[h] = NoClient
    /\ \A m \in Modules : instance[m] # NoInstance => m \in app
    /\ instance \in [Modules -> Instances \cup {NoInstance}]
    /\ \A m \in Modules : LeaseOf(m)
    /\ \A h \in Pools : \A n \in shared[h].names :
          \E m \in Modules : Name[m] = n /\ Host[m] # NoHost /\ instance[m] = shared[h].instance
    /\ \A n \in AllNames : exclusive[n] # NoInstance =>
          \E m \in Modules : Name[m] = n /\ Host[m] = NoHost /\ instance[m] = exclusive[n]

\* Modules have names and hosts the factory's maps know.
LEMMA ModuleFacts ==
    \A m \in Modules : Name[m] \in AllNames /\ Host[m] \in Hosts \cup {NoHost}
<1>1. \A m \in Modules : Name[m] # NoName
  BY ConstantsOK
<1> QED
  BY <1>1, ConstantsOK DEF AllNames, Hosts

\* Among the modules of the application, one that has an instance is known by its name.
LEMMA NameOfHolder ==
    ASSUME OInv, NEW m \in Modules, m \in app
    PROVE  \A k \in Modules : instance[k] # NoInstance /\ Name[k] = Name[m] => k = m
BY Zenon DEF OInv, NamesApart

\* A module without an instance is registered nowhere.
LEMMA Unregistered ==
    ASSUME RInv, OInv, NEW m \in Modules, m \in app, instance[m] = NoInstance
    PROVE  PoolsOf(Name[m]) = {} /\ exclusive[Name[m]] = NoInstance
<1>1. ASSUME NEW h \in PoolsOf(Name[m]) PROVE FALSE
  <2>1. PICK k \in Modules : Name[k] = Name[m] /\ instance[k] = shared[h].instance
    BY DEF OInv, PoolsOf
  <2>2. shared[h].instance \in Instances
    BY Zenon DEF RInv, RegistryIsExact, RegistryType, PoolsOf
  <2>3. instance[k] # NoInstance
    BY <2>1, <2>2, HostFacts, Zenon
  <2> QED
    BY <2>1, <2>3, NameOfHolder, Zenon
<1>2. ASSUME exclusive[Name[m]] # NoInstance PROVE FALSE
  <2>1. PICK k \in Modules : Name[k] = Name[m] /\ instance[k] = exclusive[Name[m]]
    BY <1>2, ModuleFacts DEF OInv
  <2> QED
    BY <1>2, <2>1, NameOfHolder, Zenon
<1> QED
  BY <1>1, <1>2, Zenon

\* A module that shares an instance is registered in exactly one pool.
LEMMA OnePool ==
    ASSUME RInv, OInv, NEW m \in Modules, instance[m] # NoInstance, Host[m] # NoHost
    PROVE  \E h \in Pools : PoolsOf(Name[m]) = {h} /\ shared[h].instance = instance[m]
<1>1. PICK h \in PoolsOf(Name[m]) : shared[h].instance = instance[m]
  BY Zenon DEF OInv, LeaseOf
<1>2. ASSUME NEW g \in PoolsOf(Name[m]) PROVE g = h
  <2>1. PICK k \in Modules : Name[k] = Name[m] /\ instance[k] = shared[g].instance
    BY DEF OInv, PoolsOf
  <2>2. shared[g].instance \in Instances
    BY Zenon DEF RInv, RegistryIsExact, RegistryType, PoolsOf
  <2>3. m \in app /\ instance[k] # NoInstance
    BY <2>1, <2>2, HostFacts, Zenon DEF OInv
  <2>4. k = m
    BY <2>1, <2>3, NameOfHolder, Zenon
  <2> QED
    BY <1>1, <2>1, <2>4 DEF RInv, RegistryIsExact, PoolsOf
<1> QED
  BY <1>1, <1>2, Zenon DEF PoolsOf

\* A step that adds the name n to the pool of the instance i and keeps the others, whatever
\* becomes of the hosts' keys; one that removes it.
Joins(n, i) ==
    /\ \E h \in Pools' : shared'[h].instance = i /\ n \in shared'[h].names
    /\ \A g \in Pools : \A k \in shared[g].names :
          \E h \in Pools' : shared'[h].instance = shared[g].instance /\ k \in shared'[h].names
    /\ \A h \in Pools' : \A k \in shared'[h].names :
          \/ k = n /\ shared'[h].instance = i
          \/ \E g \in Pools : shared[g].instance = shared'[h].instance /\ k \in shared[g].names

Leaves(n) ==
    /\ \A g \in Pools : \A k \in shared[g].names \ {n} :
          \E h \in Pools' : shared'[h].instance = shared[g].instance /\ k \in shared'[h].names
    /\ \A h \in Pools' : \A k \in shared'[h].names :
          /\ k # n
          /\ \E g \in Pools : shared[g].instance = shared'[h].instance /\ k \in shared[g].names

\* A module joins a pool.
LEMMA Joined ==
    ASSUME RInv, OInv, NEW m \in Modules, m \in app, instance[m] = NoInstance, Host[m] # NoHost,
           NEW i \in Instances, instance' = [instance EXCEPT ![m] = i],
           UNCHANGED <<app, clients, exclusive>>, Joins(Name[m], i)
    PROVE  OInv'
<1>1. /\ instance'[m] = i
      /\ \A k \in Modules \ {m} : instance'[k] = instance[k]
      /\ instance' \in [Modules -> Instances \cup {NoInstance}]
  BY ZenonT(30) DEF OInv
<1>2. ASSUME NEW k \in Modules PROVE LeaseOf(k)'
  <2>1. CASE k = m
    BY <1>1, <2>1, Zenon DEF LeaseOf, PoolsOf, Joins
  <2>2. CASE k # m
    BY <1>1, <2>2 DEF LeaseOf, PoolsOf, OInv, Joins
  <2> QED
    BY <2>1, <2>2, Zenon
<1>3. ASSUME NEW h \in Pools', NEW n \in shared'[h].names
      PROVE  \E k \in Modules : Name[k] = n /\ Host[k] # NoHost /\ instance'[k] = shared'[h].instance
  <2>1. CASE n = Name[m] /\ shared'[h].instance = i
    BY <1>1, <2>1, Zenon
  <2>2. CASE \E g \in Pools : shared[g].instance = shared'[h].instance /\ n \in shared[g].names
    <3>1. PICK g \in Pools : shared[g].instance = shared'[h].instance /\ n \in shared[g].names
      BY <2>2, Zenon
    <3>2. PICK k \in Modules : Name[k] = n /\ Host[k] # NoHost /\ instance[k] = shared[g].instance
      BY <3>1 DEF OInv
    <3>3. instance[k] # NoInstance
      BY <3>2, HostFacts, Zenon DEF RInv, RegistryIsExact, RegistryType
    <3> QED
      BY <1>1, <3>1, <3>2, <3>3, Zenon
  <2> QED
    BY <2>1, <2>2, Zenon DEF Joins
<1>4. ASSUME NEW n \in AllNames, exclusive'[n] # NoInstance
      PROVE  \E k \in Modules : Name[k] = n /\ Host[k] = NoHost /\ instance'[k] = exclusive'[n]
  BY <1>1, <1>4 DEF OInv
<1>5. app' = app /\ NamesApart' /\ \A k \in Modules : instance'[k] # NoInstance => k \in app
  BY <1>1, Zenon DEF OInv, NamesApart
<1> QED
  BY <1>1, <1>2, <1>3, <1>4, <1>5, Zenon DEF OInv

\* A name joins the pool of a host: an instance of Joined.
LEMMA AddNameJoins ==
    ASSUME RInv, OInv, NEW m \in Modules, m \in app, instance[m] = NoInstance, Host[m] # NoHost,
           NEW h \in Pools, NEW i \in Instances, i = shared[h].instance, AddName(h, Name[m]),
           instance' = [instance EXCEPT ![m] = i], UNCHANGED <<app, clients, exclusive>>
    PROVE  OInv'
<1>1. /\ h \in Hosts
      /\ shared'[h] = [names |-> shared[h].names \cup {Name[m]}, instance |-> shared[h].instance]
      /\ \A g \in Hosts : g # h => shared'[g] = shared[g]
  BY ZenonT(30) DEF RInv, RegistryType, AddName, Pools
<1>2. Pools' = Pools
  BY <1>1 DEF Pools, NoPool
<1>3. /\ \A g \in Pools : shared'[g].instance = shared[g].instance
      /\ \A g \in Pools : shared[g].names \subseteq shared'[g].names
      /\ \A g \in Pools \ {h} : shared'[g].names = shared[g].names
      /\ shared'[h].names = shared[h].names \cup {Name[m]}
  BY <1>1 DEF Pools
<1>4. ASSUME NEW f \in Pools', NEW n \in shared'[f].names
      PROVE  \/ n = Name[m] /\ shared'[f].instance = i
             \/ \E g \in Pools : shared[g].instance = shared'[f].instance /\ n \in shared[g].names
  <2>1. CASE f = h
    BY <1>2, <1>3, <1>4, <2>1, Zenon
  <2>2. CASE f # h
    BY <1>2, <1>3, <1>4, <2>2, Zenon
  <2> QED
    BY <2>1, <2>2, Zenon
<1>5. Joins(Name[m], i)
  BY <1>2, <1>3, <1>4, Zenon DEF Joins
<1> QED
  BY <1>5, Joined, Zenon

\* A module leaves its pool.
LEMMA Left ==
    ASSUME RInv, OInv, NEW m \in Modules, instance[m] # NoInstance, Host[m] # NoHost,
           instance' = [instance EXCEPT ![m] = NoInstance], UNCHANGED <<app, clients, exclusive>>,
           Leaves(Name[m])
    PROVE  OInv'
<1>1. /\ instance'[m] = NoInstance
      /\ \A k \in Modules \ {m} : instance'[k] = instance[k]
      /\ instance' \in [Modules -> Instances \cup {NoInstance}]
  BY DEF OInv
<1>2. ASSUME NEW k \in Modules PROVE LeaseOf(k)'
  <2>1. CASE k = m
    BY <1>1, <2>1, Zenon DEF LeaseOf
  <2>2. CASE k # m
    <3>1. instance[k] # NoInstance => Name[k] # Name[m]
      BY <2>2, NameOfHolder, Zenon DEF OInv
    <3> QED
      BY <1>1, <2>2, <3>1 DEF LeaseOf, PoolsOf, OInv, Leaves
  <2> QED
    BY <2>1, <2>2, Zenon
<1>3. ASSUME NEW h \in Pools', NEW n \in shared'[h].names
      PROVE  \E k \in Modules : Name[k] = n /\ Host[k] # NoHost /\ instance'[k] = shared'[h].instance
  <2>1. PICK g \in Pools : shared[g].instance = shared'[h].instance /\ n \in shared[g].names
    BY Zenon DEF Leaves
  <2>2. PICK k \in Modules : Name[k] = n /\ Host[k] # NoHost /\ instance[k] = shared[g].instance
    BY <2>1 DEF OInv
  <2>3. k # m
    BY <2>2, Zenon DEF Leaves
  <2> QED
    BY <1>1, <2>1, <2>2, <2>3, Zenon
<1>4. ASSUME NEW n \in AllNames, exclusive'[n] # NoInstance
      PROVE  \E k \in Modules : Name[k] = n /\ Host[k] = NoHost /\ instance'[k] = exclusive'[n]
  BY <1>1, <1>4 DEF OInv
<1>5. app' = app /\ NamesApart' /\ \A k \in Modules : instance'[k] # NoInstance => k \in app
  BY <1>1, Zenon DEF OInv, NamesApart
<1> QED
  BY <1>1, <1>2, <1>3, <1>4, <1>5, Zenon DEF OInv

\* Initialize.
LEMMA Initialize_OInv ==
    ASSUME RInv, OInv, NEW m \in Modules, Initialize(m)
    PROVE  OInv'
<1> DEFINE c == Configuration(m, Name[m], Host[m])
<1>1. PICK i \in Instances : Lease(c, i) /\ instance' = [instance EXCEPT ![m] = i]
  BY Zenon DEF Initialize
<1>2. /\ c.name = Name[m] /\ c.host = Host[m]
      /\ Name[m] \in AllNames /\ Host[m] \in Hosts \cup {NoHost}
      /\ m \in app /\ instance[m] = NoInstance /\ UNCHANGED <<app, clients>>
  BY ModuleFacts, Zenon DEF Configuration, Initialize
<1> HIDE DEF c
<1>3. CASE Lease_Exclusive(c, i)
  <2>1. Host[m] = NoHost /\ exclusive[Name[m]] = NoInstance
    BY <1>2, <1>3, Unregistered, Zenon DEF Lease_Exclusive
  <2>2. /\ exclusive'[Name[m]] = i
        /\ \A n \in AllNames \ {Name[m]} : exclusive'[n] = exclusive[n]
        /\ shared' = shared
    BY <1>2, <1>3, <2>1, Zenon DEF Lease_Exclusive, RInv, RegistryType
  <2>3. /\ instance'[m] = i
        /\ \A k \in Modules \ {m} : instance'[k] = instance[k]
        /\ instance' \in [Modules -> Instances \cup {NoInstance}]
    BY <1>1 DEF OInv
  <2>8. \A k \in Modules \ {m} : instance[k] # NoInstance => Name[k] # Name[m]
    BY <1>2, NameOfHolder, Zenon
  <2>9. NamesApart' /\ \A k \in Modules : instance'[k] # NoInstance => k \in app
    BY <1>2, <2>3, Zenon DEF OInv, NamesApart
  <2>4. Pools' = Pools /\ \A n : PoolsOf(n)' = PoolsOf(n)
    BY <2>2, Zenon DEF Pools, PoolsOf
  <2>5. ASSUME NEW k \in Modules PROVE LeaseOf(k)'
    BY <2>1, <2>2, <2>3, <2>4, <2>8, ModuleFacts, SMTT(30) DEF LeaseOf, OInv
  <2>6. ASSUME NEW h \in Pools', NEW n \in shared'[h].names
        PROVE  \E k \in Modules : Name[k] = n /\ Host[k] # NoHost /\ instance'[k] = shared'[h].instance
    BY <2>1, <2>2, <2>3, <2>4 DEF OInv
  <2>7. ASSUME NEW n \in AllNames, exclusive'[n] # NoInstance
        PROVE  \E k \in Modules : Name[k] = n /\ Host[k] = NoHost /\ instance'[k] = exclusive'[n]
    <3>1. CASE n = Name[m]
      BY <2>1, <2>2, <2>3, <3>1, Zenon
    <3>2. CASE n # Name[m]
      BY <2>2, <2>3, <2>7, <3>2 DEF OInv
    <3> QED
      BY <3>1, <3>2, Zenon
  <2> QED
    BY <1>2, <2>3, <2>5, <2>6, <2>7, <2>9, Zenon DEF OInv
<1>4. CASE Lease_AnyHost(c, i)
  <2>1. First(Pools) \in Pools
    BY <1>4, FirstIn, HostFacts, Zenon DEF Lease_AnyHost, Pools
  <2>2. AddName(First(Pools), Name[m]) /\ i = shared[First(Pools)].instance /\ Host[m] # NoHost
        /\ UNCHANGED exclusive
    BY <1>2, <1>4 DEF Lease_AnyHost, AnyHost, NoHost
  <2>3. OInv'
    BY <1>1, <1>2, <2>1, <2>2, AddNameJoins, Zenon
  <2> QED
    BY <2>3, Zenon
<1>5. CASE Lease_Host(c, i)
  <2>1. Host[m] # NoHost /\ UNCHANGED exclusive
    BY <1>2, <1>5, Zenon DEF Lease_Host
  <2>2. CASE Host[m] \in Pools
    BY <1>1, <1>2, <1>5, <2>1, <2>2, AddNameJoins, Zenon DEF Lease_Host
  <2>3. CASE Host[m] \notin Pools /\ AnyHost \in Pools
    <3>1. /\ Pools' = {Host[m]} /\ Pools = {AnyHost}
          /\ shared'[Host[m]].instance = shared[AnyHost].instance
          /\ shared'[Host[m]].names = shared[AnyHost].names \cup {Name[m]}
          /\ i = shared[AnyHost].instance
      BY <1>2, <1>5, <2>1, <2>3, Rehome_RInv, Zenon DEF Lease_Host, NoCreate, RInv, AnyHostIsAlone
    <3>2. Joins(Name[m], i)
      BY <3>1, ZenonT(30) DEF Joins
    <3> QED
      BY <1>1, <1>2, <2>1, <3>2, Joined, Zenon
  <2>4. CASE Host[m] \notin Pools /\ AnyHost \notin Pools
    <3>1. /\ Pools' = Pools \cup {Host[m]}
          /\ shared'[Host[m]].instance = i /\ shared'[Host[m]].names = {Name[m]}
          /\ \A g \in Pools : shared'[g] = shared[g]
      <4>1. shared' = [shared EXCEPT ![Host[m]] = [names |-> {Name[m]}, instance |-> i]]
        <5>1. c.host \notin Pools
          BY <1>2, <2>4, Zenon
        <5>2. shared' = [shared EXCEPT ![c.host] = [names |-> {c.name}, instance |-> i]]
          BY <1>5, <2>4, <5>1, Zenon DEF Lease_Host
        <5> QED
          BY <1>2, <5>2, Zenon
      <4>2. Host[m] \in Hosts
        BY <1>2, <2>1, Zenon
      <4>3. DOMAIN shared = Hosts
        BY Zenon DEF RInv, RegistryType
      <4>4. /\ shared'[Host[m]] = [names |-> {Name[m]}, instance |-> i]
            /\ \A g \in Hosts : g # Host[m] => shared'[g] = shared[g]
        BY <4>1, <4>2, <4>3, Zenon
      <4>5. shared'[Host[m]].instance = i /\ shared'[Host[m]].names = {Name[m]}
        <5> DEFINE pool == [names |-> {Name[m]}, instance |-> i]
        <5>1. pool.instance = i /\ pool.names = {Name[m]}
          BY Zenon
        <5>2. shared'[Host[m]] = pool
          BY <4>4, Zenon
        <5> HIDE DEF pool
        <5> QED
          BY <5>1, <5>2, Zenon
      <4>6. shared'[Host[m]] # NoPool
        <5>1. NoPool.names = {}
          BY Zenon DEF NoPool
        <5>2. {Name[m]} # {}
          BY Zenon
        <5> QED
          BY <4>5, <5>1, <5>2, Zenon
      <4> QED
        <5>1. ASSUME NEW h \in Hosts PROVE shared'[h] # NoPool <=> shared[h] # NoPool \/ h = Host[m]
          BY <4>4, <4>6, Zenon
        <5>2. Pools' = Pools \cup {Host[m]}
          BY <4>2, <5>1, Zenon DEF Pools
        <5>3. \A g \in Pools : shared'[g] = shared[g]
          BY <2>4, <4>4, Zenon DEF Pools
        <5> QED
          BY <4>5, <5>2, <5>3, Zenon
    <3>2. Joins(Name[m], i)
      BY <3>1, Zenon DEF Joins
    <3> QED
      BY <1>1, <1>2, <2>1, <3>2, Joined, Zenon
  <2> QED
    BY <2>2, <2>3, <2>4, Zenon
<1> QED
  BY <1>1, <1>3, <1>4, <1>5, Zenon DEF Lease

\* A name leaves the one pool it is in.
LEMMA RemoveNameLeaves ==
    ASSUME RInv, NEW n \in AllNames, NEW h \in Pools, PoolsOf(n) = {h}, RemoveName(h, n)
    PROVE  Leaves(n)
<1>1. h \in Hosts /\ \A g \in Pools \ {h} : n \notin shared[g].names
  BY Zenon DEF Pools, PoolsOf
<1>2. CASE shared[h].names = {n}
  <2>1. /\ shared'[h] = NoPool
        /\ \A g \in Hosts : g # h => shared'[g] = shared[g]
    BY <1>1, <1>2, Zenon DEF RemoveName, RInv, RegistryType
  <2>2. Pools' = Pools \ {h}
    BY <2>1, Zenon DEF Pools
  <2>3. \A g \in Pools \ {h} : shared'[g] = shared[g]
    BY <2>1, Zenon DEF Pools
  <2> QED
    BY <1>1, <1>2, <2>2, <2>3, Zenon DEF Leaves
<1>3. CASE shared[h].names # {n}
  <2>1. /\ shared'[h] = [names |-> shared[h].names \ {n}, instance |-> shared[h].instance]
        /\ \A g \in Hosts : g # h => shared'[g] = shared[g]
    BY <1>1, <1>3, ZenonT(30) DEF RemoveName, RInv, RegistryType
  <2>2. shared'[h] # NoPool
    BY <2>1, HostFacts DEF NoPool, RInv, RegistryIsExact, RegistryType
  <2>3. Pools' = Pools
    BY <2>1, <2>2, ZenonT(30) DEF Pools
  <2>4. /\ shared'[h].names = shared[h].names \ {n} /\ shared'[h].instance = shared[h].instance
        /\ \A g \in Pools \ {h} : shared'[g] = shared[g]
    BY <2>1 DEF Pools
  <2>5. ASSUME NEW g \in Pools, NEW k \in shared[g].names \ {n}
        PROVE  \E f \in Pools' : shared'[f].instance = shared[g].instance /\ k \in shared'[f].names
    <3>1. CASE g = h
      BY <2>3, <2>4, <3>1, Zenon
    <3>2. CASE g # h
      BY <2>3, <2>4, <3>2, Zenon
    <3> QED
      BY <3>1, <3>2, Zenon
  <2>6. ASSUME NEW f \in Pools', NEW k \in shared'[f].names
        PROVE  k # n /\ \E g \in Pools : shared[g].instance = shared'[f].instance /\ k \in shared[g].names
    <3>1. CASE f = h
      BY <2>3, <2>4, <2>6, <3>1, Zenon
    <3>2. CASE f # h
      BY <1>1, <2>3, <2>4, <2>6, <3>2, Zenon
    <3> QED
      BY <3>1, <3>2, Zenon
  <2> QED
    BY <2>5, <2>6, Zenon DEF Leaves
<1> QED
  BY <1>2, <1>3, Zenon

\* FlushAndTeardown and DestroyLogManager of a module that shares its instance.
LEMMA ReleaseShared_OInv ==
    ASSUME RInv, OInv, NEW m \in Modules, instance[m] # NoInstance, Host[m] # NoHost,
           Release(Name[m], Host[m]) \/ ReleaseName(Name[m]),
           instance' = [instance EXCEPT ![m] = NoInstance], UNCHANGED <<app, clients>>
    PROVE  OInv'
<1>1. PICK h \in Pools : PoolsOf(Name[m]) = {h}
  BY OnePool, Zenon
<1>2. h \in Hosts /\ First(PoolsOf(Name[m])) = h /\ Name[m] \in AllNames
  <2>1. h \in Hosts
    BY Zenon DEF Pools
  <2>2. First({h}) \in {h}
    BY <2>1, HostFacts, FirstIn, Zenon
  <2> QED
    BY <1>1, <2>1, <2>2, ModuleFacts, Zenon
<1>3. RemoveName(h, Name[m]) /\ UNCHANGED exclusive
  BY <1>1, <1>2, Zenon DEF Release, ReleaseName
<1> QED
  BY <1>1, <1>2, <1>3, RemoveNameLeaves, Left, Zenon

\* FlushAndTeardown of a module with an instance of its own.
LEMMA ReleaseExclusive_OInv ==
    ASSUME RInv, OInv, NEW m \in Modules, instance[m] # NoInstance, Host[m] = NoHost,
           ReleaseExclusive(Name[m]),
           instance' = [instance EXCEPT ![m] = NoInstance], UNCHANGED <<app, clients>>
    PROVE  OInv'
<1>1. exclusive[Name[m]] = instance[m] /\ Name[m] \in AllNames
  BY ModuleFacts, Zenon DEF OInv, LeaseOf
<1>2. /\ exclusive'[Name[m]] = NoInstance
      /\ \A n \in AllNames \ {Name[m]} : exclusive'[n] = exclusive[n]
      /\ shared' = shared
  BY <1>1, Zenon DEF ReleaseExclusive, RInv, RegistryType
<1>3. /\ instance'[m] = NoInstance
      /\ \A k \in Modules \ {m} : instance'[k] = instance[k]
      /\ instance' \in [Modules -> Instances \cup {NoInstance}]
  BY DEF OInv
<1>8. \A k \in Modules \ {m} : instance[k] # NoInstance => Name[k] # Name[m]
  BY NameOfHolder, Zenon DEF OInv
<1>9. NamesApart' /\ \A k \in Modules : instance'[k] # NoInstance => k \in app
  BY <1>3, Zenon DEF OInv, NamesApart
<1>4. Pools' = Pools /\ \A n : PoolsOf(n)' = PoolsOf(n)
  BY <1>2, ZenonT(30) DEF Pools, PoolsOf
<1>5. ASSUME NEW k \in Modules PROVE LeaseOf(k)'
  BY <1>2, <1>3, <1>4, <1>8, ModuleFacts, SMTT(30) DEF LeaseOf, OInv
<1>6. ASSUME NEW h \in Pools', NEW n \in shared'[h].names
      PROVE  \E k \in Modules : Name[k] = n /\ Host[k] # NoHost /\ instance'[k] = shared'[h].instance
  BY <1>2, <1>3, <1>4, SMTT(30) DEF OInv
<1>7. ASSUME NEW n \in AllNames, exclusive'[n] # NoInstance
      PROVE  \E k \in Modules : Name[k] = n /\ Host[k] = NoHost /\ instance'[k] = exclusive'[n]
  BY <1>2, <1>3, <1>7 DEF OInv
<1> QED
  BY <1>3, <1>5, <1>6, <1>7, <1>9, Zenon DEF OInv

\* Every step keeps the leases in order of counted modules that name themselves apart.
LEMMA Next_OInv ==
    ASSUME RInv, OInv, [Next]_vars
    PROVE  OInv'
<1>1. CASE \E m \in Modules : Initialize(m)
  BY <1>1, Initialize_OInv, Zenon
<1>2. CASE \E m \in Modules : FlushAndTeardown(m)
  <2>1. PICK m \in Modules : FlushAndTeardown(m)
    BY <1>2, Zenon
  <2>2. CASE Host[m] = NoHost
    BY <2>1, <2>2, ReleaseExclusive_OInv, Zenon DEF FlushAndTeardown, Release
  <2>3. CASE Host[m] # NoHost
    BY <2>1, <2>3, ReleaseShared_OInv, Zenon DEF FlushAndTeardown
  <2> QED
    BY <2>2, <2>3, Zenon
<1>3. CASE \E m \in Modules : DestroyLogManager(m)
  <2>1. PICK m \in Modules : DestroyLogManager(m)
    BY <1>3, Zenon
  <2>2. Host[m] # NoHost
    BY <2>1, Zenon DEF DestroyLogManager, OInv, Counted
  <2> QED
    BY <2>1, <2>2, ReleaseShared_OInv, Zenon DEF DestroyLogManager
<1>4. CASE \E s \in Configs : MatOpen(s)
  BY <1>4, ConstantsOK, ZenonT(30) DEF MatOpen, OInv, Counted
<1>5. CASE \E h \in Handles : MatClose(h)
  BY <1>5, Zenon DEF MatClose, OInv
<1>6. CASE UNCHANGED vars
  BY <1>6 DEF vars, registryVars, OInv, LeaseOf, Pools, PoolsOf, NamesApart
<1> QED
  BY <1>1, <1>2, <1>3, <1>4, <1>5, <1>6, Zenon DEF Next

\* The inductive invariant.
LInv == RInv /\ (app \subseteq Counted /\ NamesApart => OInv)

\* Every behaviour keeps it.
LEMMA AlwaysLInv == Spec => []LInv
<1>1. Init => LInv
  <2>1. SUFFICES ASSUME Init, app \subseteq Counted, NamesApart PROVE OInv
    BY Init_RInv, Zenon DEF LInv
  <2>2. Pools = {}
    BY <2>1, Zenon DEF Init, Pools
  <2> QED
    BY <2>1, <2>2, ModuleFacts, Zenon DEF Init, OInv, LeaseOf
<1>2. LInv /\ [Next]_vars => LInv'
  <2>1. SUFFICES ASSUME LInv, [Next]_vars PROVE LInv'
    BY Zenon
  <2>2. app' = app
    BY <2>1, Zenon DEF Next, Initialize, FlushAndTeardown, DestroyLogManager, MatOpen, MatClose, vars, registryVars
  <2>3. (app \subseteq Counted /\ NamesApart)' => app \subseteq Counted /\ NamesApart
    BY <2>2, Zenon DEF Counted, NamesApart
  <2> QED
    BY <2>1, <2>3, Next_RInv, Next_OInv, Zenon DEF LInv
<1> QED
  BY <1>1, <1>2, PTL DEF Spec

\* A module never holds a log manager that was destroyed (LogManagerFactory.cpp, release).
LEMMA HeldIsLive == ASSUME RInv, OInv PROVE Held \ {NoInstance} \subseteq managers
<1>1. ASSUME NEW m \in Modules, instance[m] # NoInstance PROVE instance[m] \in managers
  BY <1>1, ModuleFacts DEF OInv, LeaseOf, RInv, RegistryIsExact, PoolsOf
<1>2. \A h \in Handles : clients[h].logmanager = NoInstance
  BY DEF OInv, NoClient
<1> QED
  BY <1>1, <1>2, Zenon DEF Held

\* When modules name themselves apart and release their own lease, the names of a pool are those
\* of its holders, and the last one to leave destroys the log manager (LogManagerFactory.cpp,
\* release).
THEOREM OwnersAlwaysCounted == Spec => []OwnersCounted
<1>1. LInv => OwnersCounted
  <2>1. SUFFICES ASSUME RInv, OInv
                 PROVE  /\ managers = Held \ {NoInstance}
                        /\ \A h \in Pools : shared[h].names =
                              {Name[m] : m \in {k \in Modules : instance[k] = shared[h].instance}}
    BY Zenon DEF LInv, OwnersCounted
  <2>2. ASSUME NEW i \in managers PROVE \E m \in Modules : instance[m] = i
    <3>1. CASE \E h \in Pools : shared[h].instance = i
      BY <2>1, <3>1 DEF OInv, RInv, RegistryIsExact
    <3>2. CASE \E n \in AllNames : exclusive[n] = i
      BY <2>1, <3>2, HostFacts DEF OInv, RInv, RegistryType
    <3> QED
      BY <2>1, <3>1, <3>2, Zenon DEF RInv, RegistryIsExact
  <2>3. ASSUME NEW h \in Pools, NEW k \in Modules, instance[k] = shared[h].instance
        PROVE  Name[k] \in shared[h].names
    <3>1. instance[k] # NoInstance
      BY <2>1, <2>3, HostFacts, SMTT(30) DEF RInv, RegistryIsExact, RegistryType
    <3>2. Host[k] # NoHost
      BY <2>1, <2>3, <3>1, ModuleFacts DEF OInv, LeaseOf, RInv, RegistryIsExact
    <3>3. PICK g \in Pools : PoolsOf(Name[k]) = {g} /\ shared[g].instance = instance[k]
      BY <2>1, <3>1, <3>2, OnePool, Zenon
    <3>4. g = h
      BY <2>1, <2>3, <3>3, ZenonT(30) DEF RInv, RegistryIsExact
    <3> QED
      BY <3>3, <3>4, Zenon DEF PoolsOf
  <2>4. ASSUME NEW h \in Pools, NEW n \in shared[h].names
        PROVE  \E k \in Modules : Name[k] = n /\ instance[k] = shared[h].instance
    BY <2>1 DEF OInv
  <2>5. managers = Held \ {NoInstance}
    <3>1. NoInstance \notin managers
      BY <2>1, HostFacts, Zenon DEF RInv, RegistryType
    <3> QED
      BY <2>1, <2>2, <3>1, HeldIsLive, Zenon DEF Held
  <2> QED
    BY <2>3, <2>4, <2>5
<1> QED
  BY <1>1, AlwaysLInv, PTL

-----------------------------------------------------------------------------
(* Types *)

\* What the registry does not hold.
LeaseTypes ==
    /\ app \subseteq Modules \cup Configs
    /\ object \in [Instances -> [m_alive : BOOLEAN, c : Configurations, freed : BOOLEAN]]
    /\ instance \in [Modules -> Instances \cup {NoInstance}]
    /\ clients \in [Handles -> [ctx_data : Configs \cup {NoConfig},
                                logmanager : Instances \cup {NoInstance}]]

\* The configurations of modules and of C clients, and the lack of one.
LEMMA ConfigurationTypes ==
    /\ \A m \in Modules : Configuration(m, Name[m], Host[m]) \in Configurations
    /\ \A s \in Configs, h \in Handles : Configuration(h, ClientName(s, h), Host[s]) \in Configurations
    /\ NoObject \in [m_alive : BOOLEAN, c : Configurations, freed : BOOLEAN]
<1>1. \A s \in Configs, h \in Handles : ClientName(s, h) \in AllNames \cup {NoName}
  BY ConstantsOK DEF ClientName, AllNames
<1>2. \A s \in Modules \cup Configs : Host[s] \in Hosts \cup {NoHost} /\ Name[s] \in AllNames \cup {NoName}
  BY ConstantsOK DEF Hosts, AllNames
<1> QED
  BY <1>1, <1>2, Zenon DEF Configuration, Configurations, NoObject

\* A lease makes at most one object, of its own configuration.
LEMMA Lease_Types ==
    ASSUME LeaseTypes, NEW c \in Configurations, NEW i \in Instances, Lease(c, i)
    PROVE  object' \in [Instances -> [m_alive : BOOLEAN, c : Configurations, freed : BOOLEAN]]
<1>1. Create(c, i) \/ NoCreate
  BY Zenon DEF Lease, Lease_Exclusive, Lease_AnyHost, Lease_Host
<1> DEFINE T == [m_alive : BOOLEAN, c : Configurations, freed : BOOLEAN]
           new == [m_alive |-> TRUE, c |-> c, freed |-> FALSE]
<1>2. new \in T
  BY Zenon
<1>3. object \in [Instances -> T]
  BY Zenon DEF LeaseTypes
<1>4. object' = [object EXCEPT ![i] = new] \/ object' = object
  BY <1>1, Zenon DEF Create, NoCreate
<1> HIDE DEF T, new
<1>5. object' \in [Instances -> T]
  BY <1>2, <1>3, <1>4, Zenon
<1> QED
  BY <1>5, Zenon DEF T

\* A release keeps or clears the members of each object.
LEMMA Objects_Types ==
    ASSUME NEW members \in [Instances -> [m_alive : BOOLEAN, c : Configurations, freed : BOOLEAN]]
    PROVE  Objects(members) \in [Instances -> [m_alive : BOOLEAN, c : Configurations, freed : BOOLEAN]]
  BY ConfigurationTypes, Zenon DEF Objects

\* Each call keeps the types.
LEMMA Next_LeaseTypes == ASSUME LeaseTypes, [Next]_vars PROVE LeaseTypes'
<1>1. ASSUME NEW m \in Modules, Initialize(m) PROVE LeaseTypes'
  BY <1>1, Lease_Types, ConfigurationTypes, Zenon DEF Initialize, LeaseTypes
<1>2. ASSUME NEW m \in Modules, FlushAndTeardown(m) PROVE LeaseTypes'
  <2>1. [object EXCEPT ![instance[m]].m_alive = FALSE]
            \in [Instances -> [m_alive : BOOLEAN, c : Configurations, freed : BOOLEAN]]
    BY Zenon DEF LeaseTypes
  <2>2. object' \in [Instances -> [m_alive : BOOLEAN, c : Configurations, freed : BOOLEAN]]
    BY <1>2, <2>1, Objects_Types, Zenon DEF FlushAndTeardown
  <2> QED
    BY <1>2, <2>2, Zenon DEF FlushAndTeardown, LeaseTypes
<1>3. ASSUME NEW m \in Modules, DestroyLogManager(m) PROVE LeaseTypes'
  <2>1. object' \in [Instances -> [m_alive : BOOLEAN, c : Configurations, freed : BOOLEAN]]
    BY <1>3, Objects_Types, Zenon DEF DestroyLogManager, LeaseTypes
  <2> QED
    BY <1>3, <2>1, Zenon DEF DestroyLogManager, LeaseTypes
<1>4. ASSUME NEW s \in Configs, MatOpen(s) PROVE LeaseTypes'
  <2> DEFINE h == First(Stops(s))
  <2>1. h \in Handles
    <3>1. Stops(s) \subseteq Nat /\ Stops(s) # {} /\ Stops(s) \subseteq Handles
      BY <1>4, ConstantsOK, ZenonT(30) DEF MatOpen, Stops
    <3> QED
      BY <3>1, FirstIn, Zenon
  <2>2. PICK i \in Instances :
           /\ Lease(Configuration(h, ClientName(s, h), Host[s]), i)
           /\ clients' = [clients EXCEPT ![h] = [ctx_data |-> s, logmanager |-> i]]
    BY <1>4, Zenon DEF MatOpen
  <2> HIDE DEF h
  <2>3. object' \in [Instances -> [m_alive : BOOLEAN, c : Configurations, freed : BOOLEAN]]
    BY <2>1, <2>2, Lease_Types, ConfigurationTypes, Zenon
  <2> QED
    BY <1>4, <2>1, <2>2, <2>3, Zenon DEF MatOpen, LeaseTypes
<1>5. ASSUME NEW h \in Handles, MatClose(h) PROVE LeaseTypes'
  <2> DEFINE members == [i \in Instances |-> [object[i] EXCEPT !.freed = @ \/ object[i].c.owner = h]]
  <2>1. members \in [Instances -> [m_alive : BOOLEAN, c : Configurations, freed : BOOLEAN]]
    BY Zenon DEF LeaseTypes
  <2>2. object' = Objects(members) /\ clients' = [clients EXCEPT ![h] = NoClient] /\ UNCHANGED <<app, instance>>
    BY <1>5, Zenon DEF MatClose
  <2> HIDE DEF members
  <2>3. object' \in [Instances -> [m_alive : BOOLEAN, c : Configurations, freed : BOOLEAN]]
    BY <2>1, <2>2, Objects_Types, Zenon
  <2> QED
    BY <2>2, <2>3, Zenon DEF LeaseTypes, NoClient
<1>6. CASE UNCHANGED vars
  BY <1>6, Zenon DEF vars, registryVars, LeaseTypes
<1> QED
  BY <1>1, <1>2, <1>3, <1>4, <1>5, <1>6, Zenon DEF Next

\* The members of the factory, of its log managers and of their clients have their types.
THEOREM TypeCorrect == Spec => []TypeOK
<1>1. Init => LeaseTypes
  BY ConfigurationTypes, ConstantsOK DEF Init, LeaseTypes, NoClient
<1>2. RInv /\ LeaseTypes => TypeOK
  BY Zenon DEF RInv, RegistryType, LeaseTypes, TypeOK
<1> QED
  BY <1>1, <1>2, Init_RInv, Next_RInv, Next_LeaseTypes, PTL DEF Spec
=============================================================================
