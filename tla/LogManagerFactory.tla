-------------------------- MODULE LogManagerFactory --------------------------
(***************************************************************************)
(* The registry of log managers (lib/api/LogManagerFactory.cpp) and those  *)
(* who lease from it: the LogManagerBase wrapper of a C++ module, modules  *)
(* that name their instance through LogManagerProvider, and the handle     *)
(* table of the C API (lib/api/capi.cpp).                                  *)
(*                                                                         *)
(* A configuration is abstracted to what parseConfig takes from it, a name *)
(* and a host, and names are numbers, so that they have the order          *)
(* std::map gives them; the empty name of the default configuration is one *)
(* of them, and configurations may have the same name.  Map entries that   *)
(* do not exist are NoPool, NoInstance or NoClient.  Neither the factory's *)
(* maps nor the insertions of mat_open_core are protected by a lock: the   *)
(* calls modelled here are made one at a time, and the hazard is in their  *)
(* order.                                                                  *)
(***************************************************************************)
EXTENDS Integers, FiniteSets

CONSTANTS
    Modules,        \* C++ modules, each with a static configuration
    Configs,        \* configuration strings passed to evt_open
    Handles,        \* handle values: codes are taken from here
    Instances,      \* addresses of LogManagerImpl objects
    NoInstance,     \* nullptr
    NoConfig,       \* no configuration string
    Names,          \* instance names other than those of token clients
    Name, Host,     \* the name and host of each module's or string's configuration
    Hash,           \* hashCode of each configuration string
    Api,            \* how each module releases: "base" or "id"
    Applications    \* the sets of modules and strings an application may use

AnyHost == 0        \* "*", which precedes every name
NoHost == -1        \* no host: an exclusive instance
NoName == -1        \* a token instead of a JSON configuration

\* "CAPI-Client-<code>", the name of a client that was opened with a token.
TokenName(h) == 1000 + h

AllNames == Names \cup {TokenName(h) : h \in Handles}
Hosts == AllNames \cup {AnyHost}

ASSUME ConstantsOK ==
    /\ Names \subseteq 1..999
    /\ Handles \subseteq Nat
    /\ Name \in [Modules \cup Configs -> Names \cup {NoName}]
    /\ Host \in [Modules \cup Configs -> Names \cup {AnyHost, NoHost}]
    /\ \A m \in Modules : Name[m] # NoName
    /\ \A s \in Configs : Name[s] = NoName => Host[s] = AnyHost
    /\ Hash \in [Configs -> Handles]
    /\ Api \in [Modules -> {"base", "id"}]
    /\ NoInstance \notin Instances
    /\ NoConfig \notin Configs
    /\ Modules \cap (Handles \cup Configs) = {}
    /\ \A a \in Applications : a \subseteq Modules \cup Configs

VARIABLES
    app,            \* the modules and strings this application uses
    shared,         \* LogManagerFactory::shared: per host, its names and its instance
    exclusive,      \* LogManagerFactory::exclusive: per name, its instance
    managers,       \* ILogManagerInternal::managers
    object,         \* each instance's m_alive and the configuration it refers to
    instance,       \* LogManagerBase::instance of each module
    clients         \* the handle table

registryVars == <<shared, exclusive, managers, object>>
vars == <<app, registryVars, instance, clients>>

NoPool == [names |-> {}, instance |-> NoInstance]
NoClient == [ctx_data |-> NoConfig, logmanager |-> NoInstance]

-----------------------------------------------------------------------------
(* The factory *)

Pools == {h \in Hosts : shared[h] # NoPool}
First(S) == CHOOSE h \in S : \A g \in S : h <= g

\* A configuration as the factory reads it, and who owns it.
Configuration(owner, n, h) == [owner |-> owner, name |-> n, host |-> h]

NoObject == [m_alive |-> FALSE, c |-> Configuration(NoInstance, NoName, NoHost), freed |-> TRUE]

Create(c, i) ==
    /\ i \in Instances \ managers
    /\ managers' = managers \cup {i}
    /\ object' = [object EXCEPT ![i] = [m_alive |-> TRUE, c |-> c, freed |-> FALSE]]

NoCreate == UNCHANGED <<managers, object>>

AddName(h, n) == shared' = [shared EXCEPT ![h].names = @ \cup {n}]

\* lease(c) returns i.
Lease_Exclusive(c, i) ==
    /\ c.host = NoHost
    /\ IF exclusive[c.name] = NoInstance
       THEN Create(c, i) /\ exclusive' = [exclusive EXCEPT ![c.name] = i]
       ELSE i = exclusive[c.name] /\ NoCreate /\ UNCHANGED exclusive
    /\ UNCHANGED shared

\* Mutant: guests of any host keep to themselves.
Lease_AnyHost_Apart(c, i) ==
    /\ c.host = AnyHost
    /\ Pools # {}
    /\ IF AnyHost \in Pools
       THEN i = shared[AnyHost].instance /\ AddName(AnyHost, c.name) /\ NoCreate
       ELSE /\ Create(c, i)
            /\ shared' = [shared EXCEPT ![AnyHost] = [names |-> {c.name}, instance |-> i]]
    /\ UNCHANGED exclusive

\* A guest of any host goes to the first pool.
Lease_AnyHost(c, i) ==
    /\ c.host = AnyHost
    /\ Pools # {}
    /\ i = shared[First(Pools)].instance
    /\ AddName(First(Pools), c.name)
    /\ NoCreate
    /\ UNCHANGED exclusive

\* Mutant: the pool without a host is left behind.
Rehome_Copied(n, h) ==
    shared' = [shared EXCEPT ![h] = [shared[AnyHost] EXCEPT !.names = @ \cup {n}]]

\* The guests that came before any host move to the pool of the host.
Rehome(n, h) ==
    shared' = [shared EXCEPT ![h] = [shared[AnyHost] EXCEPT !.names = @ \cup {n}],
                             ![AnyHost] = NoPool]

Lease_Host(c, i) ==
    /\ c.host # NoHost
    /\ c.host = AnyHost => Pools = {}
    /\ IF c.host \in Pools
       THEN i = shared[c.host].instance /\ AddName(c.host, c.name) /\ NoCreate
       ELSE IF AnyHost \in Pools
            THEN i = shared[AnyHost].instance /\ Rehome(c.name, c.host) /\ NoCreate
            ELSE /\ Create(c, i)
                 /\ shared' = [shared EXCEPT ![c.host] = [names |-> {c.name}, instance |-> i]]
    /\ UNCHANGED exclusive

Lease(c, i) == Lease_Exclusive(c, i) \/ Lease_AnyHost(c, i) \/ Lease_Host(c, i)

\* Destroy(i); the members of what is not in managers any more are gone (Objects below).
Destroy(i) == managers' = managers \ {i}

\* The objects after a release, of which those still in managers have the members given.
Objects(members) == [i \in Instances |-> IF i \in managers' THEN members[i] ELSE NoObject]

\* A name leaves a pool; the last one takes the instance with it.
RemoveName(h, n) ==
    IF shared[h].names = {n}
    THEN /\ shared' = [shared EXCEPT ![h] = NoPool]
         /\ Destroy(shared[h].instance)
    ELSE /\ shared' = [shared EXCEPT ![h].names = @ \ {n}]
         /\ UNCHANGED managers

PoolsOf(n) == {h \in Pools : n \in shared[h].names}

\* release(name) looks in the shared pools only.
ReleaseName(n) ==
    /\ IF PoolsOf(n) # {} THEN RemoveName(First(PoolsOf(n)), n) ELSE UNCHANGED <<shared, managers>>
    /\ UNCHANGED exclusive

ReleaseExclusive(n) ==
    /\ IF exclusive[n] # NoInstance
       THEN Destroy(exclusive[n]) /\ exclusive' = [exclusive EXCEPT ![n] = NoInstance]
       ELSE UNCHANGED <<exclusive, managers>>
    /\ UNCHANGED shared

\* release(name, host): rehomed guests are not where their configuration says.
Release(n, h) ==
    IF h = NoHost THEN ReleaseExclusive(n)
    ELSE IF h \in PoolsOf(n) THEN RemoveName(h, n) /\ UNCHANGED exclusive
    ELSE ReleaseName(n)

-----------------------------------------------------------------------------
(* C++ modules *)

\* Mutant: the instance is asked for again although the module has one.
Initialize_Again(m) ==
    /\ m \in app \cap Modules
    /\ \E i \in Instances :
          /\ Lease(Configuration(m, Name[m], Host[m]), i)
          /\ instance' = [instance EXCEPT ![m] = i]
    /\ UNCHANGED <<app, clients>>

\* LogManagerBase::Initialize, CreateLogManager: with an instance at hand nothing is leased.
Initialize(m) ==
    /\ m \in app \cap Modules
    /\ instance[m] = NoInstance
    /\ \E i \in Instances :
          /\ Lease(Configuration(m, Name[m], Host[m]), i)
          /\ instance' = [instance EXCEPT ![m] = i]
    /\ UNCHANGED <<app, clients>>

\* The module tears the instance down, whoever else leases it, and releases its name.
FlushAndTeardown(m) ==
    /\ m \in app \cap Modules
    /\ Api[m] = "base"
    /\ instance[m] # NoInstance
    /\ Release(Name[m], Host[m])
    /\ object' = Objects([object EXCEPT ![instance[m]].m_alive = FALSE])
    /\ instance' = [instance EXCEPT ![m] = NoInstance]
    /\ UNCHANGED <<app, clients>>

\* DestroyLogManager(id) of LogManagerProvider.
DestroyLogManager(m) ==
    /\ m \in app \cap Modules
    /\ Api[m] = "id"
    /\ instance[m] # NoInstance
    /\ ReleaseName(Name[m])
    /\ object' = Objects(object)
    /\ instance' = [instance EXCEPT ![m] = NoInstance]
    /\ UNCHANGED <<app, clients>>

-----------------------------------------------------------------------------
(* C API *)

\* The handles the search from the hash code on stops at: a free one, or the string's own.
Stops(s) == {h \in Handles : h >= Hash[s] /\ clients[h].ctx_data \in {NoConfig, s}}

ClientName(s, h) == IF Name[s] = NoName THEN TokenName(h) ELSE Name[s]

\* mat_open_core; a string that is found open is refused (EALREADY).
MatOpen(s) ==
    /\ s \in app \cap Configs
    /\ Stops(s) # {}
    /\ LET h == First(Stops(s))
       IN  /\ clients[h].ctx_data = NoConfig
           /\ \E i \in Instances :
                 /\ Lease(Configuration(h, ClientName(s, h), Host[s]), i)
                 /\ clients' = [clients EXCEPT ![h] = [ctx_data |-> s, logmanager |-> i]]
    /\ UNCHANGED <<app, instance>>

\* mat_close releases what the instance's configuration names: the lease of whoever created
\* the instance.  Then remove_client ends the life of the client's own configuration, also
\* when the instance refers to it; read after that, it may or may not show its old contents.
MatClose(h) ==
    LET lm == object[clients[h].logmanager]
    IN  /\ clients[h] # NoClient
        /\ \/ lm.c.name \in AllNames /\ Release(lm.c.name, lm.c.host)
           \/ lm.freed /\ UNCHANGED <<shared, exclusive, managers>>
        /\ clients' = [clients EXCEPT ![h] = NoClient]
        /\ object' = Objects([i \in Instances |->
                                [object[i] EXCEPT !.freed = @ \/ object[i].c.owner = h]])
        /\ UNCHANGED <<app, instance>>

-----------------------------------------------------------------------------

Init ==
    /\ app \in Applications
    /\ shared = [h \in Hosts |-> NoPool]
    /\ exclusive = [n \in AllNames |-> NoInstance]
    /\ managers = {}
    /\ object = [i \in Instances |-> NoObject]
    /\ instance = [m \in Modules |-> NoInstance]
    /\ clients = [h \in Handles |-> NoClient]

Next ==
    \/ \E m \in Modules : Initialize(m) \/ FlushAndTeardown(m) \/ DestroyLogManager(m)
    \/ \E s \in Configs : MatOpen(s)
    \/ \E h \in Handles : MatClose(h)

Spec == Init /\ [][Next]_vars

-----------------------------------------------------------------------------
(* Properties *)

Configurations == [owner : Modules \cup Handles \cup {NoInstance}, name : AllNames \cup {NoName},
                   host : Hosts \cup {NoHost}]

\* Every variable has the type of the member it stands for.
TypeOK ==
    /\ app \subseteq Modules \cup Configs
    /\ shared \in [Hosts -> [names : SUBSET AllNames, instance : Instances \cup {NoInstance}]]
    /\ exclusive \in [AllNames -> Instances \cup {NoInstance}]
    /\ managers \subseteq Instances
    /\ object \in [Instances -> [m_alive : BOOLEAN, c : Configurations, freed : BOOLEAN]]
    /\ instance \in [Modules -> Instances \cup {NoInstance}]
    /\ clients \in [Handles -> [ctx_data : Configs \cup {NoConfig},
                                logmanager : Instances \cup {NoInstance}]]

\* The registry accounts for every log manager: each is in exactly one pool, and no pool is
\* empty or holds one that was destroyed.
RegistryIsExact ==
    /\ \A h \in Pools : shared[h].names # {} /\ shared[h].instance \in managers
    /\ \A n \in AllNames : exclusive[n] # NoInstance => exclusive[n] \in managers
    /\ \A g, h \in Pools : shared[g].instance = shared[h].instance => g = h
    /\ \A n, k \in AllNames : exclusive[n] = exclusive[k] /\ exclusive[n] # NoInstance => n = k
    /\ \A h \in Pools, n \in AllNames : shared[h].instance # exclusive[n]
    /\ \A i \in managers : \/ \E h \in Pools : shared[h].instance = i
                           \/ \E n \in AllNames : exclusive[n] = i

\* The pool without a host exists only until the first host comes, so that guests of any host
\* and hosts do not end up apart.
AnyHostIsAlone == AnyHost \in Pools => Pools = {AnyHost}

Held == {instance[m] : m \in Modules} \cup {clients[h].logmanager : h \in Handles}

\* The modules whose release finds their lease again.  (DestroyLogManager of an instance
\* without a host finds nothing, and a C client releases the lease of the instance's creator.)
Counted == {m \in Modules : Api[m] = "base" \/ Host[m] # NoHost}

\* No two modules of the application have the same name.  A pool has a set of names, so that those
\* of one name count once, and an exclusive instance has no count at all.
NamesApart == \A m, k \in app \cap Modules : Name[m] = Name[k] => m = k

\* In whatever order hosts and guests come, are rehomed, go, and come again, a log manager lives
\* exactly as long as somebody holds it, and the names in its pool are those of its holders: the set
\* of names is the reference count of modules that name themselves apart and release their own
\* lease.  (HeldIsAlive and LastOwnerDestroys are violated without the one and the other.)
OwnersCounted ==
    app \subseteq Counted /\ NamesApart =>
        /\ managers = Held \ {NoInstance}
        /\ \A h \in Pools : shared[h].names =
              {Name[m] : m \in {k \in Modules : instance[k] = shared[h].instance}}

\* A log manager is not destroyed while a module or a client has it: "last owner is gone, destroy
\* LM".  (The code does not ensure it for modules of the same name, such as those of the default
\* configuration, which has none: the first to release destroys what they share.)
HeldIsAlive == Held \ {NoInstance} \subseteq managers

\* Once the last owner is gone the log manager is destroyed, whatever API the owners used.
\* (The code does not ensure it: mat_close releases the name of the instance's creator.)
LastOwnerDestroys == managers \subseteq Held

=============================================================================
