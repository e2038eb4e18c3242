---------------------- MODULE DeviceStateHandler_proofs ----------------------
(* Proofs about TransmitProfiles and DeviceStateHandler, for any profiles,  *)
(* lists, managers and threads.                                             *)
EXTENDS DeviceStateHandler, WellFoundedInduction, TLAPS

-----------------------------------------------------------------------------
(* The profiles *)

\* The default profiles are there if any are.
Loaded == profiles # NoProfiles => DefaultNames \subseteq DOMAIN profiles

\* After a change: there are profiles, the rule is selected, and the managers will learn of it.
Fresh == profiles # NoProfiles /\ Loaded /\ RuleFitsDevice /\ isTimerUpdated = TRUE

\* The inductive invariant of the profiles. A call goes on only after the default profiles have been
\* loaded: without this a list could leave the process without the default profile.
PInv ==
    /\ DOMAIN m_timers = Managers /\ DOMAIN call = Apps
    /\ Loaded
    /\ \A t \in Apps : call[t] # NoCall => profiles # NoProfiles
    /\ profiles = NoProfiles => isTimerUpdated = TRUE
    /\ isTimerUpdated \in BOOLEAN
    /\ RuleFitsDevice
    /\ ReadTimersAreCurrent

\* The default profile is one of the defaults.
LEMMA DefaultFacts ==
    DEFAULT_PROFILE \in DefaultNames /\ NoManager \notin Managers /\ DOMAIN NoProfiles = {}
  BY ProfileAssumption, Zenon DEF NoProfiles

\* What updateStates leaves behind if the profile it is to select is there.
LEMMA Select_Fresh ==
    ASSUME NEW ps, NEW name \in DOMAIN ps, NEW rule, NEW net, NEW pow, DefaultNames \subseteq DOMAIN ps,
           Select(ps, name, rule, net, pow)
    PROVE  Fresh'
<1>1. /\ profiles' = ps /\ currProfileName' = name /\ currNetCost' = net /\ currPowState' = pow
      /\ currRule' = RuleFor(ps[name], net, pow) /\ isTimerUpdated' = TRUE
  BY Zenon DEF Select
<1>2. ps # NoProfiles
  BY DefaultFacts, Zenon
<1>3. RuleFitsDevice'
  BY <1>1, <1>2, Zenon DEF RuleFitsDevice
<1> QED
  BY <1>1, <1>2, <1>3, Zenon DEF Fresh, Loaded

\* UpdateProfiles, with the defaults in place or in the list.
LEMMA Update_Fresh ==
    ASSUME NEW list, UpdateProfiles(list), Loaded, profiles # NoProfiles \/ list = Defaults
    PROVE  Fresh'
<1> DEFINE ps == [n \in (DOMAIN profiles \cap DefaultNames) \cup DOMAIN list |->
                     IF n \in DOMAIN list THEN list[n] ELSE profiles[n]]
           name == IF currProfileName \in DOMAIN ps THEN currProfileName ELSE DEFAULT_PROFILE
<1>1. Select(ps, name, 1, currNetCost, currPowState)
  BY Zenon DEF UpdateProfiles
<1>2. DOMAIN ps = (DOMAIN profiles \cap DefaultNames) \cup DOMAIN list
  BY Zenon
<1>3. DefaultNames \subseteq DOMAIN ps
  BY <1>2, Zenon DEF Loaded, DefaultNames
<1>4. name \in DOMAIN ps
  BY <1>3, DefaultFacts, Zenon
<1> HIDE DEF ps, name
<1> QED
  BY <1>1, <1>3, <1>4, Select_Fresh, Zenon

\* EnsureDefaultProfiles.
LEMMA Ensure_Fresh ==
    ASSUME PInv, EnsureDefaultProfiles
    PROVE  profiles' # NoProfiles /\ (Fresh' \/ UNCHANGED profileVars)
<1>1. CASE profiles = NoProfiles
  <2>1. UpdateProfiles(Defaults)
    BY <1>1, Zenon DEF EnsureDefaultProfiles
  <2> QED
    BY <2>1, Update_Fresh, Zenon DEF PInv, Fresh
<1>2. CASE profiles # NoProfiles
  BY <1>2, Zenon DEF EnsureDefaultProfiles, profileVars
<1> QED
  BY <1>1, <1>2, Zenon

\* A change is a good state if the calls keep theirs.
LEMMA Fresh_PInv ==
    ASSUME PInv, Fresh', UNCHANGED m_timers, DOMAIN call' = Apps
    PROVE  PInv'
  BY Zenon DEF PInv, Fresh, ReadTimersAreCurrent

\* Nothing the profiles consist of changes.
LEMMA Same_PInv ==
    ASSUME PInv, UNCHANGED <<profileVars, m_timers, lastReader>>, DOMAIN call' = Apps,
           \A t \in Apps : call'[t] # NoCall => profiles # NoProfiles
    PROVE  PInv'
<1>1. UNCHANGED <<profiles, currProfileName, currRule, currNetCost, currPowState, isTimerUpdated,
                  m_timers, lastReader>>
  BY Zenon DEF profileVars
<1>2. RuleFitsDevice' /\ Loaded'
  BY <1>1, Zenon DEF PInv, RuleFitsDevice, Loaded
<1>3. ReadTimersAreCurrent'
  BY <1>1 DEF PInv, ReadTimersAreCurrent, HasTimers, Timers
<1> QED
  BY <1>1, <1>2, <1>3, Zenon DEF PInv

\* The application's calls.
LEMMA Application_PInv ==
    ASSUME PInv, Application
    PROVE  PInv'
<1>1. PICK t \in Apps : Begin(t) \/ setProfile(t) \/ load(t) \/ parse(t) \/ reset(t)
  BY Zenon DEF Application
<1>2. UNCHANGED <<m_timers, lastReader>>
  BY <1>1, Zenon DEF Begin, setProfile, load, parse, reset, readVars
<1>3. DOMAIN call' = Apps
  BY <1>1, Zenon DEF Begin, setProfile, load, parse, reset, PInv
<1>4. CASE Begin(t)
  <2>1. profiles' # NoProfiles /\ (Fresh' \/ UNCHANGED profileVars)
    BY <1>4, Ensure_Fresh, Zenon DEF Begin
  <2>2. CASE Fresh'
    BY <2>2, <1>2, <1>3, Fresh_PInv, Zenon
  <2>3. CASE UNCHANGED profileVars
    BY <2>1, <2>3, <1>2, <1>3, Same_PInv, Zenon DEF profileVars
  <2> QED
    BY <2>1, <2>2, <2>3, Zenon
<1>5. ASSUME call[t] # NoCall, call' = [call EXCEPT ![t] = NoCall], Fresh' \/ UNCHANGED profileVars
      PROVE  PInv'
  <2>1. CASE Fresh'
    BY <2>1, <1>2, <1>3, Fresh_PInv, Zenon
  <2>2. CASE UNCHANGED profileVars
    <3>1. \A u \in Apps : call'[u] # NoCall => call[u] # NoCall
      BY <1>5, Zenon DEF PInv
    <3> QED
      BY <2>2, <3>1, <1>2, <1>3, Same_PInv, Zenon DEF PInv
  <2> QED
    BY <1>5, <2>1, <2>2, Zenon
<1>6. CASE setProfile(t)
  <2>1. call[t] # NoCall
    BY <1>6 DEF setProfile, NoCall
  <2>2. profiles # NoProfiles /\ DefaultNames \subseteq DOMAIN profiles
    BY <2>1, Zenon DEF PInv, Loaded
  <2>3. Fresh'
    <3> DEFINE name == IF call[t].name \in DOMAIN profiles THEN call[t].name ELSE DEFAULT_PROFILE
    <3>1. Select(profiles, name, currRule, currNetCost, currPowState)
      BY <1>6, Zenon DEF setProfile
    <3>2. name \in DOMAIN profiles
      BY <2>2, DefaultFacts, Zenon
    <3> HIDE DEF name
    <3> QED
      BY <2>2, <3>1, <3>2, Select_Fresh, Zenon
  <2> QED
    BY <1>5, <1>6, <2>1, <2>3, Zenon DEF setProfile
<1>7. CASE load(t)
  <2>1. call[t] # NoCall
    BY <1>7 DEF load, NoCall
  <2>2. profiles # NoProfiles /\ Loaded
    BY <2>1, Zenon DEF PInv
  <2>3. UpdateProfiles(call[t].list) \/ UNCHANGED profileVars
    BY <1>7, Zenon DEF load
  <2>4. UpdateProfiles(call[t].list) => Fresh'
    BY <2>2, Update_Fresh, Zenon
  <2> QED
    BY <1>5, <1>7, <2>1, <2>3, <2>4, Zenon DEF load
<1>8. CASE parse(t)
  <2>1. call[t] # NoCall
    BY <1>8 DEF parse, NoCall
  <2>2. profiles # NoProfiles /\ Loaded
    BY <2>1, Zenon DEF PInv
  <2>3. (\E read : UpdateProfiles(read)) \/ UNCHANGED profileVars
    BY <1>8, Zenon DEF parse
  <2>4. ASSUME NEW read, UpdateProfiles(read) PROVE Fresh'
    BY <2>2, <2>4, Update_Fresh, Zenon
  <2>5. Fresh' \/ UNCHANGED profileVars
    BY <2>3, <2>4, Zenon
  <2> QED
    BY <1>5, <1>8, <2>1, <2>5, Zenon DEF parse
<1>9. CASE reset(t)
  <2>1. UpdateProfiles(Defaults)
    BY <1>9, Zenon DEF reset
  <2>2. Fresh'
    BY <2>1, Update_Fresh, Zenon DEF PInv
  <2> QED
    BY <2>2, <1>2, <1>3, Fresh_PInv, Zenon
<1> QED
  BY <1>1, <1>4, <1>6, <1>7, <1>8, <1>9, Zenon

\* updateTimersIfNecessary: the timers and the flag change together.
LEMMA Reader_PInv ==
    ASSUME PInv, NEW m \in Managers, Reader(m)
    PROVE  PInv'
<1>1. UNCHANGED callVars
  BY Zenon DEF Reader, isTimerUpdateRequired, Ensure, getTimers
<1>2. call' = call /\ DOMAIN call' = Apps
  BY <1>1, Zenon DEF callVars, PInv
<1>3. CASE isTimerUpdateRequired(m)
  <2>1. UNCHANGED <<profileVars, m_timers, lastReader>>
    BY <1>3, Zenon DEF isTimerUpdateRequired
  <2> QED
    BY <1>2, <2>1, Same_PInv, Zenon DEF PInv
<1>4. CASE Ensure(m)
  <2>1. UNCHANGED <<m_timers, lastReader>> /\ EnsureDefaultProfiles
    BY <1>4, Zenon DEF Ensure
  <2>2. CASE Fresh'
    BY <2>1, <2>2, <1>2, Fresh_PInv, Zenon
  <2>3. CASE UNCHANGED profileVars
    BY <2>1, <2>3, <1>2, Same_PInv, Zenon DEF PInv
  <2> QED
    BY <2>1, <2>2, <2>3, Ensure_Fresh, Zenon
<1>5. CASE getTimers(m)
  <2>1. UNCHANGED <<profiles, currProfileName, currRule, currNetCost, currPowState>>
    BY <1>5, Zenon DEF getTimers
  <2>2. RuleFitsDevice' /\ Loaded'
    BY <2>1, Zenon DEF PInv, RuleFitsDevice, Loaded
  <2>3. /\ HasTimers' = HasTimers /\ (HasTimers => Timers' = Timers)
        /\ HasTimers => profiles # NoProfiles
    BY <2>1, DefaultFacts DEF HasTimers, Timers
  <2>4. CASE HasTimers
    <3>1. m_timers' = [m_timers EXCEPT ![m] = Timers] /\ isTimerUpdated' = FALSE /\ lastReader' = m
      BY <1>5, <2>4, Zenon DEF getTimers
    <3>2. DOMAIN m_timers' = Managers /\ m_timers'[m] = Timers
      BY <3>1, Zenon DEF PInv
    <3>3. ReadTimersAreCurrent'
      BY <2>3, <2>4, <3>1, <3>2, DefaultFacts, Zenon DEF ReadTimersAreCurrent
    <3> QED
      BY <1>2, <2>1, <2>2, <2>3, <2>4, <3>1, <3>2, <3>3, Zenon DEF PInv
  <2>5. CASE ~HasTimers
    <3>1. UNCHANGED <<isTimerUpdated, lastReader>> /\ m_timers' = [m_timers EXCEPT ![m] = <<-1, -1>>]
      BY <1>5, <2>5, Zenon DEF getTimers
    <3>2. isTimerUpdated = TRUE
      BY <2>5, Zenon DEF PInv, ReadTimersAreCurrent
    <3>3. DOMAIN m_timers' = Managers /\ ReadTimersAreCurrent'
      BY <3>1, <3>2, Zenon DEF PInv, ReadTimersAreCurrent
    <3> QED
      BY <1>2, <2>1, <2>2, <3>1, <3>2, <3>3, Zenon DEF PInv
  <2> QED
    BY <2>4, <2>5, Zenon
<1> QED
  BY <1>3, <1>4, <1>5, Zenon DEF Reader

\* updateStates, called by a handler.
LEMMA Device_PInv ==
    ASSUME PInv, NEW net, NEW pow, updateStates(net, pow), UNCHANGED <<callVars, readVars>>
    PROVE  PInv'
<1>1. UNCHANGED <<call, m_timers, lastReader>>
  BY Zenon DEF callVars, readVars
<1>2. CASE profiles # NoProfiles
  <2>1. currProfileName \in DOMAIN profiles /\ DefaultNames \subseteq DOMAIN profiles
    BY <1>2, Zenon DEF PInv, RuleFitsDevice, Loaded
  <2>2. Fresh'
    BY <2>1, Select_Fresh, Zenon DEF updateStates
  <2> QED
    BY <1>1, <2>2, Fresh_PInv, Zenon DEF PInv
<1>3. CASE profiles = NoProfiles
  <2>1. profiles' = profiles /\ UNCHANGED isTimerUpdated
    BY <1>3, DefaultFacts, Zenon DEF updateStates, Select
  <2> QED
    BY <1>1, <1>3, <2>1, Zenon DEF PInv, Loaded, RuleFitsDevice, ReadTimersAreCurrent
<1> QED
  BY <1>2, <1>3, Zenon

\* Initially there are no profiles, and the managers have to read the timers.
LEMMA Init_PInv == Init => PInv
  BY DEF Init, InitProfiles, PInv, Loaded, RuleFitsDevice, ReadTimersAreCurrent

\* Every step keeps the invariant.
LEMMA Next_PInv == PInv /\ [Next]_vars => PInv'
<1> SUFFICES ASSUME PInv, [Next]_vars PROVE PInv'
  BY Zenon
<1>1. CASE UNCHANGED <<profileVars, call, readVars>>
  <2>1. UNCHANGED <<profileVars, m_timers, lastReader, call>>
    BY <1>1, Zenon DEF readVars
  <2> QED
    BY <2>1, Same_PInv, Zenon DEF PInv
<1>2. CASE \E m \in Managers, p \in Providers : Start_Read(m, p) \/ Start_Register(m, p) \/ Stop(m, p)
  BY <1>1, <1>2, Zenon DEF Start_Read, Start_Register, Stop, callVars
<1>3. CASE \E p \in Providers : Report(p) \/ Copy(p) \/ OnChanged(p) \/ Skip(p)
  BY <1>1, <1>3, Zenon DEF Report, Copy, OnChanged, Skip, callVars
<1>4. CASE \E t \in Threads : UpdateDeviceCondition_Read(t)
  BY <1>1, <1>4, Zenon DEF UpdateDeviceCondition_Read, callVars
<1>5. CASE \E t \in Threads : UpdateDeviceCondition(t)
  <2>1. PICK t \in Threads : UpdateDeviceCondition(t)
    BY <1>5, Zenon
  <2>2. updateStates(args[t]["network"], args[t]["device"]) /\ UNCHANGED <<callVars, readVars>>
    BY <2>1, Zenon DEF UpdateDeviceCondition
  <2> QED
    BY <2>2, Device_PInv, Zenon
<1>6. CASE Application \/ \E m \in Managers : Reader(m)
  BY <1>6, Application_PInv, Reader_PInv, Zenon
<1>7. CASE UNCHANGED vars
  BY <1>1, <1>7, Zenon DEF vars, callVars
<1> QED
  BY <1>2, <1>3, <1>4, <1>5, <1>6, <1>7, Zenon DEF Next

\* For any profiles and lists, any number of threads that load, reset and select profiles, and any
\* reports of the device's state, the selected rule is the one of the selected profile for the
\* device's state that TransmitProfiles was told last.
THEOREM RuleAlwaysFitsDevice == Spec => []RuleFitsDevice
<1>1. PInv => RuleFitsDevice
  BY Zenon DEF PInv
<1> QED
  BY <1>1, Init_PInv, Next_PInv, PTL DEF Spec

\* While isTimerUpdated is clear, the manager that has read the timers last has those of the
\* selected rule, however many managers and threads there are.
THEOREM ReadTimersAlwaysCurrent == Spec => []ReadTimersAreCurrent
<1>1. PInv => ReadTimersAreCurrent
  BY Zenon DEF PInv
<1> QED
  BY <1>1, Init_PInv, Next_PInv, PTL DEF Spec

-----------------------------------------------------------------------------
(* The callbacks *)

\* Where a handler's own thread is before it is registered with a provider, and after that.
Before(p) ==
    {"new", "register_network"} \cup IF p = "network" THEN {} ELSE {"read_device", "register_device"}
After(p) == {"stopped"} \cup IF p = "network" THEN {"stop_device"} ELSE {}

\* The types the callbacks rest on.
CallbackTypes ==
    /\ m_callbacks \in Callbacks /\ local_callbacks \in Callbacks
    /\ token \in [Managers -> [Providers -> Nat]]
    /\ pc \in [Threads -> Places]
    /\ stopped \in [Providers -> SUBSET Managers]

\* A handler is where its token says or nowhere, and it is there while it is registered; after that
\* only the first one is.
Registered ==
    \A p \in Providers :
        /\ \A i \in 1..Len(m_callbacks[p]), m \in Managers :
              m_callbacks[p][i] = m => token[m][p] = i /\ (pc[m] \in After(p) => i = 1)
        /\ \A m \in Managers :
              /\ pc[m] \in Before(p) => token[m][p] = 0
              /\ pc[m] \notin Before(p) \cup After(p) =>
                    token[m][p] \in 1..Len(m_callbacks[p]) /\ m_callbacks[p][token[m][p]] = m

\* A report calls no handler that had been stopped, but for the first.
Calling ==
    \A p \in Providers :
        /\ \A m \in stopped[p] : pc[m] = "stopped"
        /\ pc[p] \in {"call", "args", "update"} =>
              \A i \in 1..Len(local_callbacks[p]) :
                 local_callbacks[p][i] \in stopped[p] => token[local_callbacks[p][i]][p] = 1
        /\ pc[p] \in {"args", "update"} => local_callbacks[p] # <<>>

\* The inductive invariant of the callbacks.
CInv == CallbackTypes /\ Registered /\ Calling

\* Initially no handler is registered.
LEMMA Init_CInv == Init => CInv
<1> SUFFICES ASSUME Init PROVE CInv
  BY Zenon
<1>1. CallbackTypes
  BY DEF Init, CallbackTypes, Callbacks, Places, Threads
<1>2. \A m \in Managers : pc[m] = "new" /\ \A p \in Providers : token[m][p] = 0
  BY Zenon DEF Init, Threads
<1>3. \A p \in Providers : pc[p] = "idle" /\ m_callbacks[p] = <<>> /\ stopped[p] = {}
  BY HandlerAssumption, Zenon DEF Init, Threads
<1>4. Registered
  BY <1>2, <1>3 DEF Registered, Before, After
<1>5. Calling
  BY <1>3, Zenon DEF Calling
<1> QED
  BY <1>1, <1>4, <1>5, Zenon DEF CInv

\* The threads: those of the managers and those of the providers.
LEMMA ThreadFacts ==
    /\ Managers \subseteq Threads /\ Providers \subseteq Threads /\ NULL \notin Managers
    /\ \A m \in Managers, p \in Providers : m # p
  BY HandlerAssumption, Zenon DEF Threads

\* A step of a handler's own thread that does not change what is registered.
LEMMA Walk_CInv ==
    ASSUME CInv, NEW m \in Managers, NEW where \in Places, pc' = [pc EXCEPT ![m] = where],
           UNCHANGED <<m_callbacks, token, local_callbacks, stopped>>, pc[m] # "stopped",
           \A p \in Providers : /\ where \in Before(p) <=> pc[m] \in Before(p)
                                /\ where \in After(p) <=> pc[m] \in After(p)
    PROVE  CInv'
<1>1. /\ pc' \in [Threads -> Places]
      /\ \A u \in Threads : pc'[u] = IF u = m THEN where ELSE pc[u]
  BY ThreadFacts, Zenon DEF CInv, CallbackTypes
<1>2. CallbackTypes'
  BY <1>1, Zenon DEF CInv, CallbackTypes
<1>3. \A n \in Managers, p \in Providers :
         /\ pc'[n] \in Before(p) <=> pc[n] \in Before(p)
         /\ pc'[n] \in After(p) <=> pc[n] \in After(p)
  <2> SUFFICES ASSUME NEW n \in Managers, NEW p \in Providers
               PROVE  /\ pc'[n] \in Before(p) <=> pc[n] \in Before(p)
                      /\ pc'[n] \in After(p) <=> pc[n] \in After(p)
    BY Zenon
  <2>1. CASE n = m
    <3>1. pc'[n] = where
      BY <1>1, <2>1, ThreadFacts, Zenon
    <3> QED
      BY <2>1, <3>1, Zenon
  <2>2. CASE n # m
    <3>1. pc'[n] = pc[n]
      BY <1>1, <2>2, ThreadFacts, Zenon
    <3> QED
      BY <3>1, Zenon
  <2> QED
    BY <2>1, <2>2, Zenon
<1>4. Registered'
  BY <1>3 DEF CInv, Registered
<1>5. Calling'
  <2>1. \A p \in Providers : pc'[p] = pc[p]
    BY <1>1, ThreadFacts, Zenon
  <2>2. \A n \in Managers : pc[n] = "stopped" => pc'[n] = "stopped"
    BY <1>1, ThreadFacts, Zenon
  <2> QED
    BY <2>1, <2>2 DEF CInv, CallbackTypes, Calling
<1> QED
  BY <1>2, <1>4, <1>5, Zenon DEF CInv

\* A step of a provider's thread leaves what is registered alone.
LEMMA Provider_Registered ==
    ASSUME CInv, NEW p \in Providers, NEW where \in Places, pc' = [pc EXCEPT ![p] = where],
           UNCHANGED <<m_callbacks, token>>
    PROVE  /\ Registered' /\ pc' \in [Threads -> Places]
           /\ pc'[p] = where /\ \A u \in Threads \ {p} : pc'[u] = pc[u]
           /\ \A m \in Managers : pc'[m] = pc[m]
<1>1. /\ pc' \in [Threads -> Places]
      /\ \A u \in Threads : pc'[u] = IF u = p THEN where ELSE pc[u]
  BY ThreadFacts, Zenon DEF CInv, CallbackTypes
<1>2. \A m \in Managers : pc'[m] = pc[m]
  BY <1>1, ThreadFacts, Zenon
<1>3. Registered'
  BY <1>2 DEF CInv, Registered
<1> QED
  BY <1>1, <1>2, <1>3, ThreadFacts, Zenon

\* Start registers the handler.
LEMMA Register_CInv ==
    ASSUME CInv, NEW m \in Managers, NEW q \in Providers, Start_Register(m, q)
    PROVE  CInv'
<1> DEFINE where == IF q = "network" THEN "read_device" ELSE "args"
           n == Len(m_callbacks[q]) + 1
<1>1. /\ pc[m] = IF q = "network" THEN "register_network" ELSE "register_device"
      /\ pc' = [pc EXCEPT ![m] = where]
      /\ m_callbacks' = [m_callbacks EXCEPT ![q] = Append(m_callbacks[q], m)]
      /\ token' = [token EXCEPT ![m][q] = n]
      /\ UNCHANGED <<local_callbacks, stopped>>
  BY Zenon DEF Start_Register, Register, Goto
<1>2. where \in {"read_device", "args"} /\ where \notin Before(q) \cup After(q)
      /\ pc[m] \in Before(q) /\ pc[m] # "stopped"
      /\ \A p \in Providers : p # q => /\ where \in Before(p) <=> pc[m] \in Before(p)
                                       /\ where \in After(p) <=> pc[m] \in After(p)
  BY <1>1, Zenon DEF Before, After, Providers
<1> HIDE DEF where
<1>3. /\ pc' \in [Threads -> Places]
      /\ \A u \in Threads : pc'[u] = IF u = m THEN where ELSE pc[u]
  BY <1>1, <1>2, ThreadFacts, Zenon DEF CInv, CallbackTypes, Places
<1>4. m_callbacks[q] \in Seq(Managers \cup {NULL}) /\ n \in Nat
  BY DEF CInv, CallbackTypes, Callbacks
<1>5. /\ m_callbacks' \in Callbacks
      /\ \A p \in Providers : p # q => m_callbacks'[p] = m_callbacks[p]
      /\ m_callbacks'[q] = Append(m_callbacks[q], m)
  <2>1. Append(m_callbacks[q], m) \in Seq(Managers \cup {NULL})
    BY <1>4
  <2> QED
    BY <1>1, <2>1, Zenon DEF CInv, CallbackTypes, Callbacks
<1>6. /\ Len(m_callbacks'[q]) = n /\ m_callbacks'[q][n] = m
      /\ \A i \in 1..Len(m_callbacks[q]) : m_callbacks'[q][i] = m_callbacks[q][i]
  BY <1>4, <1>5
<1>7. /\ token' \in [Managers -> [Providers -> Nat]]
      /\ \A u \in Managers, p \in Providers : token'[u][p] = IF u = m /\ p = q THEN n ELSE token[u][p]
  BY <1>1, <1>4, Zenon DEF CInv, CallbackTypes
<1>8. token[m][q] = 0 /\ token'[m][q] = n /\ pc'[m] = where
  <2>1. token[m][q] = 0
    BY <1>2, Zenon DEF CInv, Registered
  <2>2. pc'[m] = where
    BY <1>3, ThreadFacts, Zenon
  <2> QED
    BY <1>7, <2>1, <2>2, Zenon
<1>9. Registered'
  <2> SUFFICES ASSUME NEW p \in Providers
               PROVE  /\ \A i \in 1..Len(m_callbacks'[p]), u \in Managers :
                            m_callbacks'[p][i] = u => token'[u][p] = i /\ (pc'[u] \in After(p) => i = 1)
                      /\ \A u \in Managers :
                            /\ pc'[u] \in Before(p) => token'[u][p] = 0
                            /\ pc'[u] \notin Before(p) \cup After(p) =>
                                  token'[u][p] \in 1..Len(m_callbacks'[p]) /\ m_callbacks'[p][token'[u][p]] = u
    BY Zenon DEF Registered
  <2>1. CASE p # q
    <3>1. m_callbacks'[p] = m_callbacks[p] /\ \A u \in Managers : token'[u][p] = token[u][p]
      BY <1>5, <1>7, <2>1, Zenon
    <3>2. \A u \in Managers : /\ pc'[u] \in Before(p) <=> pc[u] \in Before(p)
                              /\ pc'[u] \in After(p) <=> pc[u] \in After(p)
      <4>1. \A u \in Managers : u # m => pc'[u] = pc[u]
        BY <1>3, ThreadFacts, Zenon
      <4>2. pc'[m] = where
        BY <1>3, ThreadFacts, Zenon
      <4>3. /\ pc'[m] \in Before(p) <=> pc[m] \in Before(p)
            /\ pc'[m] \in After(p) <=> pc[m] \in After(p)
        BY <1>2, <2>1, <4>2, Zenon
      <4> SUFFICES ASSUME NEW u \in Managers
                   PROVE  /\ pc'[u] \in Before(p) <=> pc[u] \in Before(p)
                          /\ pc'[u] \in After(p) <=> pc[u] \in After(p)
        BY Zenon
      <4>4. CASE u = m
        BY <4>3, <4>4, Zenon
      <4>5. CASE u # m
        <5>1. pc'[u] = pc[u]
          BY <4>1, <4>5, Zenon
        <5> QED
          BY <5>1, Zenon
      <4> QED
        BY <4>4, <4>5, Zenon
    <3>3. ASSUME NEW i \in 1..Len(m_callbacks'[p]), NEW u \in Managers, m_callbacks'[p][i] = u
          PROVE  token'[u][p] = i /\ (pc'[u] \in After(p) => i = 1)
      <4>1. token[u][p] = i /\ (pc[u] \in After(p) => i = 1)
        BY <3>1, <3>3 DEF CInv, Registered
      <4> QED
        BY <3>1, <3>2, <4>1, Zenon
    <3>4. ASSUME NEW u \in Managers
          PROVE  /\ pc'[u] \in Before(p) => token'[u][p] = 0
                 /\ pc'[u] \notin Before(p) \cup After(p) =>
                       token'[u][p] \in 1..Len(m_callbacks'[p]) /\ m_callbacks'[p][token'[u][p]] = u
      <4>1. /\ pc[u] \in Before(p) => token[u][p] = 0
            /\ pc[u] \notin Before(p) \cup After(p) =>
                  token[u][p] \in 1..Len(m_callbacks[p]) /\ m_callbacks[p][token[u][p]] = u
        BY Zenon DEF CInv, Registered
      <4> QED
        BY <3>1, <3>2, <4>1, Zenon
    <3> QED
      BY <3>3, <3>4, Zenon
  <2>2. CASE p = q
    <3>1. ASSUME NEW i \in 1..Len(m_callbacks'[q]), NEW u \in Managers, m_callbacks'[q][i] = u
          PROVE  token'[u][q] = i /\ (pc'[u] \in After(q) => i = 1)
      <4>1. CASE i = n
        <5>1. u = m
          BY <1>6, <3>1, <4>1, Zenon
        <5> QED
          BY <1>2, <1>8, <4>1, <5>1, Zenon
      <4>2. CASE i \in 1..Len(m_callbacks[q])
        <5>1. m_callbacks[q][i] = u /\ token[u][q] = i
          BY <1>6, <3>1, <4>2 DEF CInv, Registered
        <5>2. u # m
          BY <1>8, <4>2, <5>1
        <5>3. pc'[u] = pc[u] /\ token'[u][q] = token[u][q]
          BY <1>3, <1>7, <5>2, ThreadFacts, Zenon
        <5>4. pc[u] \in After(q) => i = 1
          BY <4>2, <5>1, Zenon DEF CInv, Registered
        <5> QED
          BY <5>1, <5>3, <5>4, Zenon
      <4> QED
        BY <1>4, <1>6, <3>1, <4>1, <4>2
    <3>2. ASSUME NEW u \in Managers
          PROVE  /\ pc'[u] \in Before(q) => token'[u][q] = 0
                 /\ pc'[u] \notin Before(q) \cup After(q) =>
                       token'[u][q] \in 1..Len(m_callbacks'[q]) /\ m_callbacks'[q][token'[u][q]] = u
      <4>1. CASE u = m
        <5>1. n \in 1..Len(m_callbacks'[q]) /\ m_callbacks'[q][n] = m
          BY <1>4, <1>6
        <5> QED
          BY <1>2, <1>8, <4>1, <5>1, Zenon
      <4>2. CASE u # m
        <5>1. pc'[u] = pc[u] /\ token'[u][q] = token[u][q]
          BY <1>3, <1>7, <4>2, ThreadFacts, Zenon
        <5>2. 1..Len(m_callbacks[q]) \subseteq 1..Len(m_callbacks'[q])
          BY <1>4, <1>6
        <5> QED
          BY <1>6, <5>1, <5>2 DEF CInv, Registered
      <4> QED
        BY <4>1, <4>2, Zenon
    <3> QED
      BY <2>2, <3>1, <3>2, Zenon
  <2> QED
    BY <2>1, <2>2, Zenon
<1>10. Calling'
  <2> SUFFICES ASSUME NEW p \in Providers
               PROVE  /\ \A u \in stopped[p] : pc'[u] = "stopped"
                      /\ pc[p] \in {"call", "args", "update"} =>
                            \A i \in 1..Len(local_callbacks[p]) :
                               local_callbacks[p][i] \in stopped[p] => token'[local_callbacks[p][i]][p] = 1
                      /\ pc[p] \in {"args", "update"} => local_callbacks[p] # <<>>
    BY <1>1, <1>3, ThreadFacts DEF Calling
  <2>1. \A u \in stopped[p] : u \in Managers /\ pc[u] = "stopped" /\ u # m
    BY <1>2, Zenon DEF CInv, CallbackTypes, Calling
  <2>2. \A u \in stopped[p] : pc'[u] = "stopped" /\ token'[u][p] = token[u][p]
    BY <1>3, <1>7, <2>1, ThreadFacts
  <2> QED
    BY <2>2, Zenon DEF CInv, Calling
<1>11. CallbackTypes'
  BY <1>1, <1>3, <1>5, <1>7, Zenon DEF CInv, CallbackTypes
<1> QED
  BY <1>9, <1>10, <1>11, Zenon DEF CInv

\* Stop removes the handler, unless it is the first one.
LEMMA Stop_CInv ==
    ASSUME CInv, NEW m \in Managers, NEW q \in Providers, Stop(m, q)
    PROVE  CInv'
<1> DEFINE where == IF q = "network" THEN "stop_device" ELSE "stopped"
           k == token[m][q]
<1>1. /\ pc[m] = IF q = "network" THEN "started" ELSE "stop_device"
      /\ pc' = [pc EXCEPT ![m] = where]
      /\ m_callbacks' = IF k - 1 > 0 /\ k - 1 < Len(m_callbacks[q])
                        THEN [m_callbacks EXCEPT ![q][k - 1 + 1] = NULL]
                        ELSE m_callbacks
      /\ UNCHANGED <<token, local_callbacks, stopped>>
  BY Zenon DEF Stop, UnRegister, Goto, handlerVars
<1>2. /\ where \in Places /\ where \in After(q) /\ where \notin Before(q)
      /\ pc[m] \notin Before(q) \cup After(q) /\ pc[m] # "stopped"
  BY <1>1, Zenon DEF Before, After, Providers, Places
<1>3. \A p \in Providers : p # q => /\ (where \in Before(p) <=> pc[m] \in Before(p))
                                    /\ (where \in After(p) <=> pc[m] \in After(p))
  BY <1>1 DEF Before, After, Providers
<1> HIDE DEF where
<1>4. /\ pc' \in [Threads -> Places]
      /\ pc'[m] = where /\ \A u \in Threads : u # m => pc'[u] = pc[u]
  BY <1>1, <1>2, ThreadFacts, Zenon DEF CInv, CallbackTypes
<1>5. k \in 1..Len(m_callbacks[q]) /\ m_callbacks[q][k] = m
  BY <1>2, Zenon DEF CInv, Registered
<1>6. m_callbacks[q] \in Seq(Managers \cup {NULL}) /\ k \in Nat /\ Len(m_callbacks[q]) \in Nat
  BY DEF CInv, CallbackTypes, Callbacks
<1>7. m_callbacks' \in Callbacks /\ \A p \in Providers :
         /\ Len(m_callbacks'[p]) = Len(m_callbacks[p])
         /\ \A i \in 1..Len(m_callbacks[p]) :
               m_callbacks'[p][i] = IF p = q /\ i = k /\ k # 1 THEN NULL ELSE m_callbacks[p][i]
  <2>1. CASE k = 1
    BY <1>1, <2>1 DEF CInv, CallbackTypes
  <2>2. CASE k # 1
    <3>1. m_callbacks' = [m_callbacks EXCEPT ![q] = [m_callbacks[q] EXCEPT ![k] = NULL]]
      <4>1. k - 1 > 0 /\ k - 1 < Len(m_callbacks[q]) /\ k - 1 + 1 = k
        BY <1>5, <1>6, <2>2
      <4> HIDE DEF k
      <4> QED
        BY <1>1, <4>1, Zenon
    <3> HIDE DEF k
    <3>2. /\ [m_callbacks[q] EXCEPT ![k] = NULL] \in Seq(Managers \cup {NULL})
          /\ Len([m_callbacks[q] EXCEPT ![k] = NULL]) = Len(m_callbacks[q])
          /\ \A i \in 1..Len(m_callbacks[q]) :
                [m_callbacks[q] EXCEPT ![k] = NULL][i] = IF i = k THEN NULL ELSE m_callbacks[q][i]
      BY <1>5, <1>6
    <3>3. /\ m_callbacks' \in Callbacks
          /\ m_callbacks'[q] = [m_callbacks[q] EXCEPT ![k] = NULL]
          /\ \A p \in Providers : p # q => m_callbacks'[p] = m_callbacks[p]
      BY <3>1, <3>2, Zenon DEF CInv, CallbackTypes, Callbacks
    <3> QED
      BY <2>2, <3>2, <3>3, Zenon
  <2> QED
    BY <2>1, <2>2, Zenon
<1>8. Registered'
  <2> SUFFICES ASSUME NEW p \in Providers
               PROVE  /\ \A i \in 1..Len(m_callbacks'[p]), u \in Managers :
                            m_callbacks'[p][i] = u => token[u][p] = i /\ (pc'[u] \in After(p) => i = 1)
                      /\ \A u \in Managers :
                            /\ pc'[u] \in Before(p) => token[u][p] = 0
                            /\ pc'[u] \notin Before(p) \cup After(p) =>
                                  token[u][p] \in 1..Len(m_callbacks'[p]) /\ m_callbacks'[p][token[u][p]] = u
    BY <1>1 DEF Registered
  <2>1. ASSUME NEW i \in 1..Len(m_callbacks'[p]), NEW u \in Managers, m_callbacks'[p][i] = u
        PROVE  token[u][p] = i /\ (pc'[u] \in After(p) => i = 1)
    <3>1. i \in 1..Len(m_callbacks[p]) /\ m_callbacks[p][i] = u /\ ~(p = q /\ i = k /\ k # 1)
      BY <1>7, <2>1, ThreadFacts, Zenon
    <3>2. token[u][p] = i /\ (pc[u] \in After(p) => i = 1)
      BY <3>1 DEF CInv, Registered
    <3>3. CASE u = m /\ p = q
      BY <3>1, <3>2, <3>3, Zenon
    <3>4. CASE u = m /\ p # q
      BY <1>3, <1>4, <3>2, <3>4, Zenon
    <3>5. CASE u # m
      BY <1>4, <3>2, <3>5, ThreadFacts, Zenon
    <3> QED
      BY <3>3, <3>4, <3>5, Zenon
  <2>2. ASSUME NEW u \in Managers
        PROVE  /\ pc'[u] \in Before(p) => token[u][p] = 0
               /\ pc'[u] \notin Before(p) \cup After(p) =>
                     token[u][p] \in 1..Len(m_callbacks'[p]) /\ m_callbacks'[p][token[u][p]] = u
    <3>1. CASE u = m /\ p = q
      BY <1>2, <1>4, <3>1, Zenon
    <3>2. CASE ~(u = m /\ p = q)
      <4>1. /\ pc'[u] \in Before(p) <=> pc[u] \in Before(p)
            /\ pc'[u] \in After(p) <=> pc[u] \in After(p)
        <5>1. CASE u = m
          BY <1>3, <1>4, <3>2, <5>1, Zenon
        <5>2. CASE u # m
          BY <1>4, <5>2, ThreadFacts, Zenon
        <5> QED
          BY <5>1, <5>2, Zenon
      <4>2. ASSUME pc[u] \notin Before(p) \cup After(p)
            PROVE  token[u][p] \in 1..Len(m_callbacks'[p]) /\ m_callbacks'[p][token[u][p]] = u
        <5>1. token[u][p] \in 1..Len(m_callbacks[p]) /\ m_callbacks[p][token[u][p]] = u
          BY <4>2, Zenon DEF CInv, Registered
        <5>2. ~(p = q /\ token[u][p] = k)
          BY <1>5, <3>2, <5>1, Zenon
        <5> QED
          BY <1>7, <5>1, <5>2, Zenon
      <4> QED
        BY <4>1, <4>2, Zenon DEF CInv, Registered
    <3> QED
      BY <3>1, <3>2, Zenon
  <2> QED
    BY <2>1, <2>2, Zenon
<1>9. Calling'
  <2>1. \A p \in Providers : pc'[p] = pc[p] /\ \A u \in stopped[p] : pc'[u] = "stopped"
    <3>1. \A p \in Providers : \A u \in stopped[p] : u \in Managers /\ pc[u] = "stopped" /\ u # m
      <4>1. \A p \in Providers : \A u \in stopped[p] : u \in Managers
        BY Zenon DEF CInv, CallbackTypes
      <4>2. \A p \in Providers : \A u \in stopped[p] : pc[u] = "stopped"
        BY Zenon DEF CInv, Calling
      <4> QED
        BY <1>2, <4>1, <4>2, Zenon
    <3> QED
      BY <1>4, <3>1, ThreadFacts, Zenon
  <2> QED
    BY <1>1, <2>1 DEF CInv, Calling
<1> QED
  BY <1>1, <1>4, <1>7, <1>8, <1>9, Zenon DEF CInv, CallbackTypes

\* A step of a provider's thread: what it has to ensure for the calls of this provider.
LEMMA Provider_CInv ==
    ASSUME CInv, NEW p \in Providers, NEW where \in Places, pc' = [pc EXCEPT ![p] = where],
           UNCHANGED <<m_callbacks, token>>,
           local_callbacks' \in Callbacks, stopped' \in [Providers -> SUBSET Managers],
           \A r \in Providers : r # p => local_callbacks'[r] = local_callbacks[r] /\ stopped'[r] = stopped[r],
           \A m \in stopped'[p] : pc[m] = "stopped",
           where \in {"call", "args", "update"} =>
              \A i \in 1..Len(local_callbacks'[p]) :
                 local_callbacks'[p][i] \in stopped'[p] => token[local_callbacks'[p][i]][p] = 1,
           where \in {"args", "update"} => local_callbacks'[p] # <<>>
    PROVE  CInv'
<1>1. /\ Registered' /\ pc' \in [Threads -> Places]
      /\ pc'[p] = where /\ \A u \in Threads \ {p} : pc'[u] = pc[u]
      /\ \A m \in Managers : pc'[m] = pc[m]
  BY Provider_Registered, Zenon
<1>2. CallbackTypes'
  BY <1>1, Zenon DEF CInv, CallbackTypes
<1>3. ASSUME NEW r \in Providers
      PROVE  /\ \A m \in stopped'[r] : pc'[m] = "stopped"
             /\ pc'[r] \in {"call", "args", "update"} =>
                   \A i \in 1..Len(local_callbacks'[r]) :
                      local_callbacks'[r][i] \in stopped'[r] => token[local_callbacks'[r][i]][r] = 1
             /\ pc'[r] \in {"args", "update"} => local_callbacks'[r] # <<>>
  <2>1. \A m \in stopped'[r] : m \in Managers
    BY Zenon
  <2>2. CASE r = p
    BY <1>1, <2>1, <2>2, Zenon
  <2>3. CASE r # p
    <3>1. pc'[r] = pc[r] /\ local_callbacks'[r] = local_callbacks[r] /\ stopped'[r] = stopped[r]
      BY <1>1, <2>3, ThreadFacts, Zenon
    <3>2. \A m \in stopped[r] : pc[m] = "stopped"
      BY Zenon DEF CInv, Calling
    <3>3. \A m \in stopped'[r] : pc'[m] = "stopped"
      BY <1>1, <2>1, <3>1, <3>2, Zenon
    <3> QED
      BY <3>1, <3>3 DEF CInv, Calling
  <2> QED
    BY <2>2, <2>3, Zenon
<1>4. Calling'
  BY <1>3, Zenon DEF Calling
<1> QED
  BY <1>1, <1>2, <1>4, Zenon DEF CInv

\* A report notes who is stopped.
LEMMA Report_CInv ==
    ASSUME CInv, NEW p \in Providers, Report(p)
    PROVE  CInv'
<1>1. /\ pc' = [pc EXCEPT ![p] = "copy"]
      /\ stopped' = [stopped EXCEPT ![p] = {m \in Managers : pc[m] = "stopped"}]
      /\ UNCHANGED <<m_callbacks, token, local_callbacks>>
  BY Zenon DEF Report, Goto, handlerVars
<1>2. /\ stopped' \in [Providers -> SUBSET Managers]
      /\ stopped'[p] = {m \in Managers : pc[m] = "stopped"}
      /\ \A r \in Providers : r # p => stopped'[r] = stopped[r]
  BY <1>1, Zenon DEF CInv, CallbackTypes
<1>3. local_callbacks' \in Callbacks /\ "copy" \in Places
  BY <1>1, Zenon DEF CInv, CallbackTypes, Places
<1> QED
  BY <1>1, <1>2, <1>3, Provider_CInv, Zenon

\* The copy has, of the stopped ones, only the first.
LEMMA Copy_CInv ==
    ASSUME CInv, NEW p \in Providers, Copy(p)
    PROVE  CInv'
<1>1. /\ pc' = [pc EXCEPT ![p] = "call"]
      /\ local_callbacks' = [local_callbacks EXCEPT ![p] = m_callbacks[p]]
      /\ UNCHANGED <<m_callbacks, token, stopped>>
  BY Zenon DEF Copy, Goto, handlerVars
<1>2. /\ local_callbacks' \in Callbacks /\ local_callbacks'[p] = m_callbacks[p]
      /\ \A r \in Providers : r # p => local_callbacks'[r] = local_callbacks[r]
  BY <1>1, Zenon DEF CInv, CallbackTypes, Callbacks
<1>3. \A m \in stopped[p] : m \in Managers /\ pc[m] = "stopped" /\ pc[m] \in After(p)
  <2>1. stopped[p] \subseteq Managers /\ \A m \in stopped[p] : pc[m] = "stopped"
    BY Zenon DEF CInv, CallbackTypes, Calling
  <2> QED
    BY <2>1, Zenon DEF After
<1>4. ASSUME NEW i \in 1..Len(m_callbacks[p]), m_callbacks[p][i] \in stopped[p]
      PROVE  token[m_callbacks[p][i]][p] = 1
  <2>1. m_callbacks[p][i] \in Managers /\ pc[m_callbacks[p][i]] \in After(p)
    BY <1>3, <1>4, Zenon
  <2>2. \A m \in Managers : m_callbacks[p][i] = m => token[m][p] = i /\ (pc[m] \in After(p) => i = 1)
    BY Zenon DEF CInv, Registered
  <2>3. token[m_callbacks[p][i]][p] = i /\ i = 1
    BY <2>1, <2>2, Zenon
  <2> QED
    BY <2>3, Zenon
<1>5. "call" \in Places /\ stopped' \in [Providers -> SUBSET Managers]
  BY <1>1, Zenon DEF CInv, CallbackTypes, Places
<1>6. \A i \in 1..Len(local_callbacks'[p]) :
         local_callbacks'[p][i] \in stopped'[p] => token[local_callbacks'[p][i]][p] = 1
  BY <1>1, <1>2, <1>4, Zenon
<1>7. (\A m \in stopped'[p] : pc[m] = "stopped") /\ \A r \in Providers : stopped'[r] = stopped[r]
  BY <1>1, <1>3, Zenon
<1> QED
  BY <1>1, <1>2, <1>5, <1>6, <1>7, Provider_CInv, Zenon

\* A call of the loop goes on with the same callbacks.
LEMMA Stay_CInv ==
    ASSUME CInv, NEW p \in Providers, NEW where \in {"args", "update"},
           pc[p] \in {"call", "args", "update"}, local_callbacks[p] # <<>>,
           pc' = [pc EXCEPT ![p] = where], UNCHANGED <<m_callbacks, token, local_callbacks, stopped>>
    PROVE  CInv'
<1>1. where \in Places /\ local_callbacks' \in Callbacks /\ stopped' \in [Providers -> SUBSET Managers]
  BY Zenon DEF CInv, CallbackTypes, Places
<1>2. /\ \A m \in stopped'[p] : pc[m] = "stopped"
      /\ \A i \in 1..Len(local_callbacks'[p]) :
            local_callbacks'[p][i] \in stopped'[p] => token[local_callbacks'[p][i]][p] = 1
  BY Zenon DEF CInv, Calling
<1> QED
  BY <1>1, <1>2, Provider_CInv, Zenon

\* The loop goes on with the rest of the callbacks.
LEMMA Tail_CInv ==
    ASSUME CInv, NEW p \in Providers, pc[p] \in {"call", "args", "update"}, local_callbacks[p] # <<>>,
           pc' = [pc EXCEPT ![p] = "call"],
           local_callbacks' = [local_callbacks EXCEPT ![p] = Tail(local_callbacks[p])],
           UNCHANGED <<m_callbacks, token, stopped>>
    PROVE  CInv'
<1>1. local_callbacks[p] \in Seq(Managers \cup {NULL})
  BY Zenon DEF CInv, CallbackTypes, Callbacks
<1>2. /\ Tail(local_callbacks[p]) \in Seq(Managers \cup {NULL})
      /\ Len(Tail(local_callbacks[p])) = Len(local_callbacks[p]) - 1
      /\ \A i \in 1..Len(Tail(local_callbacks[p])) :
            /\ i + 1 \in 1..Len(local_callbacks[p])
            /\ Tail(local_callbacks[p])[i] = local_callbacks[p][i + 1]
  BY <1>1
<1>3. /\ local_callbacks' \in Callbacks /\ local_callbacks'[p] = Tail(local_callbacks[p])
      /\ \A r \in Providers : r # p => local_callbacks'[r] = local_callbacks[r]
  BY <1>2, Zenon DEF CInv, CallbackTypes, Callbacks
<1>4. /\ \A m \in stopped'[p] : pc[m] = "stopped"
      /\ \A i \in 1..Len(local_callbacks[p]) :
            local_callbacks[p][i] \in stopped[p] => token[local_callbacks[p][i]][p] = 1
  BY Zenon DEF CInv, Calling
<1>5. \A i \in 1..Len(local_callbacks'[p]) :
         local_callbacks'[p][i] \in stopped'[p] => token[local_callbacks'[p][i]][p] = 1
  BY <1>2, <1>3, <1>4
<1>6. "call" \in Places /\ stopped' \in [Providers -> SUBSET Managers]
  BY Zenon DEF CInv, CallbackTypes, Places
<1> QED
  BY <1>3, <1>4, <1>5, <1>6, Provider_CInv, Zenon

\* Every step preserves the invariant of the callbacks.
LEMMA Next_CInv == CInv /\ [Next]_vars => CInv'
<1> SUFFICES ASSUME CInv, [Next]_vars PROVE CInv'
  BY Zenon
<1>1. ASSUME UNCHANGED <<m_callbacks, token, local_callbacks, stopped, pc>>
      PROVE  CInv'
  BY <1>1 DEF CInv, CallbackTypes, Registered, Calling
<1>2. ASSUME NEW m \in Managers, NEW p \in Providers, Start_Read(m, p) PROVE CInv'
  <2> DEFINE where == IF p = "network" THEN "register_network" ELSE "register_device"
  <2>1. /\ pc[m] = IF p = "network" THEN "new" ELSE "read_device"
        /\ pc' = [pc EXCEPT ![m] = where]
        /\ UNCHANGED <<m_callbacks, token, local_callbacks, stopped>>
    BY <1>2, Zenon DEF Start_Read, Goto, providerVars
  <2>2. /\ where \in Places /\ pc[m] # "stopped"
        /\ \A r \in Providers : /\ where \in Before(r) <=> pc[m] \in Before(r)
                                /\ where \in After(r) <=> pc[m] \in After(r)
    BY <2>1, Zenon DEF Before, After, Providers, Places
  <2> HIDE DEF where
  <2> QED
    BY <2>1, <2>2, Walk_CInv, Zenon
<1>3. ASSUME NEW p \in Providers, OnChanged(p) PROVE CInv'
  BY <1>3, Stay_CInv, Zenon DEF OnChanged, Goto, providerVars
<1>4. ASSUME NEW p \in Providers, Skip(p) PROVE CInv'
  <2>1. CASE local_callbacks[p] # <<>>
    BY <1>4, <2>1, Tail_CInv, Zenon DEF Skip, Goto, handlerVars
  <2>2. CASE local_callbacks[p] = <<>>
    <3>1. /\ pc' = [pc EXCEPT ![p] = "idle"] /\ stopped' = [stopped EXCEPT ![p] = {}]
          /\ UNCHANGED <<m_callbacks, token, local_callbacks>>
      BY <1>4, <2>2, Zenon DEF Skip, Goto, handlerVars
    <3>2. /\ stopped' \in [Providers -> SUBSET Managers] /\ stopped'[p] = {}
          /\ \A r \in Providers : r # p => stopped'[r] = stopped[r]
          /\ local_callbacks' \in Callbacks /\ "idle" \in Places
      BY <3>1, Zenon DEF CInv, CallbackTypes, Places
    <3> QED
      BY <3>1, <3>2, Provider_CInv, Zenon
  <2> QED
    BY <2>1, <2>2, Zenon
<1>5. ASSUME NEW t \in Threads, UpdateDeviceCondition_Read(t) PROVE CInv'
  <2>1. /\ pc[t] = "args" /\ pc' = [pc EXCEPT ![t] = "update"]
        /\ UNCHANGED <<m_callbacks, token, local_callbacks, stopped>>
    BY <1>5, Zenon DEF UpdateDeviceCondition_Read, Goto, providerVars, handlerVars
  <2>2. CASE t \in Providers
    <3>1. local_callbacks[t] # <<>>
      BY <2>1, <2>2, Zenon DEF CInv, Calling
    <3> QED
      BY <2>1, <2>2, <3>1, Stay_CInv, Zenon
  <2>3. CASE t \in Managers
    <3>1. /\ "update" \in Places /\ pc[t] # "stopped"
          /\ \A r \in Providers : /\ "update" \in Before(r) <=> pc[t] \in Before(r)
                                  /\ "update" \in After(r) <=> pc[t] \in After(r)
      BY <2>1, Zenon DEF Before, After, Providers, Places
    <3> QED
      BY <2>1, <2>3, <3>1, Walk_CInv, Zenon
  <2> QED
    BY <2>2, <2>3, Zenon DEF Threads
<1>6. ASSUME NEW t \in Threads, UpdateDeviceCondition(t) PROVE CInv'
  <2>1. pc[t] = "update" /\ UNCHANGED <<m_callbacks, token, stopped>>
    BY <1>6, Zenon DEF UpdateDeviceCondition, handlerVars
  <2>2. CASE t \in Providers
    <3>1. local_callbacks[t] # <<>>
      BY <2>1, <2>2, Zenon DEF CInv, Calling
    <3>2. /\ pc' = [pc EXCEPT ![t] = "call"]
          /\ local_callbacks' = [local_callbacks EXCEPT ![t] = Tail(local_callbacks[t])]
      BY <1>6, <2>2, Zenon DEF UpdateDeviceCondition, Goto
    <3> QED
      BY <2>1, <2>2, <3>1, <3>2, Tail_CInv, Zenon
  <2>3. CASE t \in Managers
    <3>1. pc' = [pc EXCEPT ![t] = "started"] /\ UNCHANGED local_callbacks
      BY <1>6, <2>3, ThreadFacts, Zenon DEF UpdateDeviceCondition, Goto
    <3>2. /\ "started" \in Places /\ pc[t] # "stopped"
          /\ \A r \in Providers : /\ "started" \in Before(r) <=> pc[t] \in Before(r)
                                  /\ "started" \in After(r) <=> pc[t] \in After(r)
      BY <2>1, Zenon DEF Before, After, Providers, Places
    <3> QED
      BY <2>1, <2>3, <3>1, <3>2, Walk_CInv, Zenon
  <2> QED
    BY <2>2, <2>3, Zenon DEF Threads
<1>7. CASE UNCHANGED vars
  BY <1>1, <1>7, Zenon DEF vars, providerVars, handlerVars
<1>8. CASE UNCHANGED <<providerVars, handlerVars, args, pc>>
  BY <1>1, <1>8, Zenon DEF providerVars, handlerVars
<1> QED
  BY <1>2, <1>3, <1>4, <1>5, <1>6, <1>7, <1>8, Register_CInv, Stop_CInv, Report_CInv, Copy_CInv, Zenon DEF Next

\* A handler that runs is registered with both providers, and a report calls no handler that had been
\* stopped when it was made, but for the first one registered (UnRegisterInformationChangedCallback).
THEOREM StopAlwaysEndsItsCallbacks == Spec => []StopEndsItsCallbacks
<1>1. CInv => StopEndsItsCallbacks
  <2> SUFFICES ASSUME CInv PROVE StopEndsItsCallbacks
    BY Zenon
  <2>1. ASSUME NEW m \in Managers, NEW p \in Providers, pc[m] = "started"
        PROVE  m_callbacks[p][token[m][p]] = m
    BY <2>1 DEF CInv, Registered, Before, After
  <2>2. ASSUME NEW p \in Providers, pc[p] \in {"args", "update"}, Handler(p) \in stopped[p]
        PROVE  token[Handler(p)][p] = 1
    <3>1. local_callbacks[p] \in Seq(Managers \cup {NULL}) /\ local_callbacks[p] # <<>>
      BY <2>2, Zenon DEF CInv, CallbackTypes, Callbacks, Calling
    <3>2. 1 \in 1..Len(local_callbacks[p]) /\ Handler(p) = local_callbacks[p][1]
      BY <3>1 DEF Handler
    <3> QED
      BY <2>2, <3>2 DEF CInv, Calling
  <2> QED
    BY <2>1, <2>2, Zenon DEF StopEndsItsCallbacks
<1> QED
  BY <1>1, Init_CInv, Next_CInv, PTL DEF Spec

-----------------------------------------------------------------------------
(* Types *)

\* The first of a sequence that is not empty.
LEMMA HeadType == ASSUME NEW S, NEW s \in Seq(S), s # <<>> PROVE Head(s) \in S
  OBVIOUS

ProfileTypes(ps) == DOMAIN ps \subseteq Names /\ \A n \in DOMAIN ps : ps[n] \in Seq(Rules)

\* The parts of the types: what is selected, the calls, the readers, and the states.
SelectionTypes ==
    /\ ProfileTypes(profiles)
    /\ currProfileName \in Names
    /\ currRule \in Nat \ {0}
    /\ currNetCost \in NetworkCosts \cup {AnyState} /\ currPowState \in PowerSources \cup {AnyState}
    /\ isTimerUpdated \in BOOLEAN
CallTypes == call \in [Apps -> Calls \cup {NoCall}] /\ calls \in 0..MaxCalls
ReadTypes ==
    /\ m_timers \in [Managers -> Seq(Int)]
    /\ reading \in [Managers -> {"idle", "ensure", "get"}]
    /\ lastReader \in Managers \cup {NoManager}
StateTypes ==
    /\ value \in Pairs /\ \A p \in Providers : value[p] \in Values(p)
    /\ state \in [Managers -> Pairs] /\ args \in [Threads -> Pairs]
    /\ \A p \in Providers : pc[p] \in {"args", "update"} => Handler(p) \in Managers

\* A set of numbers that is not empty has a least one.
LEMMA MinIn == ASSUME NEW S, S \subseteq Nat, S # {} PROVE Min(S) \in S
<1>1. PICK x \in S : \A y \in S : ~ (<<y, x>> \in OpToRel(<, Nat))
  BY WFMin, NatLessThanWellFounded, Zenon
<1>2. ASSUME NEW y \in S PROVE x <= y
  <2>1. y < x => <<y, x>> \in OpToRel(<, Nat)
    BY Zenon DEF OpToRel
  <2>2. ~ (y < x)
    BY <1>1, <2>1, Zenon
  <2> QED
    BY <2>2
<1> QED
  BY <1>1, <1>2, Zenon DEF Min

\* updateStates finds the number of a rule.
LEMMA RuleFor_Type == ASSUME NEW rules \in Seq(Rules), NEW net, NEW pow PROVE RuleFor(rules, net, pow) \in Nat \ {0}
<1> DEFINE found == {i \in 1..Len(rules) : Matches(rules[i], net, pow)}
<1>1. found \subseteq Nat \ {0}
  OBVIOUS
<1>2. RuleFor(rules, net, pow) = IF found = {} THEN 1 ELSE Min(found)
  BY Zenon DEF RuleFor
<1> HIDE DEF found
<1>3. CASE found = {}
  BY <1>2, <1>3
<1>4. CASE found # {}
  <2>1. Min(found) \in found
    BY <1>1, <1>4, MinIn, Zenon
  <2>2. RuleFor(rules, net, pow) = Min(found)
    BY <1>2, <1>4, Zenon
  <2>3. RuleFor(rules, net, pow) \in found
    BY <2>1, <2>2, Zenon
  <2> QED
    BY <1>1, <2>3, Zenon
<1> QED
  BY <1>3, <1>4, Zenon

\* The built-in profiles, those of a list, and none.
LEMMA ListTypes ==
    /\ ProfileTypes(Defaults) /\ ProfileTypes(NoProfiles) /\ \A l \in Lists : ProfileTypes(l)
    /\ DEFAULT_PROFILE \in Names /\ MaxCalls \in Nat
  BY ProfileAssumption, Zenon DEF ProfileTypes, NoProfiles, DefaultNames

\* What updateStates selects.
LEMMA Select_Types ==
    ASSUME isTimerUpdated \in BOOLEAN, NEW ps, ProfileTypes(ps), NEW name \in Names, NEW rule \in Nat \ {0},
           NEW net \in NetworkCosts \cup {AnyState}, NEW pow \in PowerSources \cup {AnyState},
           Select(ps, name, rule, net, pow)
    PROVE  SelectionTypes'
<1>1. /\ profiles' = ps /\ currProfileName' = name /\ currNetCost' = net /\ currPowState' = pow
      /\ isTimerUpdated' \in BOOLEAN
      /\ currRule' = rule \/ (name \in DOMAIN ps /\ currRule' = RuleFor(ps[name], net, pow))
  BY Zenon DEF Select
<1>2. currRule' \in Nat \ {0}
  BY <1>1, RuleFor_Type, Zenon DEF ProfileTypes
<1>3. ProfileTypes(profiles)'
  BY <1>1, Zenon DEF ProfileTypes
<1> QED
  BY <1>1, <1>2, <1>3, Zenon DEF SelectionTypes

\* UpdateProfiles.
LEMMA Update_Types ==
    ASSUME SelectionTypes, NEW list, ProfileTypes(list), UpdateProfiles(list)
    PROVE  SelectionTypes'
<1> DEFINE ps == [n \in (DOMAIN profiles \cap DefaultNames) \cup DOMAIN list |->
                     IF n \in DOMAIN list THEN list[n] ELSE profiles[n]]
           name == IF currProfileName \in DOMAIN ps THEN currProfileName ELSE DEFAULT_PROFILE
<1>1. Select(ps, name, 1, currNetCost, currPowState)
  BY Zenon DEF UpdateProfiles
<1>2. ProfileTypes(ps)
  BY Zenon DEF SelectionTypes, ProfileTypes
<1>3. name \in Names
  BY ListTypes, Zenon DEF SelectionTypes
<1> HIDE DEF ps, name
<1> QED
  BY <1>1, <1>2, <1>3, Select_Types DEF SelectionTypes

\* EnsureDefaultProfiles.
LEMMA Ensure_Types == ASSUME SelectionTypes, EnsureDefaultProfiles PROVE SelectionTypes'
<1>1. CASE UpdateProfiles(Defaults)
  BY <1>1, Update_Types, ListTypes, Zenon
<1>2. CASE UNCHANGED profileVars
  BY <1>2, Zenon DEF profileVars, SelectionTypes, ProfileTypes
<1> QED
  BY <1>1, <1>2, Zenon DEF EnsureDefaultProfiles

\* A call of the application.
LEMMA Application_Types ==
    ASSUME SelectionTypes, CallTypes, Application
    PROVE  SelectionTypes' /\ CallTypes' /\ UNCHANGED readVars
<1> PICK t \in Apps : Begin(t) \/ setProfile(t) \/ load(t) \/ parse(t) \/ reset(t)
  BY Zenon DEF Application
<1>1. CASE Begin(t)
  <2>1. SelectionTypes'
    BY <1>1, Ensure_Types, Zenon DEF Begin
  <2> QED
    BY <1>1, <2>1, ListTypes DEF Begin, FromOutside, CallTypes
<1>2. ASSUME call' = [call EXCEPT ![t] = NoCall], UNCHANGED calls PROVE CallTypes'
  BY <1>2, Zenon DEF CallTypes
<1>3. CASE setProfile(t)
  <2> DEFINE name == IF call[t].name \in DOMAIN profiles THEN call[t].name ELSE DEFAULT_PROFILE
  <2>1. name \in Names
    BY ListTypes, Zenon DEF SelectionTypes, ProfileTypes
  <2>2. Select(profiles, name, currRule, currNetCost, currPowState)
    BY <1>3, Zenon DEF setProfile
  <2> HIDE DEF name
  <2>3. SelectionTypes'
    BY <2>1, <2>2, Select_Types, Zenon DEF SelectionTypes
  <2> QED
    BY <1>2, <1>3, <2>3, Zenon DEF setProfile
<1>4. ASSUME UNCHANGED profileVars PROVE SelectionTypes'
  BY <1>4, Zenon DEF profileVars, SelectionTypes, ProfileTypes
<1>5. ASSUME call[t].fn \in {"load", "parse"} PROVE ProfileTypes(call[t].list)
  <2>1. call[t] \in Calls \cup {NoCall}
    BY Zenon DEF CallTypes
  <2>2. call[t] # NoCall
    BY <1>5 DEF NoCall
  <2>3. call[t].list \in Lists \cup {NoProfiles}
    BY <2>1, <2>2, Zenon DEF Calls
  <2> QED
    BY <2>3, ListTypes, Zenon
<1>6. CASE load(t)
  <2>1. SelectionTypes'
    BY <1>4, <1>5, <1>6, Update_Types, Zenon DEF load
  <2> QED
    BY <1>2, <1>6, <2>1, Zenon DEF load
<1>7. CASE parse(t)
  <2>1. ASSUME NEW S \in SUBSET DOMAIN call[t].list, UpdateProfiles([n \in S |-> call[t].list[n]])
        PROVE  SelectionTypes'
    <3>1. ProfileTypes([n \in S |-> call[t].list[n]])
      BY <1>5, <1>7, Zenon DEF parse, ProfileTypes
    <3> QED
      BY <2>1, <3>1, Update_Types, Zenon
  <2>2. SelectionTypes'
    BY <1>4, <1>7, <2>1, Zenon DEF parse
  <2> QED
    BY <1>2, <1>7, <2>2, Zenon DEF parse
<1>8. CASE reset(t)
  <2>1. SelectionTypes'
    BY <1>8, Update_Types, ListTypes, Zenon DEF reset
  <2> QED
    BY <1>8, <2>1, ListTypes DEF reset, FromOutside, CallTypes
<1> QED
  BY <1>1, <1>3, <1>6, <1>7, <1>8, Zenon

\* A manager's look at the timers.
LEMMA Reader_Types ==
    ASSUME SelectionTypes, ReadTypes, NEW m \in Managers, Reader(m)
    PROVE  SelectionTypes' /\ ReadTypes' /\ UNCHANGED callVars
<1>1. CASE isTimerUpdateRequired(m)
  BY <1>1, Zenon DEF isTimerUpdateRequired, profileVars, SelectionTypes, ProfileTypes, ReadTypes
<1>2. CASE Ensure(m)
  <2>1. SelectionTypes'
    BY <1>2, Ensure_Types, Zenon DEF Ensure
  <2> QED
    BY <1>2, <2>1, Zenon DEF Ensure, ReadTypes
<1>3. CASE getTimers(m)
  <2>1. SelectionTypes'
    BY <1>3, Zenon DEF getTimers, SelectionTypes, ProfileTypes
  <2>2. ASSUME HasTimers PROVE Timers \in Seq(Int)
    <3> DEFINE timers == profiles[currProfileName][currRule].timers
    <3>1. timers \in Seq(Int) /\ timers # <<>>
      <4>1. /\ profiles[currProfileName] \in Seq(Rules)
            /\ currRule \in DOMAIN profiles[currProfileName]
            /\ timers # <<>>
        BY <2>2, Zenon DEF HasTimers, SelectionTypes, ProfileTypes
      <4>2. profiles[currProfileName][currRule] \in Rules
        BY <4>1
      <4> QED
        BY <4>1, <4>2, Zenon DEF Rules
    <3>2. Timers = <<1000 * timers[1], 1000 * timers[IF Len(timers) > 2 THEN 3 ELSE 1]>>
      BY Zenon DEF Timers
    <3> HIDE DEF timers
    <3>3. Len(timers) \in Nat /\ Len(timers) > 0
      BY <3>1
    <3>4. timers[1] \in Int /\ timers[IF Len(timers) > 2 THEN 3 ELSE 1] \in Int
      BY <3>1, <3>3
    <3>5. 1000 * timers[1] \in Int /\ 1000 * timers[IF Len(timers) > 2 THEN 3 ELSE 1] \in Int
      BY <3>4
    <3> QED
      BY <3>2, <3>5
  <2>3. PICK s \in Seq(Int) : m_timers' = [m_timers EXCEPT ![m] = s]
    <3>1. CASE HasTimers
      BY <1>3, <2>2, <3>1, Zenon DEF getTimers
    <3>2. CASE ~HasTimers
      <4>1. <<-1, -1>> \in Seq(Int)
        OBVIOUS
      <4> QED
        BY <1>3, <3>2, <4>1, Zenon DEF getTimers
    <3> QED
      BY <3>1, <3>2, Zenon
  <2>4. lastReader' \in Managers \cup {NoManager}
    BY <1>3, Zenon DEF getTimers, ReadTypes
  <2> QED
    BY <1>3, <2>1, <2>3, <2>4, Zenon DEF getTimers, ReadTypes
<1> QED
  BY <1>1, <1>2, <1>3, Zenon DEF Reader

\* A pair with another value for a provider.
LEMMA PairTypes ==
    /\ \A s \in Pairs, p \in Providers : \A v \in Values(p) : [s EXCEPT ![p] = v] \in Pairs
    /\ \A s \in Pairs : s["network"] \in NetworkCosts \cup {AnyState} /\ s["device"] \in PowerSources \cup {AnyState}
    /\ NoState \in Pairs
<1>1. ASSUME NEW s \in Pairs, NEW p \in Providers, NEW v \in Values(p) PROVE [s EXCEPT ![p] = v] \in Pairs
  <2>1. v \in NetworkCosts \cup PowerSources /\ v \in States(p)
    BY Zenon DEF Values, States
  <2> QED
    BY <2>1, Zenon DEF Pairs
<1>2. "network" \in Providers /\ "device" \in Providers
  BY Zenon DEF Providers
<1>3. \A s \in Pairs : s["network"] \in NetworkCosts \cup {AnyState} /\ s["device"] \in PowerSources \cup {AnyState}
  BY <1>2, Zenon DEF Pairs, States, Values
<1>4. NoState \in Pairs
  BY Zenon DEF NoState, Pairs, States
<1> QED
  BY <1>1, <1>3, <1>4, Zenon

\* A handler's or a provider's step on the fields.
LEMMA Step_Types ==
    ASSUME SelectionTypes, CallTypes, StateTypes, CInv,
           \/ \E m \in Managers, p \in Providers : Start_Read(m, p) \/ Start_Register(m, p) \/ Stop(m, p)
           \/ \E p \in Providers : Report(p) \/ Copy(p) \/ OnChanged(p) \/ Skip(p)
           \/ \E t \in Threads : UpdateDeviceCondition_Read(t) \/ UpdateDeviceCondition(t)
    PROVE  SelectionTypes' /\ CallTypes' /\ StateTypes' /\ UNCHANGED readVars
<1> USE ThreadFacts
<1>0. pc \in [Threads -> Places] /\ local_callbacks \in Callbacks
  BY Zenon DEF CInv, CallbackTypes
<1>1. ASSUME UNCHANGED profileVars PROVE SelectionTypes'
  BY <1>1, Zenon DEF profileVars, SelectionTypes, ProfileTypes
<1>2. ASSUME UNCHANGED call, FromOutside \/ UNCHANGED calls PROVE CallTypes'
  BY <1>2, ListTypes DEF CallTypes, FromOutside
<1>3. ASSUME NEW m \in Managers, NEW where, Goto(m, where), UNCHANGED local_callbacks
      PROVE  \A p \in Providers : pc'[p] \in {"args", "update"} => Handler(p)' \in Managers
  BY <1>0, <1>3, Zenon DEF Goto, StateTypes, Handler
<1>4. ASSUME NEW p \in Providers, NEW where, where \notin {"args", "update"}, Goto(p, where),
             \A q \in Providers : q # p => local_callbacks'[q] = local_callbacks[q]
      PROVE  \A q \in Providers : pc'[q] \in {"args", "update"} => Handler(q)' \in Managers
  BY <1>0, <1>4, Zenon DEF Goto, StateTypes, Handler
<1>5. ASSUME NEW m \in Managers, NEW p \in Providers, Start_Read(m, p)
      PROVE  SelectionTypes' /\ CallTypes' /\ StateTypes' /\ UNCHANGED readVars
  <2>1. SelectionTypes' /\ CallTypes' /\ UNCHANGED readVars
    BY <1>1, <1>2, <1>5, Zenon DEF Start_Read
  <2>2. state' \in [Managers -> Pairs]
    <3>1. state' = [state EXCEPT ![m] = [state[m] EXCEPT ![p] = value[p]]]
      BY <1>5, Zenon DEF Start_Read
    <3> QED
      BY <3>1, PairTypes, Zenon DEF StateTypes
  <2>3. \A q \in Providers : pc'[q] \in {"args", "update"} => Handler(q)' \in Managers
    BY <1>3, <1>5, Zenon DEF Start_Read, providerVars
  <2> QED
    BY <1>5, <2>1, <2>2, <2>3, Zenon DEF Start_Read, providerVars, StateTypes
<1>6. ASSUME NEW m \in Managers, NEW p \in Providers, Start_Register(m, p)
      PROVE  SelectionTypes' /\ CallTypes' /\ StateTypes' /\ UNCHANGED readVars
  <2>1. SelectionTypes' /\ CallTypes' /\ UNCHANGED readVars
    BY <1>1, <1>2, <1>6, Zenon DEF Start_Register, callVars
  <2>2. \A q \in Providers : pc'[q] \in {"args", "update"} => Handler(q)' \in Managers
    BY <1>3, <1>6, Zenon DEF Start_Register
  <2> QED
    BY <1>6, <2>1, <2>2, Zenon DEF Start_Register, StateTypes
<1>7. ASSUME NEW m \in Managers, NEW p \in Providers, Stop(m, p)
      PROVE  SelectionTypes' /\ CallTypes' /\ StateTypes' /\ UNCHANGED readVars
  <2>1. SelectionTypes' /\ CallTypes' /\ UNCHANGED readVars
    BY <1>1, <1>2, <1>7, Zenon DEF Stop
  <2>2. \A q \in Providers : pc'[q] \in {"args", "update"} => Handler(q)' \in Managers
    BY <1>3, <1>7, Zenon DEF Stop
  <2> QED
    BY <1>7, <2>1, <2>2, Zenon DEF Stop, handlerVars, StateTypes
<1>8. ASSUME NEW p \in Providers, Report(p)
      PROVE  SelectionTypes' /\ CallTypes' /\ StateTypes' /\ UNCHANGED readVars
  <2>1. SelectionTypes' /\ CallTypes' /\ UNCHANGED readVars
    BY <1>1, <1>2, <1>8, Zenon DEF Report
  <2>2. value' \in Pairs /\ \A q \in Providers : value'[q] \in Values(q)
    <3>1. PICK v \in Values(p) : value' = [value EXCEPT ![p] = v]
      BY <1>8, Zenon DEF Report
    <3>2. value' \in Pairs
      BY <3>1, PairTypes, Zenon DEF StateTypes
    <3>3. DOMAIN value = Providers
      BY Zenon DEF StateTypes, Pairs
    <3>4. \A q \in Providers : value'[q] = IF q = p THEN v ELSE value[q]
      BY <3>1, <3>3, Zenon
    <3> QED
      BY <3>2, <3>4, Zenon DEF StateTypes
  <2>3. \A q \in Providers : pc'[q] \in {"args", "update"} => Handler(q)' \in Managers
    BY <1>4, <1>8, Zenon DEF Report
  <2> QED
    BY <1>8, <2>1, <2>2, <2>3, Zenon DEF Report, handlerVars, StateTypes
<1>9. ASSUME NEW p \in Providers, Copy(p)
      PROVE  SelectionTypes' /\ CallTypes' /\ StateTypes' /\ UNCHANGED readVars
  <2>1. SelectionTypes' /\ CallTypes' /\ UNCHANGED readVars
    BY <1>1, <1>2, <1>9, Zenon DEF Copy, callVars
  <2>2. \A q \in Providers : pc'[q] \in {"args", "update"} => Handler(q)' \in Managers
    BY <1>0, <1>4, <1>9, Zenon DEF Copy, Callbacks
  <2> QED
    BY <1>9, <2>1, <2>2, Zenon DEF Copy, handlerVars, StateTypes
<1>10. ASSUME NEW p \in Providers, OnChanged(p)
       PROVE  SelectionTypes' /\ CallTypes' /\ StateTypes' /\ UNCHANGED readVars
  <2>1. SelectionTypes' /\ CallTypes' /\ UNCHANGED readVars
    BY <1>1, <1>2, <1>10, Zenon DEF OnChanged, callVars
  <2>2. Handler(p) \in Managers
    <3>1. local_callbacks[p] \in Seq(Managers \cup {NULL}) /\ local_callbacks[p] # <<>> /\ Handler(p) # NULL
      BY <1>0, <1>10, Zenon DEF OnChanged, Callbacks
    <3>2. Head(local_callbacks[p]) \in Managers \cup {NULL}
      BY <3>1, HeadType, Zenon
    <3> QED
      BY <3>1, <3>2, Zenon DEF Handler
  <2>3. state' \in [Managers -> Pairs]
    <3>1. state' = [state EXCEPT ![Handler(p)] = [state[Handler(p)] EXCEPT ![p] = value[p]]]
      BY <1>10, Zenon DEF OnChanged
    <3> QED
      BY <2>2, <3>1, PairTypes, Zenon DEF StateTypes
  <2>4. \A q \in Providers : pc'[q] \in {"args", "update"} => Handler(q)' \in Managers
    BY <1>0, <1>10, <2>2, Zenon DEF OnChanged, Goto, providerVars, StateTypes, Handler
  <2> QED
    BY <1>10, <2>1, <2>3, <2>4, Zenon DEF OnChanged, providerVars, StateTypes
<1>11. ASSUME NEW p \in Providers, Skip(p)
       PROVE  SelectionTypes' /\ CallTypes' /\ StateTypes' /\ UNCHANGED readVars
  <2>1. SelectionTypes' /\ CallTypes' /\ UNCHANGED readVars
    BY <1>1, <1>2, <1>11, Zenon DEF Skip, callVars
  <2>2. \A q \in Providers : pc'[q] \in {"args", "update"} => Handler(q)' \in Managers
    BY <1>0, <1>4, <1>11, Zenon DEF Skip, Callbacks
  <2> QED
    BY <1>11, <2>1, <2>2, Zenon DEF Skip, handlerVars, StateTypes
<1>12. ASSUME NEW t \in Threads, UpdateDeviceCondition_Read(t)
       PROVE  SelectionTypes' /\ CallTypes' /\ StateTypes' /\ UNCHANGED readVars
  <2>1. SelectionTypes' /\ CallTypes' /\ UNCHANGED readVars
    BY <1>1, <1>2, <1>12, Zenon DEF UpdateDeviceCondition_Read, callVars
  <2>2. Handler(t) \in Managers
    BY <1>12, Zenon DEF UpdateDeviceCondition_Read, StateTypes, Threads, Handler
  <2>3. args' \in [Threads -> Pairs]
    BY <1>12, <2>2, Zenon DEF UpdateDeviceCondition_Read, StateTypes
  <2>4. \A q \in Providers : pc'[q] \in {"args", "update"} => Handler(q)' \in Managers
    BY <1>0, <1>12, <2>2, Zenon DEF UpdateDeviceCondition_Read, Goto, providerVars, StateTypes, Handler
  <2> QED
    BY <1>12, <2>1, <2>3, <2>4, Zenon DEF UpdateDeviceCondition_Read, providerVars, handlerVars, StateTypes
<1>13. ASSUME NEW t \in Threads, UpdateDeviceCondition(t)
       PROVE  SelectionTypes' /\ CallTypes' /\ StateTypes' /\ UNCHANGED readVars
  <2>1. SelectionTypes'
    <3>1. Select(profiles, currProfileName, currRule, args[t]["network"], args[t]["device"])
      BY <1>13, Zenon DEF UpdateDeviceCondition, updateStates
    <3>2. args[t] \in Pairs
      BY Zenon DEF StateTypes
    <3> QED
      BY <3>1, <3>2, PairTypes, Select_Types, Zenon DEF SelectionTypes
  <2>2. CallTypes' /\ UNCHANGED readVars
    BY <1>2, <1>13, Zenon DEF UpdateDeviceCondition, callVars
  <2>3. args' \in [Threads -> Pairs]
    BY <1>13, PairTypes, Zenon DEF UpdateDeviceCondition, StateTypes
  <2>4. \A q \in Providers : pc'[q] \in {"args", "update"} => Handler(q)' \in Managers
    <3>1. CASE t \in Providers
      BY <1>0, <1>4, <1>13, <3>1, Zenon DEF UpdateDeviceCondition, Callbacks
    <3>2. CASE t \in Managers
      BY <1>3, <1>13, <3>2, Zenon DEF UpdateDeviceCondition
    <3> QED
      BY <3>1, <3>2, Zenon DEF Threads
  <2> QED
    BY <1>13, <2>1, <2>2, <2>3, <2>4, Zenon DEF UpdateDeviceCondition, handlerVars, StateTypes
<1> QED
  BY <1>5, <1>6, <1>7, <1>8, <1>9, <1>10, <1>11, <1>12, <1>13, Zenon

\* The members of the profiles, the providers and the handlers have their types.
THEOREM TypeCorrect == Spec => []TypeOK
<1> DEFINE Types == SelectionTypes /\ CallTypes /\ ReadTypes /\ StateTypes
<1>1. Init => Types
  <2> SUFFICES ASSUME Init PROVE Types
    BY Zenon
  <2>1. SelectionTypes /\ CallTypes /\ ReadTypes
    BY ListTypes DEF Init, InitProfiles, SelectionTypes, CallTypes, ReadTypes, NoTimers
  <2>2. value \in Pairs /\ \A p \in Providers : value[p] \in Values(p)
    BY Zenon DEF Init, Pairs, States
  <2>3. state \in [Managers -> Pairs]
    BY HandlerAssumption, Zenon DEF Init, Pairs, States, Values, Providers
  <2>4. args \in [Threads -> Pairs]
    BY PairTypes, Zenon DEF Init
  <2>5. \A p \in Providers : pc[p] = "idle"
    BY ThreadFacts, Zenon DEF Init
  <2> QED
    BY <2>1, <2>2, <2>3, <2>4, <2>5, Zenon DEF StateTypes
<1>2. Types /\ CInv /\ [Next]_vars => Types'
  <2> SUFFICES ASSUME Types, CInv, [Next]_vars PROVE Types'
    BY Zenon
  <2>1. ASSUME UNCHANGED readVars PROVE ReadTypes'
    BY <2>1, Zenon DEF readVars, ReadTypes
  <2>2. ASSUME UNCHANGED callVars PROVE CallTypes'
    BY <2>2, Zenon DEF callVars, CallTypes
  <2>3. ASSUME UNCHANGED <<providerVars, handlerVars, args, pc>> PROVE StateTypes'
    BY <2>3, Zenon DEF providerVars, handlerVars, StateTypes, Handler
  <2>4. CASE Application /\ UNCHANGED <<providerVars, handlerVars, args, pc>>
    BY <2>1, <2>3, <2>4, Application_Types, Zenon
  <2>5. CASE (\E m \in Managers : Reader(m)) /\ UNCHANGED <<providerVars, handlerVars, args, pc>>
    BY <2>2, <2>3, <2>5, Reader_Types, Zenon
  <2>6. CASE UNCHANGED vars
    <3>1. SelectionTypes'
      BY <2>6, Zenon DEF vars, profileVars, SelectionTypes, ProfileTypes
    <3> QED
      BY <2>1, <2>2, <2>3, <2>6, <3>1, Zenon DEF vars
  <2> QED
    BY <2>1, <2>4, <2>5, <2>6, Step_Types, Zenon DEF Next
<1>3. Types /\ CInv => TypeOK
  BY Zenon DEF SelectionTypes, ProfileTypes, CallTypes, ReadTypes, StateTypes, CInv, CallbackTypes, TypeOK, ProfilesTypeOK
<1> HIDE DEF Types
<1> QED
  BY <1>1, <1>2, <1>3, Init_CInv, Next_CInv, PTL DEF Spec
=============================================================================
