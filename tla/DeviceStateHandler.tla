------------------------- MODULE DeviceStateHandler -------------------------
(* The policy managers' device state handlers (lib/tpm/DeviceStateHandler   *)
(* .cpp), which the platform's network and device information tell of a     *)
(* change (lib/pal/InformationProviderImpl.cpp, on threads of the platform) *)
(* and which pass the state on to TransmitProfiles, as built for other      *)
(* platforms than Windows. A handler's fields have no lock: each access to  *)
(* them is a step of its own.                                               *)
EXTENDS TransmitProfiles

CONSTANTS
    NULL,                   \* no callback
    NetworkCost_Unmetered,
    PowerSource_Charging

\* The network information, which tells of the cost, and the device information, of the power.
Providers == {"network", "device"}
Values(p) == IF p = "network" THEN NetworkCosts ELSE PowerSources

ASSUME HandlerAssumption ==
    /\ NULL \notin Managers /\ Managers \cap Providers = {}
    /\ NetworkCost_Unmetered \in NetworkCosts /\ PowerSource_Charging \in PowerSources

VARIABLES
    value,                  \* m_cost and m_powerSource of the providers
    m_callbacks,            \* of each provider
    state,                  \* m_networkCost and m_powerSource of each handler
    token,                  \* m_networkInformationToken and m_deviceInformationToken
    local_callbacks,        \* what is left to be called by a provider's OnChanged
    args,                   \* what a thread passes to updateStates
    pc,                     \* of each handler's own thread and of each provider's
    stopped                 \* history: the handlers that had been stopped when a report began

providerVars == <<value, m_callbacks, local_callbacks, stopped>>
handlerVars == <<state, token>>
vars == <<profileVars, callVars, readVars, providerVars, handlerVars, args, pc>>

Threads == Managers \cup Providers
NoState == [p \in Providers |-> AnyState]

Init ==
    /\ InitProfiles
    /\ value \in [Providers -> NetworkCosts \cup PowerSources]
    /\ \A p \in Providers : value[p] \in Values(p)
    /\ m_callbacks = [p \in Providers |-> <<>>]
    /\ state = [m \in Managers |->
                  [p \in Providers |-> IF p = "network" THEN NetworkCost_Unmetered ELSE PowerSource_Charging]]
    /\ token = [m \in Managers |-> [p \in Providers |-> 0]]
    /\ local_callbacks = [p \in Providers |-> <<>>]
    /\ args = [t \in Threads |-> NoState]
    /\ pc = [t \in Threads |-> IF t \in Managers THEN "new" ELSE "idle"]
    /\ stopped = [p \in Providers |-> {}]

Goto(t, where) == pc' = [pc EXCEPT ![t] = where]

-----------------------------------------------------------------------------
(* InformatonProviderImpl *)

\* RegisterInformationChangedCallback
Register(p, m) ==
    /\ m_callbacks' = [m_callbacks EXCEPT ![p] = Append(@, m)]
    /\ token' = [token EXCEPT ![m][p] = Len(m_callbacks[p]) + 1]

\* Mutant: the token is taken for the index.
UnRegister_Token(p, callbackToken) ==
    LET index == callbackToken
    IN  m_callbacks' = IF index > 0 /\ index < Len(m_callbacks[p])
                       THEN [m_callbacks EXCEPT ![p][index + 1] = NULL]
                       ELSE m_callbacks

\* UnRegisterInformationChangedCallback, which leaves the first one alone.
UnRegister(p, callbackToken) ==
    LET index == callbackToken - 1
    IN  m_callbacks' = IF index > 0 /\ index < Len(m_callbacks[p])
                       THEN [m_callbacks EXCEPT ![p][index + 1] = NULL]
                       ELSE m_callbacks

-----------------------------------------------------------------------------
(* Start and Stop *)

\* The state of the provider is read ...
Start_Read(m, p) ==
    /\ pc[m] = IF p = "network" THEN "new" ELSE "read_device"
    /\ IF p = "network" THEN FromOutside ELSE UNCHANGED calls
    /\ state' = [state EXCEPT ![m][p] = value[p]]
    /\ Goto(m, IF p = "network" THEN "register_network" ELSE "register_device")
    /\ UNCHANGED <<profileVars, call, readVars, providerVars, token, args>>

\* ... before the handler is registered.
Start_Register(m, p) ==
    /\ pc[m] = IF p = "network" THEN "register_network" ELSE "register_device"
    /\ Register(p, m)
    /\ Goto(m, IF p = "network" THEN "read_device" ELSE "args")
    /\ UNCHANGED <<profileVars, callVars, readVars, value, local_callbacks, stopped, state, args>>

Stop(m, p) ==
    /\ pc[m] = IF p = "network" THEN "started" ELSE "stop_device"
    /\ IF p = "network" THEN FromOutside ELSE UNCHANGED calls
    /\ p = "network" => reading[m] = "idle"
    /\ UnRegister(p, token[m][p])
    /\ Goto(m, IF p = "network" THEN "stop_device" ELSE "stopped")
    /\ UNCHANGED <<profileVars, call, readVars, value, local_callbacks, stopped, handlerVars, args>>

-----------------------------------------------------------------------------
(* Changes *)

\* The platform tells the provider, for instance UpdateCost.
Report(p) ==
    /\ pc[p] = "idle"
    /\ FromOutside
    /\ \E v \in Values(p) : value' = [value EXCEPT ![p] = v]
    /\ stopped' = [stopped EXCEPT ![p] = {m \in Managers : pc[m] = "stopped"}]
    /\ Goto(p, "copy")
    /\ UNCHANGED <<profileVars, call, readVars, m_callbacks, local_callbacks, handlerVars, args>>

\* InformatonProviderImpl::OnChanged
Copy(p) ==
    /\ pc[p] = "copy"
    /\ local_callbacks' = [local_callbacks EXCEPT ![p] = m_callbacks[p]]
    /\ Goto(p, "call")
    /\ UNCHANGED <<profileVars, callVars, readVars, value, m_callbacks, stopped, handlerVars, args>>

Handler(t) == IF t \in Providers THEN Head(local_callbacks[t]) ELSE t

OnChanged(p) ==
    /\ pc[p] = "call"
    /\ local_callbacks[p] # <<>>
    /\ Handler(p) # NULL
    /\ state' = [state EXCEPT ![Handler(p)][p] = value[p]]
    /\ Goto(p, "args")
    /\ UNCHANGED <<profileVars, callVars, readVars, providerVars, token, args>>

\* The callback is no more, or there is none left.
Skip(p) ==
    /\ pc[p] = "call"
    /\ \/ /\ local_callbacks[p] = <<>>
          /\ Goto(p, "idle")
          /\ stopped' = [stopped EXCEPT ![p] = {}]
          /\ UNCHANGED local_callbacks
       \/ /\ local_callbacks[p] # <<>>
          /\ Handler(p) = NULL
          /\ Goto(p, "call")
          /\ local_callbacks' = [local_callbacks EXCEPT ![p] = Tail(@)]
          /\ UNCHANGED stopped
    /\ UNCHANGED <<profileVars, callVars, readVars, value, m_callbacks, handlerVars, args>>

\* _UpdateDeviceCondition reads the fields, and passes them to updateStates.
UpdateDeviceCondition_Read(t) ==
    /\ pc[t] = "args"
    /\ args' = [args EXCEPT ![t] = state[Handler(t)]]
    /\ Goto(t, "update")
    /\ UNCHANGED <<profileVars, callVars, readVars, providerVars, handlerVars>>

UpdateDeviceCondition(t) ==
    /\ pc[t] = "update"
    /\ updateStates(args[t]["network"], args[t]["device"])
    /\ IF t \in Providers
       THEN Goto(t, "call") /\ local_callbacks' = [local_callbacks EXCEPT ![t] = Tail(@)]
       ELSE Goto(t, "started") /\ UNCHANGED local_callbacks
    /\ args' = [args EXCEPT ![t] = NoState]
    /\ UNCHANGED <<callVars, readVars, value, m_callbacks, stopped, handlerVars>>

-----------------------------------------------------------------------------

\* A policy manager works from its handler's Start to its Stop.
Reader(m) ==
    /\ pc[m] = "started"
    /\ isTimerUpdateRequired(m) \/ Ensure(m) \/ getTimers(m)

Next ==
    \/ \E m \in Managers, p \in Providers : Start_Read(m, p) \/ Start_Register(m, p) \/ Stop(m, p)
    \/ \E p \in Providers : Report(p) \/ Copy(p) \/ OnChanged(p) \/ Skip(p)
    \/ \E t \in Threads : UpdateDeviceCondition_Read(t) \/ UpdateDeviceCondition(t)
    \/ /\ Application \/ \E m \in Managers : Reader(m)
       /\ UNCHANGED <<providerVars, handlerVars, args, pc>>

Spec == Init /\ [][Next]_vars

-----------------------------------------------------------------------------
(* Properties *)

States(p) == Values(p) \cup {AnyState}
Pairs == {s \in [Providers -> NetworkCosts \cup PowerSources \cup {AnyState}] :
             \A p \in Providers : s[p] \in States(p)}
Callbacks == [Providers -> Seq(Managers \cup {NULL})]
Places == {"new", "register_network", "read_device", "register_device", "args", "update", "started",
           "stop_device", "stopped", "idle", "copy", "call"}

\* The variables hold values of their types.
TypeOK ==
    /\ ProfilesTypeOK
    /\ value \in Pairs
    /\ m_callbacks \in Callbacks /\ local_callbacks \in Callbacks
    /\ state \in [Managers -> Pairs] /\ args \in [Threads -> Pairs]
    /\ token \in [Managers -> [Providers -> Nat]]
    /\ pc \in [Threads -> Places]
    /\ stopped \in [Providers -> SUBSET Managers]

\* The stop of a handler ends the callbacks of this handler and of no other: one that runs is
\* registered with both providers, and one that had been stopped when a change was reported is not
\* called for it, unless it was the first one to register, which UnRegister does not remove.
StopEndsItsCallbacks ==
    /\ \A m \in Managers, p \in Providers :
          pc[m] = "started" => m_callbacks[p][token[m][p]] = m
    /\ \A p \in Providers :
          pc[p] \in {"args", "update"} /\ Handler(p) \in stopped[p] => token[Handler(p)][p] = 1

\* When no thread is under way and a handler runs, the rules are selected for the state of the
\* device. (The code does not ensure it: a handler is registered after the state has been read, and
\* threads that read the fields one after the other call updateStates in any order.)
DeviceStateIsCurrent ==
    (\A t \in Threads : pc[t] \in {"new", "idle", "started"})
    /\ (\E m \in Managers : pc[m] = "started")
    => currNetCost = value["network"] /\ currPowState = value["device"]
=============================================================================
