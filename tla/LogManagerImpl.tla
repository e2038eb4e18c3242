--------------------------- MODULE LogManagerImpl ---------------------------
(* Loggers and the teardown of their log manager: lib/api/LogManagerImpl.cpp *)
(* and lib/api/Logger.cpp.  Threads of the application get loggers, log      *)
(* events and tear the manager down at the same time.  What sendEvent does   *)
(* in the telemetry system is modelled in TransmissionPolicyManager and      *)
(* OfflineStorage.                                                           *)
EXTENDS Naturals, FiniteSets

CONSTANTS
    Threads,            \* the application's threads
    Loggers,            \* one logger per tenant token and source
    NoThread            \* m_lock is free

ASSUME ThreadAssumption == NoThread \notin Threads /\ IsFiniteSet(Threads)

VARIABLES
    m_lock,             \* the thread that holds the manager's recursive mutex
    m_alive,
    m_system,           \* "created", "started" or, after teardown, "none"
    m_loggers,          \* the manager's loggers
    s_deadLoggers,      \* loggers of managers that were torn down
    m_active,           \* of each logger: it accepts calls
    m_active_count,     \* of each logger: calls in progress
    pc,                 \* where each thread is
    arg,                \* the logger its call is about
    known               \* loggers it has a pointer to

managerVars == <<m_alive, m_system, m_loggers, s_deadLoggers>>
loggerVars == <<m_active, m_active_count>>
vars == <<m_lock, managerVars, loggerVars, pc, arg, known>>

Init ==
    /\ m_lock = NoThread
    /\ m_alive = TRUE
    /\ m_system = "created"
    /\ m_loggers = {}
    /\ s_deadLoggers = {}
    /\ m_active = [l \in Loggers |-> TRUE]
    /\ m_active_count = [l \in Loggers |-> 0]
    /\ pc = [t \in Threads |-> "idle"]
    /\ arg \in [Threads -> Loggers]
    /\ known = [t \in Threads |-> {}]

Goto(t, label) == pc' = [pc EXCEPT ![t] = label]

LockFree == m_lock = NoThread

-----------------------------------------------------------------------------
(* GetLogger *)

GetLogger(t, l) ==
    /\ pc[t] = "idle"
    /\ LockFree
    /\ arg' = [arg EXCEPT ![t] = l]
    /\ Goto(t, IF m_alive THEN "gl_find" ELSE "idle")
    /\ UNCHANGED <<m_lock, managerVars, loggerVars, known>>

\* The lock was released in between: the manager may have been torn down.
GetLogger_Find(t) ==
    /\ pc[t] = "gl_find"
    /\ LockFree
    /\ IF m_alive
       THEN /\ m_loggers' = m_loggers \cup {arg[t]}
            /\ known' = [known EXCEPT ![t] = @ \cup {arg[t]}]
       ELSE UNCHANGED <<m_loggers, known>>
    /\ Goto(t, "idle")
    /\ UNCHANGED <<m_lock, m_alive, m_system, s_deadLoggers, loggerVars, arg>>

-----------------------------------------------------------------------------
(* Logger::LogEvent.  Each of its steps is an ActiveLoggerCall of its own. *)

\* ~ActiveLoggerCall
EndCall(l) == m_active_count' = [m_active_count EXCEPT ![l] = IF @ > 0 THEN @ - 1 ELSE @]

\* Mutant: the count goes up for a dead logger, too.
BeginCall_Always(t, l, label, dead) ==
    /\ m_active_count' = [m_active_count EXCEPT ![l] = @ + 1]
    /\ Goto(t, IF m_active[l] THEN label ELSE dead)

\* ActiveLoggerCall: goes on at label, or returns to dead if the logger is dead.
BeginCall(t, l, label, dead) ==
    IF m_active[l]
    THEN /\ m_active_count' = [m_active_count EXCEPT ![l] = @ + 1]
         /\ Goto(t, label)
    ELSE Goto(t, dead) /\ UNCHANGED m_active_count

LogEvent(t, l) ==
    /\ pc[t] = "idle"
    /\ l \in known[t]
    /\ arg' = [arg EXCEPT ![t] = l]
    /\ BeginCall(t, l, "le_filter", "idle")
    /\ UNCHANGED <<m_lock, managerVars, m_active, known>>

\* CanEventPropertiesBeSent (a call that begins and ends in this step) and the filters.
LogEvent_Filter(t) ==
    /\ pc[t] = "le_filter"
    /\ \/ Goto(t, "le_end")
       \/ m_active[arg[t]] /\ Goto(t, "le_decorate")
    /\ UNCHANGED <<m_lock, managerVars, loggerVars, arg, known>>

\* applyCommonDecorators (likewise) and the decorators, which may refuse the event.
LogEvent_Decorate(t) ==
    /\ pc[t] = "le_decorate"
    /\ \/ Goto(t, "le_end")
       \/ m_active[arg[t]] /\ Goto(t, "le_submit")
    /\ UNCHANGED <<m_lock, managerVars, loggerVars, arg, known>>

\* submit drops an event of a level or latency that is switched off (a call that begins and
\* ends in this step), or goes on to send it.
Submit(t) ==
    /\ pc[t] = "le_submit"
    /\ \/ BeginCall(t, arg[t], "submit", "le_end")
       \/ Goto(t, "le_end") /\ UNCHANGED m_active_count
    /\ UNCHANGED <<m_lock, managerVars, m_active, arg, known>>

\* sendEvent takes the manager's lock ...
SendEvent_Lock(t) ==
    /\ pc[t] = "submit"
    /\ LockFree
    /\ m_lock' = t
    /\ Goto(t, "send")
    /\ UNCHANGED <<managerVars, loggerVars, arg, known>>

\* GetSystem starts the telemetry system at its first use.
GetSystem == m_system' = IF m_system = "created" THEN "started" ELSE m_system

\* ... passes the event to the system, and returns through submit.
SendEvent(t) ==
    /\ pc[t] = "send"
    /\ GetSystem
    /\ m_lock' = NoThread
    /\ EndCall(arg[t])
    /\ Goto(t, "le_end")
    /\ UNCHANGED <<m_alive, m_loggers, s_deadLoggers, m_active, arg, known>>

\* The manager's debug listeners are told, and LogEvent returns.
LogEvent_End(t) ==
    /\ pc[t] = "le_end"
    /\ EndCall(arg[t])
    /\ Goto(t, "idle")
    /\ UNCHANGED <<m_lock, managerVars, m_active, arg, known>>

-----------------------------------------------------------------------------
(* The manager's own calls: UploadNow, PauseTransmission, ResumeTransmission *)

ManagerCall(t) ==
    /\ pc[t] = "idle"
    /\ LockFree
    /\ GetSystem
    /\ UNCHANGED <<m_lock, m_alive, m_loggers, s_deadLoggers, loggerVars, pc, arg, known>>

-----------------------------------------------------------------------------
(* FlushAndTeardown *)

FlushAndTeardown(t) ==
    /\ pc[t] = "idle"
    /\ LockFree
    /\ IF m_alive
       THEN m_lock' = t /\ Goto(t, "td_loggers")
       ELSE UNCHANGED <<m_lock, pc>>
    /\ UNCHANGED <<managerVars, loggerVars, arg, known>>

\* Logger::RecordShutdown, for one logger after the other ...
RecordShutdown(t, l) ==
    /\ pc[t] = "td_loggers"
    /\ l \in m_loggers
    /\ m_active[l]
    /\ m_active' = [m_active EXCEPT ![l] = FALSE]
    /\ arg' = [arg EXCEPT ![t] = l]
    /\ Goto(t, "td_wait")
    /\ UNCHANGED <<m_lock, managerVars, m_active_count, known>>

\* Mutant: the teardown goes on at once.
RecordShutdown_Wait_Not(t) ==
    /\ pc[t] = "td_wait"
    /\ Goto(t, "td_loggers")
    /\ UNCHANGED <<m_lock, managerVars, loggerVars, arg, known>>

\* ... waits until no call is in progress, with the manager's lock.
RecordShutdown_Wait(t) ==
    /\ pc[t] = "td_wait"
    /\ m_active_count[arg[t]] = 0
    /\ Goto(t, "td_loggers")
    /\ UNCHANGED <<m_lock, managerVars, loggerVars, arg, known>>

\* Mutant: the loggers are destroyed with their manager.
AddMap_Destroyed == m_loggers' = {} /\ UNCHANGED s_deadLoggers

\* DeadLoggers::AddMap
AddMap ==
    /\ s_deadLoggers' = s_deadLoggers \cup m_loggers
    /\ m_loggers' = {}

\* All loggers are idle: they go to the graveyard, and the system, if it was started, is
\* stopped and destroyed ...
StopSystem(t) ==
    /\ pc[t] = "td_loggers"
    /\ \A l \in m_loggers : ~m_active[l]
    /\ AddMap
    /\ m_system' = "none"
    /\ Goto(t, "td_end")
    /\ UNCHANGED <<m_lock, m_alive, loggerVars, arg, known>>

\* ... with the storage, the HTTP client and the dispatcher.
Teardown_End(t) ==
    /\ pc[t] = "td_end"
    /\ m_alive' = FALSE
    /\ m_lock' = NoThread
    /\ Goto(t, "idle")
    /\ UNCHANGED <<m_system, m_loggers, s_deadLoggers, loggerVars, arg, known>>

-----------------------------------------------------------------------------
\* A thread calls into the SDK ...
Call(t) ==
    \/ \E l \in Loggers : GetLogger(t, l) \/ LogEvent(t, l)
    \/ ManagerCall(t)
    \/ FlushAndTeardown(t)

\* ... and takes a step of its call.
Step(t) ==
    \/ GetLogger_Find(t)
    \/ LogEvent_Filter(t) \/ LogEvent_Decorate(t)
    \/ Submit(t) \/ SendEvent_Lock(t) \/ SendEvent(t)
    \/ LogEvent_End(t)
    \/ \E l \in Loggers : RecordShutdown(t, l)
    \/ RecordShutdown_Wait(t)
    \/ StopSystem(t)
    \/ Teardown_End(t)

Next == \E t \in Threads : Call(t) \/ Step(t)

Spec == Init /\ [][Next]_vars

\* Every thread goes on with its call; a lock that is released again and again is granted.
FairSpec == Spec /\ \A t \in Threads : SF_vars(Step(t))

-----------------------------------------------------------------------------
(* Properties *)

\* Labels inside an active LogEvent, and inside its submit.
InLogEvent == {"le_filter", "le_decorate", "le_submit", "submit", "send", "le_end"}
InSubmit == {"submit", "send"}
Callers(l) == {t \in Threads : pc[t] \in InLogEvent /\ arg[t] = l}
Submitters(l) == {t \in Threads : pc[t] \in InSubmit /\ arg[t] = l}
Labels == {"idle", "gl_find", "td_loggers", "td_wait", "td_end"} \cup InLogEvent

\* Every variable has the type of the member it stands for; a thread has at most two calls.
TypeOK ==
    /\ m_lock \in Threads \cup {NoThread}
    /\ m_alive \in BOOLEAN
    /\ m_system \in {"created", "started", "none"}
    /\ m_loggers \subseteq Loggers
    /\ s_deadLoggers \subseteq Loggers
    /\ m_active \in [Loggers -> BOOLEAN]
    /\ m_active_count \in [Loggers -> 0..(2 * Cardinality(Threads))]
    /\ pc \in [Threads -> Labels]
    /\ arg \in [Threads -> Loggers]
    /\ known \in [Threads -> SUBSET Loggers]

\* A logger counts exactly the ActiveLoggerCalls in progress: two for a thread in submit, one
\* for a thread elsewhere in LogEvent, none for a call that found the logger dead.
ActiveCountIsExact ==
    \A l \in Loggers :
        m_active_count[l] = Cardinality(Callers(l)) + Cardinality(Submitters(l))

\* A call on a logger uses the log manager, its filters, system and debug listeners, only
\* while the manager is alive: RecordShutdown waits for the calls that began before, and
\* later ones find the logger dead.
CallsSeeLiveManager ==
    \A t \in Threads : pc[t] \in InLogEvent => m_alive /\ m_system # "none"

\* A logger that GetLogger has returned is never destroyed: the application may use its
\* pointer at any time after the teardown.
KnownLoggersExist ==
    \A t \in Threads : known[t] \subseteq m_loggers \cup s_deadLoggers

\* FlushAndTeardown returns: the calls it waits for complete.
TeardownCompletes ==
    \A t \in Threads : pc[t] = "td_loggers" ~> pc[t] = "idle"
=============================================================================
