----------------------- MODULE LogManagerImpl_proofs -----------------------
(* A logger counts its calls exactly, and no call on a logger outlives the   *)
(* log manager, for any number of threads and loggers.                       *)
EXTENDS LogManagerImpl, FiniteSetTheorems, TLAPS

\* The types, without the bound on the counts.
Typed ==
    /\ m_lock \in Threads \cup {NoThread}
    /\ m_alive \in BOOLEAN
    /\ m_system \in {"created", "started", "none"}
    /\ m_loggers \subseteq Loggers
    /\ s_deadLoggers \subseteq Loggers
    /\ m_active \in [Loggers -> BOOLEAN]
    /\ m_active_count \in [Loggers -> Nat]
    /\ pc \in [Threads -> Labels]
    /\ arg \in [Threads -> Loggers]
    /\ known \in [Threads -> SUBSET Loggers]

\* The lock is held by a thread that sends an event or tears the manager down.
LockInv ==
    \A t \in Threads : m_lock = t <=> pc[t] \in {"send", "td_loggers", "td_wait", "td_end"}

\* A thread calls loggers it has a pointer to.
CallsKnown ==
    \A t \in Threads : pc[t] \in InLogEvent => arg[t] \in known[t]

\* How far the teardown has come.
LifeInv ==
    /\ m_system = "none" => m_loggers = {}
    /\ ~m_alive => m_system = "none"
    /\ s_deadLoggers # {} => m_system = "none"
    /\ m_alive /\ m_system = "none" => \E t \in Threads : pc[t] = "td_end"
    /\ \A t \in Threads : pc[t] = "td_end" => m_system = "none"
    /\ \A t \in Threads : pc[t] \in {"td_loggers", "td_wait"} => m_system # "none"

\* A logger that was shut down has no caller, or the teardown waits for it.
DeadInv ==
    /\ \A l \in s_deadLoggers : ~m_active[l]
    /\ \A l \in Loggers :
          \/ m_active[l]
          \/ \A t \in Threads : pc[t] \in InLogEvent => arg[t] # l
          \/ \E t \in Threads : pc[t] = "td_wait" /\ arg[t] = l

Inv ==
    /\ Typed
    /\ ActiveCountIsExact
    /\ LockInv
    /\ KnownLoggersExist
    /\ CallsKnown
    /\ LifeInv
    /\ DeadInv

-----------------------------------------------------------------------------
(* Counting *)

\* The sets of callers are finite.
LEMMA CallersFinite ==
    ASSUME NEW l
    PROVE  /\ IsFiniteSet(Callers(l)) /\ Cardinality(Callers(l)) \in Nat
           /\ IsFiniteSet(Submitters(l)) /\ Cardinality(Submitters(l)) \in Nat
           /\ Cardinality(Callers(l)) <= Cardinality(Threads)
           /\ Cardinality(Submitters(l)) <= Cardinality(Threads)
<1>1. Callers(l) \in SUBSET Threads /\ Submitters(l) \in SUBSET Threads
  BY Zenon DEF Callers, Submitters
<1> QED
  BY <1>1, FS_Subset, FS_CardinalityType, ThreadAssumption, Zenon

\* The threads whose label is in S and whose argument is l, for the functions p and a.
At(S, p, a, l) == {u \in Threads : p[u] \in S /\ a[u] = l}

\* What a thread at label x with argument y adds to the size of that set.
Delta(S, x, y, l) == IF x \in S /\ y = l THEN 1 ELSE 0

\* When thread t moves, it leaves the set it was in, and enters it if its new position
\* belongs there.
LEMMA Move ==
    ASSUME NEW S, NEW p, NEW a, NEW q, NEW b, NEW t \in Threads, NEW l,
           \A u \in Threads \ {t} : q[u] = p[u] /\ b[u] = a[u]
    PROVE  Cardinality(At(S, q, b, l)) = Cardinality(At(S, p, a, l))
              + Delta(S, q[t], b[t], l)
              - Delta(S, p[t], a[t], l)
<1> DEFINE old == At(S, p, a, l)
           new == At(S, q, b, l)
<1>1. t \in old <=> p[t] \in S /\ a[t] = l
  BY Zenon DEF At
<1>2. new = IF q[t] \in S /\ b[t] = l THEN old \cup {t} ELSE old \ {t}
  BY Zenon DEF At
<1>3. IsFiniteSet(old)
  <2>1. old \in SUBSET Threads
    BY Zenon DEF At
  <2> QED
    BY <2>1, FS_Subset, ThreadAssumption, Zenon
<1>4. /\ Cardinality(old) \in Nat
      /\ Cardinality(old \cup {t}) =
            IF t \in old THEN Cardinality(old) ELSE Cardinality(old) + 1
      /\ Cardinality(old \ {t}) =
            IF t \in old THEN Cardinality(old) - 1 ELSE Cardinality(old)
  BY <1>3, FS_CardinalityType, FS_AddElement, FS_RemoveElement, Zenon
<1> HIDE DEF old, new
<1>5. Cardinality(new) = Cardinality(old)
                + Delta(S, q[t], b[t], l)
                - Delta(S, p[t], a[t], l)
  BY <1>1, <1>2, <1>4 DEF Delta
<1> QED
  BY <1>5, Zenon DEF old, new

\* The same for the callers of a logger and for those of them that are in submit.
LEMMA CallersMove ==
    ASSUME NEW k, NEW t \in Threads,
           \A u \in Threads \ {t} : pc'[u] = pc[u] /\ arg'[u] = arg[u]
    PROVE  /\ Cardinality(Callers(k)') = Cardinality(Callers(k))
                + Delta(InLogEvent, pc'[t], arg'[t], k)
                - Delta(InLogEvent, pc[t], arg[t], k)
           /\ Cardinality(Submitters(k)') = Cardinality(Submitters(k))
                + Delta(InSubmit, pc'[t], arg'[t], k)
                - Delta(InSubmit, pc[t], arg[t], k)
<1>1. /\ Callers(k) = At(InLogEvent, pc, arg, k) /\ Callers(k)' = At(InLogEvent, pc', arg', k)
      /\ Submitters(k) = At(InSubmit, pc, arg, k) /\ Submitters(k)' = At(InSubmit, pc', arg', k)
  BY Zenon DEF Callers, Submitters, At
<1>2. /\ Cardinality(At(InLogEvent, pc', arg', k)) = Cardinality(At(InLogEvent, pc, arg, k))
            + Delta(InLogEvent, pc'[t], arg'[t], k)
            - Delta(InLogEvent, pc[t], arg[t], k)
      /\ Cardinality(At(InSubmit, pc', arg', k)) = Cardinality(At(InSubmit, pc, arg, k))
            + Delta(InSubmit, pc'[t], arg'[t], k)
            - Delta(InSubmit, pc[t], arg[t], k)
  BY Move
<1> QED
  BY <1>1, <1>2, Zenon

\* What remains for each action: the count changes with the position of its thread.
LEMMA ExactStep ==
    ASSUME Typed, ActiveCountIsExact, NEW t \in Threads,
           \A u \in Threads \ {t} : pc'[u] = pc[u] /\ arg'[u] = arg[u],
           \A k \in Loggers :
              m_active_count'[k] = m_active_count[k]
                + Delta(InLogEvent, pc'[t], arg'[t], k)
                + Delta(InSubmit, pc'[t], arg'[t], k)
                - Delta(InLogEvent, pc[t], arg[t], k)
                - Delta(InSubmit, pc[t], arg[t], k)
    PROVE  ActiveCountIsExact'
<1> SUFFICES ASSUME NEW k \in Loggers
             PROVE  m_active_count'[k] = Cardinality(Callers(k)') + Cardinality(Submitters(k)')
  BY Zenon DEF ActiveCountIsExact
<1>1. m_active_count[k] = Cardinality(Callers(k)) + Cardinality(Submitters(k))
  BY Zenon DEF ActiveCountIsExact
<1>2. /\ Cardinality(Callers(k)') = Cardinality(Callers(k))
            + Delta(InLogEvent, pc'[t], arg'[t], k)
            - Delta(InLogEvent, pc[t], arg[t], k)
      /\ Cardinality(Submitters(k)') = Cardinality(Submitters(k))
            + Delta(InSubmit, pc'[t], arg'[t], k)
            - Delta(InSubmit, pc[t], arg[t], k)
  BY CallersMove, Zenon
<1>3. Cardinality(Callers(k)) \in Nat /\ Cardinality(Submitters(k)) \in Nat
  BY CallersFinite, Zenon
<1>4. \A S, x, y : Delta(S, x, y, k) \in {0, 1}
  BY Zenon DEF Delta
<1> QED
  BY <1>1, <1>2, <1>3, <1>4

\* A thread inside a call is counted.
LEMMA Counted ==
    ASSUME NEW t \in Threads, Typed, ActiveCountIsExact, pc[t] \in InLogEvent
    PROVE  m_active_count[arg[t]] > 0
<1>1. t \in Callers(arg[t])
  BY Zenon DEF Callers
<1>2. Cardinality(Callers(arg[t])) # 0
  BY <1>1, CallersFinite, FS_EmptySet, Zenon
<1>3. m_active_count[arg[t]] = Cardinality(Callers(arg[t])) + Cardinality(Submitters(arg[t]))
  BY Zenon DEF ActiveCountIsExact, Typed
<1> QED
  BY <1>2, <1>3, CallersFinite

-----------------------------------------------------------------------------
(* One lemma per action: it preserves the invariant. *)

\* The first look at m_alive changes nothing but the thread's position.
LEMMA GetLogger_Inv ==
    ASSUME Inv, NEW t \in Threads, NEW l \in Loggers, GetLogger(t, l)
    PROVE  Inv'
<1>1. Typed'
  BY Zenon DEF Inv, Typed, GetLogger, Goto, managerVars, loggerVars, Labels, InLogEvent
<1>2. \A u \in Threads \ {t} : pc'[u] = pc[u] /\ arg'[u] = arg[u]
  BY Zenon DEF Inv, Typed, GetLogger, Goto
<1>3. ActiveCountIsExact'
  <2>1. Typed /\ ActiveCountIsExact
    BY Zenon DEF Inv
  <2>2. \A k \in Loggers :
          m_active_count'[k] = m_active_count[k]
            + Delta(InLogEvent, pc'[t], arg'[t], k)
            + Delta(InSubmit, pc'[t], arg'[t], k)
            - Delta(InLogEvent, pc[t], arg[t], k)
            - Delta(InSubmit, pc[t], arg[t], k)
    BY DEF Inv, Typed, GetLogger, Goto, loggerVars, InLogEvent, InSubmit, Delta
  <2> QED
    BY <1>2, <2>1, <2>2, ExactStep, Zenon
<1>4. LockInv'
  BY ThreadAssumption, Zenon DEF Inv, Typed, GetLogger, Goto, LockInv, LockFree
<1>5. KnownLoggersExist' /\ CallsKnown'
  BY Zenon DEF Inv, Typed, GetLogger, Goto, managerVars, InLogEvent, KnownLoggersExist, CallsKnown
<1>6. LifeInv'
  BY Zenon DEF Inv, Typed, GetLogger, Goto, managerVars, LifeInv
<1>7. DeadInv'
  BY DEF Inv, Typed, GetLogger, Goto, managerVars, loggerVars, InLogEvent, DeadInv
<1> QED
  BY <1>1, <1>3, <1>4, <1>5, <1>6, <1>7, Zenon DEF Inv

\* A new logger enters the map only while the manager is alive and nobody tears it down.
LEMMA GetLogger_Find_Inv ==
    ASSUME Inv, NEW t \in Threads, GetLogger_Find(t)
    PROVE  Inv'
<1>1. Typed'
  BY DEF Inv, Typed, GetLogger_Find, Goto, managerVars, loggerVars, Labels, InLogEvent
<1>2. \A u \in Threads \ {t} : pc'[u] = pc[u] /\ arg'[u] = arg[u]
  BY Zenon DEF Inv, Typed, GetLogger_Find, Goto
<1>3. ActiveCountIsExact'
  <2>1. Typed /\ ActiveCountIsExact
    BY Zenon DEF Inv
  <2>2. \A k \in Loggers :
          m_active_count'[k] = m_active_count[k]
            + Delta(InLogEvent, pc'[t], arg'[t], k)
            + Delta(InSubmit, pc'[t], arg'[t], k)
            - Delta(InLogEvent, pc[t], arg[t], k)
            - Delta(InSubmit, pc[t], arg[t], k)
    BY DEF Inv, Typed, GetLogger_Find, Goto, loggerVars, InLogEvent, InSubmit, Delta
  <2> QED
    BY <1>2, <2>1, <2>2, ExactStep, Zenon
<1>4. LockInv'
  BY ThreadAssumption, Zenon DEF Inv, Typed, GetLogger_Find, Goto, LockInv, LockFree
<1>5. KnownLoggersExist' /\ CallsKnown'
  BY DEF Inv, Typed, GetLogger_Find, Goto, managerVars, InLogEvent, KnownLoggersExist,
         CallsKnown
<1>6. LifeInv'
  BY ThreadAssumption, Zenon DEF Inv, Typed, GetLogger_Find, Goto, managerVars, LifeInv, LockInv,
         LockFree
<1>7. DeadInv'
  BY DEF Inv, Typed, GetLogger_Find, Goto, managerVars, loggerVars, InLogEvent, DeadInv
<1> QED
  BY <1>1, <1>3, <1>4, <1>5, <1>6, <1>7, Zenon DEF Inv

\* A call begins: counted if the logger is active.
LEMMA LogEvent_Inv ==
    ASSUME Inv, NEW t \in Threads, NEW l \in Loggers, LogEvent(t, l)
    PROVE  Inv'
<1>1. Typed'
  BY DEF Inv, Typed, LogEvent, Goto, BeginCall, managerVars, loggerVars, Labels, InLogEvent
<1>2. \A u \in Threads \ {t} : pc'[u] = pc[u] /\ arg'[u] = arg[u]
  BY Zenon DEF Inv, Typed, LogEvent, Goto, BeginCall
<1>3. ActiveCountIsExact'
  <2>1. Typed /\ ActiveCountIsExact
    BY Zenon DEF Inv
  <2>2. \A k \in Loggers :
          m_active_count'[k] = m_active_count[k]
            + Delta(InLogEvent, pc'[t], arg'[t], k)
            + Delta(InSubmit, pc'[t], arg'[t], k)
            - Delta(InLogEvent, pc[t], arg[t], k)
            - Delta(InSubmit, pc[t], arg[t], k)
    BY DEF Inv, Typed, LogEvent, Goto, BeginCall, loggerVars, InLogEvent, InSubmit, Delta
  <2> QED
    BY <1>2, <2>1, <2>2, ExactStep, Zenon
<1>4. LockInv'
  BY ThreadAssumption, Zenon DEF Inv, Typed, LogEvent, Goto, BeginCall, LockInv, LockFree
<1>5. KnownLoggersExist' /\ CallsKnown'
  BY Zenon DEF Inv, Typed, LogEvent, Goto, BeginCall, managerVars, InLogEvent, KnownLoggersExist,
         CallsKnown
<1>6. LifeInv'
  BY Zenon DEF Inv, Typed, LogEvent, Goto, BeginCall, managerVars, LifeInv
<1>7. DeadInv'
  BY DEF Inv, Typed, LogEvent, Goto, BeginCall, managerVars, loggerVars, InLogEvent, DeadInv
<1> QED
  BY <1>1, <1>3, <1>4, <1>5, <1>6, <1>7, Zenon DEF Inv

\* The filters leave the outer call counted.
LEMMA LogEvent_Filter_Inv ==
    ASSUME Inv, NEW t \in Threads, LogEvent_Filter(t)
    PROVE  Inv'
<1>1. Typed'
  BY Zenon DEF Inv, Typed, LogEvent_Filter, Goto, managerVars, loggerVars, Labels, InLogEvent
<1>2. \A u \in Threads \ {t} : pc'[u] = pc[u] /\ arg'[u] = arg[u]
  BY Zenon DEF Inv, Typed, LogEvent_Filter, Goto
<1>3. ActiveCountIsExact'
  <2>1. Typed /\ ActiveCountIsExact
    BY Zenon DEF Inv
  <2>2. \A k \in Loggers :
          m_active_count'[k] = m_active_count[k]
            + Delta(InLogEvent, pc'[t], arg'[t], k)
            + Delta(InSubmit, pc'[t], arg'[t], k)
            - Delta(InLogEvent, pc[t], arg[t], k)
            - Delta(InSubmit, pc[t], arg[t], k)
    BY DEF Inv, Typed, LogEvent_Filter, Goto, loggerVars, InLogEvent, InSubmit, Delta
  <2> QED
    BY <1>2, <2>1, <2>2, ExactStep, Zenon
<1>4. LockInv'
  BY ThreadAssumption DEF Inv, Typed, LogEvent_Filter, Goto, LockInv, LockFree
<1>5. KnownLoggersExist' /\ CallsKnown'
  BY Zenon DEF Inv, Typed, LogEvent_Filter, Goto, managerVars, InLogEvent, KnownLoggersExist,
         CallsKnown
<1>6. LifeInv'
  BY Zenon DEF Inv, Typed, LogEvent_Filter, Goto, managerVars, LifeInv
<1>7. DeadInv'
  BY DEF Inv, Typed, LogEvent_Filter, Goto, managerVars, loggerVars, InLogEvent, DeadInv
<1> QED
  BY <1>1, <1>3, <1>4, <1>5, <1>6, <1>7, Zenon DEF Inv

\* The decorators leave the outer call counted.
LEMMA LogEvent_Decorate_Inv ==
    ASSUME Inv, NEW t \in Threads, LogEvent_Decorate(t)
    PROVE  Inv'
<1>1. Typed'
  BY Zenon DEF Inv, Typed, LogEvent_Decorate, Goto, managerVars, loggerVars, Labels, InLogEvent
<1>2. \A u \in Threads \ {t} : pc'[u] = pc[u] /\ arg'[u] = arg[u]
  BY Zenon DEF Inv, Typed, LogEvent_Decorate, Goto
<1>3. ActiveCountIsExact'
  <2>1. Typed /\ ActiveCountIsExact
    BY Zenon DEF Inv
  <2>2. \A k \in Loggers :
          m_active_count'[k] = m_active_count[k]
            + Delta(InLogEvent, pc'[t], arg'[t], k)
            + Delta(InSubmit, pc'[t], arg'[t], k)
            - Delta(InLogEvent, pc[t], arg[t], k)
            - Delta(InSubmit, pc[t], arg[t], k)
    BY DEF Inv, Typed, LogEvent_Decorate, Goto, loggerVars, InLogEvent, InSubmit, Delta
  <2> QED
    BY <1>2, <2>1, <2>2, ExactStep, Zenon
<1>4. LockInv'
  BY ThreadAssumption DEF Inv, Typed, LogEvent_Decorate, Goto, LockInv, LockFree
<1>5. KnownLoggersExist' /\ CallsKnown'
  BY Zenon DEF Inv, Typed, LogEvent_Decorate, Goto, managerVars, InLogEvent, KnownLoggersExist,
         CallsKnown
<1>6. LifeInv'
  BY Zenon DEF Inv, Typed, LogEvent_Decorate, Goto, managerVars, LifeInv
<1>7. DeadInv'
  BY DEF Inv, Typed, LogEvent_Decorate, Goto, managerVars, loggerVars, InLogEvent, DeadInv
<1> QED
  BY <1>1, <1>3, <1>4, <1>5, <1>6, <1>7, Zenon DEF Inv

\* submit is counted a second time, if the logger is still active.
LEMMA Submit_Inv ==
    ASSUME Inv, NEW t \in Threads, Submit(t)
    PROVE  Inv'
<1>1. Typed'
  BY DEF Inv, Typed, Submit, Goto, BeginCall, managerVars, loggerVars, Labels, InLogEvent
<1>2. \A u \in Threads \ {t} : pc'[u] = pc[u] /\ arg'[u] = arg[u]
  BY Zenon DEF Inv, Typed, Submit, Goto, BeginCall
<1>3. ActiveCountIsExact'
  <2>1. Typed /\ ActiveCountIsExact
    BY Zenon DEF Inv
  <2>2. \A k \in Loggers :
          m_active_count'[k] = m_active_count[k]
            + Delta(InLogEvent, pc'[t], arg'[t], k)
            + Delta(InSubmit, pc'[t], arg'[t], k)
            - Delta(InLogEvent, pc[t], arg[t], k)
            - Delta(InSubmit, pc[t], arg[t], k)
    BY DEF Inv, Typed, Submit, Goto, BeginCall, loggerVars, InLogEvent, InSubmit, Delta
  <2> QED
    BY <1>2, <2>1, <2>2, ExactStep, Zenon
<1>4. LockInv'
  BY ThreadAssumption DEF Inv, Typed, Submit, Goto, BeginCall, LockInv, LockFree
<1>5. KnownLoggersExist' /\ CallsKnown'
  BY Zenon DEF Inv, Typed, Submit, Goto, BeginCall, managerVars, InLogEvent, KnownLoggersExist,
         CallsKnown
<1>6. LifeInv'
  BY DEF Inv, Typed, Submit, Goto, BeginCall, managerVars, LifeInv
<1>7. DeadInv'
  BY DEF Inv, Typed, Submit, Goto, BeginCall, managerVars, loggerVars, InLogEvent, DeadInv
<1> QED
  BY <1>1, <1>3, <1>4, <1>5, <1>6, <1>7, Zenon DEF Inv

\* sendEvent takes the lock.
LEMMA SendEvent_Lock_Inv ==
    ASSUME Inv, NEW t \in Threads, SendEvent_Lock(t)
    PROVE  Inv'
<1>1. Typed'
  BY Zenon DEF Inv, Typed, SendEvent_Lock, Goto, managerVars, loggerVars, Labels, InLogEvent
<1>2. \A u \in Threads \ {t} : pc'[u] = pc[u] /\ arg'[u] = arg[u]
  BY Zenon DEF Inv, Typed, SendEvent_Lock, Goto
<1>3. ActiveCountIsExact'
  <2>1. Typed /\ ActiveCountIsExact
    BY Zenon DEF Inv
  <2>2. \A k \in Loggers :
          m_active_count'[k] = m_active_count[k]
            + Delta(InLogEvent, pc'[t], arg'[t], k)
            + Delta(InSubmit, pc'[t], arg'[t], k)
            - Delta(InLogEvent, pc[t], arg[t], k)
            - Delta(InSubmit, pc[t], arg[t], k)
    BY DEF Inv, Typed, SendEvent_Lock, Goto, loggerVars, InLogEvent, InSubmit, Delta
  <2> QED
    BY <1>2, <2>1, <2>2, ExactStep, Zenon
<1>4. LockInv'
  BY ThreadAssumption, Zenon DEF Inv, Typed, SendEvent_Lock, Goto, LockInv, LockFree
<1>5. KnownLoggersExist' /\ CallsKnown'
  BY Zenon DEF Inv, Typed, SendEvent_Lock, Goto, managerVars, InLogEvent, KnownLoggersExist,
         CallsKnown
<1>6. LifeInv'
  BY Zenon DEF Inv, Typed, SendEvent_Lock, Goto, managerVars, LifeInv
<1>7. DeadInv'
  BY DEF Inv, Typed, SendEvent_Lock, Goto, managerVars, loggerVars, InLogEvent, DeadInv
<1> QED
  BY <1>1, <1>3, <1>4, <1>5, <1>6, <1>7, Zenon DEF Inv

\* sendEvent gives the lock back, and submit ends.
LEMMA SendEvent_Inv ==
    ASSUME Inv, NEW t \in Threads, SendEvent(t)
    PROVE  Inv'
<1>1. Typed'
  BY DEF Inv, Typed, SendEvent, Goto, EndCall, GetSystem, managerVars, loggerVars, Labels,
         InLogEvent
<1>2. \A u \in Threads \ {t} : pc'[u] = pc[u] /\ arg'[u] = arg[u]
  BY Zenon DEF Inv, Typed, SendEvent, Goto, EndCall, GetSystem
<1>3. ActiveCountIsExact'
  <2>1. Typed /\ ActiveCountIsExact
    BY Zenon DEF Inv
  <2>2. \A k \in Loggers :
          m_active_count'[k] = m_active_count[k]
            + Delta(InLogEvent, pc'[t], arg'[t], k)
            + Delta(InSubmit, pc'[t], arg'[t], k)
            - Delta(InLogEvent, pc[t], arg[t], k)
            - Delta(InSubmit, pc[t], arg[t], k)
    BY <2>1, Counted DEF Inv, Typed, SendEvent, Goto, EndCall, GetSystem, loggerVars,
           InLogEvent, InSubmit, Delta
  <2> QED
    BY <1>2, <2>1, <2>2, ExactStep, Zenon
<1>4. LockInv'
  BY ThreadAssumption, Zenon DEF Inv, Typed, SendEvent, Goto, EndCall, GetSystem, LockInv, LockFree
<1>5. KnownLoggersExist' /\ CallsKnown'
  BY Zenon DEF Inv, Typed, SendEvent, Goto, EndCall, GetSystem, managerVars, InLogEvent,
         KnownLoggersExist, CallsKnown
<1>6. LifeInv'
  BY Zenon DEF Inv, Typed, SendEvent, Goto, EndCall, GetSystem, managerVars, LifeInv
<1>7. DeadInv'
  BY DEF Inv, Typed, SendEvent, Goto, EndCall, GetSystem, managerVars, loggerVars, InLogEvent,
         DeadInv
<1> QED
  BY <1>1, <1>3, <1>4, <1>5, <1>6, <1>7, Zenon DEF Inv

\* The outer call ends; its thread was counted, so the count is positive.
LEMMA LogEvent_End_Inv ==
    ASSUME Inv, NEW t \in Threads, LogEvent_End(t)
    PROVE  Inv'
<1>1. Typed'
  BY DEF Inv, Typed, LogEvent_End, Goto, EndCall, managerVars, loggerVars, Labels, InLogEvent
<1>2. \A u \in Threads \ {t} : pc'[u] = pc[u] /\ arg'[u] = arg[u]
  BY Zenon DEF Inv, Typed, LogEvent_End, Goto, EndCall
<1>3. ActiveCountIsExact'
  <2>1. Typed /\ ActiveCountIsExact
    BY Zenon DEF Inv
  <2>2. \A k \in Loggers :
          m_active_count'[k] = m_active_count[k]
            + Delta(InLogEvent, pc'[t], arg'[t], k)
            + Delta(InSubmit, pc'[t], arg'[t], k)
            - Delta(InLogEvent, pc[t], arg[t], k)
            - Delta(InSubmit, pc[t], arg[t], k)
    BY <2>1, Counted DEF Inv, Typed, LogEvent_End, Goto, EndCall, loggerVars, InLogEvent,
           InSubmit, Delta
  <2> QED
    BY <1>2, <2>1, <2>2, ExactStep, Zenon
<1>4. LockInv'
  BY ThreadAssumption, Zenon DEF Inv, Typed, LogEvent_End, Goto, EndCall, LockInv, LockFree
<1>5. KnownLoggersExist' /\ CallsKnown'
  BY Zenon DEF Inv, Typed, LogEvent_End, Goto, EndCall, managerVars, InLogEvent, KnownLoggersExist,
         CallsKnown
<1>6. LifeInv'
  BY Zenon DEF Inv, Typed, LogEvent_End, Goto, EndCall, managerVars, LifeInv
<1>7. DeadInv'
  BY DEF Inv, Typed, LogEvent_End, Goto, EndCall, managerVars, loggerVars, InLogEvent, DeadInv
<1> QED
  BY <1>1, <1>3, <1>4, <1>5, <1>6, <1>7, Zenon DEF Inv

\* Calls of the manager may start the system.
LEMMA ManagerCall_Inv ==
    ASSUME Inv, NEW t \in Threads, ManagerCall(t)
    PROVE  Inv'
<1>1. Typed'
  BY Zenon DEF Inv, Typed, ManagerCall, Goto, GetSystem, managerVars, loggerVars, Labels, InLogEvent
<1>2. \A u \in Threads \ {t} : pc'[u] = pc[u] /\ arg'[u] = arg[u]
  BY Zenon DEF Inv, Typed, ManagerCall, Goto, GetSystem
<1>3. ActiveCountIsExact'
  <2>1. Typed /\ ActiveCountIsExact
    BY Zenon DEF Inv
  <2>2. \A k \in Loggers :
          m_active_count'[k] = m_active_count[k]
            + Delta(InLogEvent, pc'[t], arg'[t], k)
            + Delta(InSubmit, pc'[t], arg'[t], k)
            - Delta(InLogEvent, pc[t], arg[t], k)
            - Delta(InSubmit, pc[t], arg[t], k)
    BY DEF Inv, Typed, ManagerCall, Goto, GetSystem, loggerVars, InLogEvent, InSubmit, Delta
  <2> QED
    BY <1>2, <2>1, <2>2, ExactStep, Zenon
<1>4. LockInv'
  BY ThreadAssumption, Zenon DEF Inv, Typed, ManagerCall, Goto, GetSystem, LockInv, LockFree
<1>5. KnownLoggersExist' /\ CallsKnown'
  BY Zenon DEF Inv, Typed, ManagerCall, Goto, GetSystem, managerVars, InLogEvent, KnownLoggersExist,
         CallsKnown
<1>6. LifeInv'
  BY Zenon DEF Inv, Typed, ManagerCall, Goto, GetSystem, managerVars, LifeInv
<1>7. DeadInv'
  BY DEF Inv, Typed, ManagerCall, Goto, GetSystem, managerVars, loggerVars, InLogEvent, DeadInv
<1> QED
  BY <1>1, <1>3, <1>4, <1>5, <1>6, <1>7, Zenon DEF Inv

\* The teardown begins with the lock, in a manager that is alive.
LEMMA FlushAndTeardown_Inv ==
    ASSUME Inv, NEW t \in Threads, FlushAndTeardown(t)
    PROVE  Inv'
<1>1. Typed'
  BY ZenonT(30) DEF Inv, Typed, FlushAndTeardown, Goto, managerVars, loggerVars, Labels, InLogEvent
<1>2. \A u \in Threads \ {t} : pc'[u] = pc[u] /\ arg'[u] = arg[u]
  BY Zenon DEF Inv, Typed, FlushAndTeardown, Goto
<1>3. ActiveCountIsExact'
  <2>1. Typed /\ ActiveCountIsExact
    BY Zenon DEF Inv
  <2>2. \A k \in Loggers :
          m_active_count'[k] = m_active_count[k]
            + Delta(InLogEvent, pc'[t], arg'[t], k)
            + Delta(InSubmit, pc'[t], arg'[t], k)
            - Delta(InLogEvent, pc[t], arg[t], k)
            - Delta(InSubmit, pc[t], arg[t], k)
    BY DEF Inv, Typed, FlushAndTeardown, Goto, loggerVars, InLogEvent, InSubmit, Delta
  <2> QED
    BY <1>2, <2>1, <2>2, ExactStep, Zenon
<1>4. LockInv'
  BY ThreadAssumption DEF Inv, Typed, FlushAndTeardown, Goto, LockInv, LockFree
<1>5. KnownLoggersExist' /\ CallsKnown'
  BY DEF Inv, Typed, FlushAndTeardown, Goto, managerVars, InLogEvent, KnownLoggersExist,
         CallsKnown
<1>6. LifeInv'
  BY ThreadAssumption, Zenon DEF Inv, Typed, FlushAndTeardown, Goto, managerVars, LifeInv, LockInv,
         LockFree
<1>7. DeadInv'
  BY DEF Inv, Typed, FlushAndTeardown, Goto, managerVars, loggerVars, InLogEvent, DeadInv
<1> QED
  BY <1>1, <1>3, <1>4, <1>5, <1>6, <1>7, Zenon DEF Inv

\* A logger becomes inactive, and the teardown waits for it.
LEMMA RecordShutdown_Inv ==
    ASSUME Inv, NEW t \in Threads, NEW l \in Loggers, RecordShutdown(t, l)
    PROVE  Inv'
<1>1. Typed'
  BY Zenon DEF Inv, Typed, RecordShutdown, Goto, managerVars, loggerVars, Labels, InLogEvent
<1>2. \A u \in Threads \ {t} : pc'[u] = pc[u] /\ arg'[u] = arg[u]
  BY Zenon DEF Inv, Typed, RecordShutdown, Goto
<1>3. ActiveCountIsExact'
  <2>1. Typed /\ ActiveCountIsExact
    BY Zenon DEF Inv
  <2>2. \A k \in Loggers :
          m_active_count'[k] = m_active_count[k]
            + Delta(InLogEvent, pc'[t], arg'[t], k)
            + Delta(InSubmit, pc'[t], arg'[t], k)
            - Delta(InLogEvent, pc[t], arg[t], k)
            - Delta(InSubmit, pc[t], arg[t], k)
    BY DEF Inv, Typed, RecordShutdown, Goto, loggerVars, InLogEvent, InSubmit, Delta
  <2> QED
    BY <1>2, <2>1, <2>2, ExactStep, Zenon
<1>4. LockInv'
  BY ThreadAssumption, Zenon DEF Inv, Typed, RecordShutdown, Goto, LockInv, LockFree
<1>5. KnownLoggersExist' /\ CallsKnown'
  BY Zenon DEF Inv, Typed, RecordShutdown, Goto, managerVars, InLogEvent, KnownLoggersExist,
         CallsKnown
<1>6. LifeInv'
  BY ThreadAssumption, Zenon DEF Inv, Typed, RecordShutdown, Goto, managerVars, LifeInv, LockInv,
         LockFree
<1>7. DeadInv'
  BY DEF Inv, Typed, RecordShutdown, Goto, managerVars, loggerVars, InLogEvent, DeadInv
<1> QED
  BY <1>1, <1>3, <1>4, <1>5, <1>6, <1>7, Zenon DEF Inv

\* The count is zero and exact: the logger has no caller left.
LEMMA RecordShutdown_Wait_Inv ==
    ASSUME Inv, NEW t \in Threads, RecordShutdown_Wait(t)
    PROVE  Inv'
<1>1. Typed'
  BY Zenon DEF Inv, Typed, RecordShutdown_Wait, Goto, managerVars, loggerVars, Labels, InLogEvent
<1>2. \A u \in Threads \ {t} : pc'[u] = pc[u] /\ arg'[u] = arg[u]
  BY Zenon DEF Inv, Typed, RecordShutdown_Wait, Goto
<1>3. ActiveCountIsExact'
  <2>1. Typed /\ ActiveCountIsExact
    BY Zenon DEF Inv
  <2>2. \A k \in Loggers :
          m_active_count'[k] = m_active_count[k]
            + Delta(InLogEvent, pc'[t], arg'[t], k)
            + Delta(InSubmit, pc'[t], arg'[t], k)
            - Delta(InLogEvent, pc[t], arg[t], k)
            - Delta(InSubmit, pc[t], arg[t], k)
    BY DEF Inv, Typed, RecordShutdown_Wait, Goto, loggerVars, InLogEvent, InSubmit, Delta
  <2> QED
    BY <1>2, <2>1, <2>2, ExactStep, Zenon
<1>4. LockInv'
  BY ThreadAssumption, Zenon DEF Inv, Typed, RecordShutdown_Wait, Goto, LockInv, LockFree
<1>5. KnownLoggersExist' /\ CallsKnown'
  BY Zenon DEF Inv, Typed, RecordShutdown_Wait, Goto, managerVars, InLogEvent, KnownLoggersExist,
         CallsKnown
<1>6. LifeInv'
  BY Zenon DEF Inv, Typed, RecordShutdown_Wait, Goto, managerVars, LifeInv
<1>7. DeadInv'
  <2>1. Callers(arg[t]) = {}
    BY CallersFinite, FS_EmptySet DEF Inv, Typed, RecordShutdown_Wait, Goto, ActiveCountIsExact
  <2>2. \A u \in Threads : pc[u] \in InLogEvent => arg[u] # arg[t]
    BY <2>1, Zenon DEF Callers
  <2> QED
    BY <2>2 DEF Inv, Typed, RecordShutdown_Wait, Goto, managerVars, loggerVars, InLogEvent,
           DeadInv
<1> QED
  BY <1>1, <1>3, <1>4, <1>5, <1>6, <1>7, Zenon DEF Inv

\* The loggers are inactive when they go to the graveyard.
LEMMA StopSystem_Inv ==
    ASSUME Inv, NEW t \in Threads, StopSystem(t)
    PROVE  Inv'
<1>1. Typed'
  BY Zenon DEF Inv, Typed, StopSystem, Goto, AddMap, managerVars, loggerVars, Labels, InLogEvent
<1>2. \A u \in Threads \ {t} : pc'[u] = pc[u] /\ arg'[u] = arg[u]
  BY Zenon DEF Inv, Typed, StopSystem, Goto, AddMap
<1>3. ActiveCountIsExact'
  <2>1. Typed /\ ActiveCountIsExact
    BY Zenon DEF Inv
  <2>2. \A k \in Loggers :
          m_active_count'[k] = m_active_count[k]
            + Delta(InLogEvent, pc'[t], arg'[t], k)
            + Delta(InSubmit, pc'[t], arg'[t], k)
            - Delta(InLogEvent, pc[t], arg[t], k)
            - Delta(InSubmit, pc[t], arg[t], k)
    BY DEF Inv, Typed, StopSystem, Goto, AddMap, loggerVars, InLogEvent, InSubmit, Delta
  <2> QED
    BY <1>2, <2>1, <2>2, ExactStep, Zenon
<1>4. LockInv'
  BY ThreadAssumption, Zenon DEF Inv, Typed, StopSystem, Goto, AddMap, LockInv, LockFree
<1>5. KnownLoggersExist' /\ CallsKnown'
  BY Zenon DEF Inv, Typed, StopSystem, Goto, AddMap, managerVars, InLogEvent, KnownLoggersExist,
         CallsKnown
<1>6. LifeInv'
  BY ThreadAssumption, Zenon DEF Inv, Typed, StopSystem, Goto, AddMap, managerVars, LifeInv, LockInv,
         LockFree
<1>7. DeadInv'
  BY DEF Inv, Typed, StopSystem, Goto, AddMap, managerVars, loggerVars, InLogEvent, DeadInv
<1> QED
  BY <1>1, <1>3, <1>4, <1>5, <1>6, <1>7, Zenon DEF Inv

\* The teardown gives the lock back.
LEMMA Teardown_End_Inv ==
    ASSUME Inv, NEW t \in Threads, Teardown_End(t)
    PROVE  Inv'
<1>1. Typed'
  BY Zenon DEF Inv, Typed, Teardown_End, Goto, managerVars, loggerVars, Labels, InLogEvent
<1>2. \A u \in Threads \ {t} : pc'[u] = pc[u] /\ arg'[u] = arg[u]
  BY Zenon DEF Inv, Typed, Teardown_End, Goto
<1>3. ActiveCountIsExact'
  <2>1. Typed /\ ActiveCountIsExact
    BY Zenon DEF Inv
  <2>2. \A k \in Loggers :
          m_active_count'[k] = m_active_count[k]
            + Delta(InLogEvent, pc'[t], arg'[t], k)
            + Delta(InSubmit, pc'[t], arg'[t], k)
            - Delta(InLogEvent, pc[t], arg[t], k)
            - Delta(InSubmit, pc[t], arg[t], k)
    BY DEF Inv, Typed, Teardown_End, Goto, loggerVars, InLogEvent, InSubmit, Delta
  <2> QED
    BY <1>2, <2>1, <2>2, ExactStep, Zenon
<1>4. LockInv'
  BY ThreadAssumption, Zenon DEF Inv, Typed, Teardown_End, Goto, LockInv, LockFree
<1>5. KnownLoggersExist' /\ CallsKnown'
  BY Zenon DEF Inv, Typed, Teardown_End, Goto, managerVars, InLogEvent, KnownLoggersExist, CallsKnown
<1>6. LifeInv'
  BY ThreadAssumption, Zenon DEF Inv, Typed, Teardown_End, Goto, managerVars, LifeInv, LockInv,
         LockFree
<1>7. DeadInv'
  BY DEF Inv, Typed, Teardown_End, Goto, managerVars, loggerVars, InLogEvent, DeadInv
<1> QED
  BY <1>1, <1>3, <1>4, <1>5, <1>6, <1>7, Zenon DEF Inv

-----------------------------------------------------------------------------
(* The theorems *)

\* The initial state satisfies the invariant.
LEMMA InitInv ==
    ASSUME Init
    PROVE  Inv
<1>1. \A l : Callers(l) = {} /\ Submitters(l) = {}
  BY Zenon DEF Init, Callers, Submitters, InLogEvent, InSubmit
<1>2. ActiveCountIsExact
  BY <1>1, FS_EmptySet, SMTT(30) DEF Init, ActiveCountIsExact
<1>3. Typed
  BY Zenon DEF Init, Typed, Labels
<1>4. LockInv /\ KnownLoggersExist /\ CallsKnown /\ LifeInv /\ DeadInv
  BY ThreadAssumption, Zenon
  DEF Init, LockInv, KnownLoggersExist, CallsKnown, LifeInv, DeadInv, InLogEvent
<1> QED
  BY <1>2, <1>3, <1>4, Zenon DEF Inv

\* Every step of the threads and every stutter preserves the invariant.
LEMMA NextInv ==
    ASSUME Inv, [Next]_vars
    PROVE  Inv'
<1>1. CASE UNCHANGED vars
  BY <1>1 DEF vars, managerVars, loggerVars, Inv, Typed, ActiveCountIsExact, Callers,
              Submitters, LockInv, KnownLoggersExist, CallsKnown, LifeInv, DeadInv
<1>2. ASSUME NEW t \in Threads, Call(t)
      PROVE  Inv'
  BY <1>2, GetLogger_Inv, LogEvent_Inv, ManagerCall_Inv, FlushAndTeardown_Inv, Zenon DEF Call
<1>3. ASSUME NEW t \in Threads, Step(t)
      PROVE  Inv'
  BY <1>3, GetLogger_Find_Inv, LogEvent_Filter_Inv, LogEvent_Decorate_Inv, Submit_Inv,
     SendEvent_Lock_Inv, SendEvent_Inv, LogEvent_End_Inv, RecordShutdown_Inv,
     RecordShutdown_Wait_Inv, StopSystem_Inv, Teardown_End_Inv, Zenon DEF Step
<1> QED
  BY <1>1, <1>2, <1>3, Zenon DEF Next

\* The invariant holds in every reachable state.
THEOREM Invariance == Spec => []Inv
  BY InitInv, NextInv, PTL DEF Spec

\* A logger counts exactly the calls in progress (ActiveLoggerCall), for any number of
\* threads and loggers.
THEOREM ActiveCountExact == Spec => []ActiveCountIsExact
<1>1. Inv => ActiveCountIsExact
  BY Zenon DEF Inv
<1> QED
  BY <1>1, Invariance, PTL

\* A logger that GetLogger has returned exists for ever.
THEOREM KnownLoggersAlwaysExist == Spec => []KnownLoggersExist
<1>1. Inv => KnownLoggersExist
  BY Zenon DEF Inv
<1> QED
  BY <1>1, Invariance, PTL

\* No call on a logger uses a log manager that FlushAndTeardown has taken apart: a caller's
\* logger is in the map of a living manager, or it was shut down; then RecordShutdown has
\* seen its count at zero, and the count is exact.
THEOREM CallsSeeLive == Spec => []CallsSeeLiveManager
<1>1. Inv => CallsSeeLiveManager
  <2> SUFFICES ASSUME Inv, NEW t \in Threads, pc[t] \in InLogEvent
               PROVE  m_alive /\ m_system # "none"
    BY Zenon DEF CallsSeeLiveManager
  <2>1. arg[t] \in m_loggers \cup s_deadLoggers
    BY Zenon DEF Inv, CallsKnown, KnownLoggersExist
  <2>2. m_system # "none"
    <3> SUFFICES ASSUME m_system = "none"
                 PROVE  FALSE
      BY Zenon
    <3>1. arg[t] \in s_deadLoggers
      BY <2>1, Zenon DEF Inv, LifeInv
    <3>2. PICK u \in Threads : pc[u] = "td_wait"
      BY <3>1, Zenon DEF Inv, Typed, DeadInv
    <3> QED
      BY <3>2, Zenon DEF Inv, LifeInv
  <2> QED
    BY <2>2, Zenon DEF Inv, LifeInv
<1> QED
  BY <1>1, Invariance, PTL

\* Type correctness; a logger's count is at most twice the number of threads.
THEOREM TypeCorrect == Spec => []TypeOK
<1>1. Inv => TypeOK
  <2> SUFFICES ASSUME Inv
               PROVE  TypeOK
    BY Zenon
  <2>1. \A l \in Loggers : m_active_count[l] \in 0..(2 * Cardinality(Threads))
    <3> SUFFICES ASSUME NEW l \in Loggers
                 PROVE  m_active_count[l] \in 0..(2 * Cardinality(Threads))
      BY Zenon
    <3>1. m_active_count[l] = Cardinality(Callers(l)) + Cardinality(Submitters(l))
      BY Zenon DEF Inv, ActiveCountIsExact
    <3>2. Cardinality(Threads) \in Nat
      BY ThreadAssumption, FS_CardinalityType, Zenon
    <3> QED
      BY <3>1, <3>2, CallersFinite
  <2> QED
    BY <2>1, Zenon DEF Inv, Typed, TypeOK
<1> QED
  BY <1>1, Invariance, PTL
=============================================================================
