-------------------------- MODULE Statistics_proofs --------------------------
(* Proofs for Statistics: while the system runs there is at most one task  *)
(* to send the statistics, and m_isScheduled says whether there is one.    *)
EXTENDS Statistics, TLAPS

\* Whoever sees the system started, or does what only a started one does, comes after handleOnStart;
\* before that there is no task, and m_isScheduled is false if it was written at all.
Starting ==
    op \in {"new", "start"} =>
        /\ ~m_isStarted
        /\ \A a \in Tasks : status[a] = "free"
        /\ \A t \in Actors : pc[t] \notin {"exchange", "queue", "handle"}
        /\ cleared => ~m_isScheduled

\* The caller has written m_isStarted when it goes on to cancel and to the last event.
Stopping ==
    /\ m_isStarted =>
          /\ op \in {"up", "cleanup", "finish"}
          /\ pc["caller"] \in {"idle", "flag", "exchange", "queue", "handle", "end", "stop"}
          /\ op # "up" => pc["caller"] = "stop"
    /\ pc["caller"] \in {"stop", "unschedule", "cancel"} => op \notin {"new", "start"}

\* The worker's task runs from its first step to its last.
Running ==
    /\ \A a, b \in Tasks : status[a] = "running" /\ status[b] = "running" => a = b
    /\ pc["worker"] = "idle" => \A a \in Tasks : status[a] # "running"
    /\ pc["worker"] = "clear" => \E a \in Tasks : status[a] = "running"

\* m_isScheduled stands for the one task there is.
Scheduled ==
    m_isStarted =>
        /\ \A x, y \in Pending : x = y
        /\ Pending # {} => m_isScheduled
        /\ cleared /\ m_isScheduled => Pending # {}

\* The inductive invariant.
SInv == TypeOK /\ Starting /\ Stopping /\ Running /\ Scheduled

\* The actors.
LEMMA ActorFacts ==
    /\ "caller" \in Actors /\ "worker" \in Actors /\ NoTask \notin Tasks /\ MaxCalls \in Nat
    /\ \A a \in Tasks : a \notin Actors
  BY TaskAssumption, Zenon DEF Actors

\* A step of an actor that makes no task and starts none leaves the tasks pending that were.
LEMMA SamePending ==
    ASSUME TypeOK, NEW t \in Actors, NEW where, pc' = [pc EXCEPT ![t] = where],
           pc[t] \notin {"queue", "clear"}, where \notin {"queue", "clear"}, status' = status
    PROVE  Pending' = Pending
<1>1. \A u \in Actors : pc'[u] = IF u = t THEN where ELSE pc[u]
  BY Zenon DEF TypeOK
<1>2. \A u \in Actors : pc'[u] = "queue" <=> pc[u] = "queue"
  BY <1>1, Zenon
<1>3. pc'["worker"] = "clear" <=> pc["worker"] = "clear"
  BY <1>1, ActorFacts, Zenon
<1> QED
  BY <1>2, <1>3, Zenon DEF Pending

\* The system is not started: nothing to show for the flag.
LEMMA NotStarted == ~m_isStarted => Scheduled
  BY Zenon DEF Scheduled

\* scheduleSend's look at m_isStarted.
LEMMA ReadStarted_SInv ==
    ASSUME SInv, NEW t \in Actors, ReadStarted(t)
    PROVE  SInv'
<1> DEFINE where == IF m_isStarted THEN "exchange" ELSE "end"
<1>1. /\ pc[t] = "flag" /\ pc' = [pc EXCEPT ![t] = where]
      /\ UNCHANGED <<sendVars, received, status, made, op, calls>>
  BY Zenon DEF ReadStarted, Goto
<1>2. where \in {"exchange", "end"} /\ (where = "exchange" => m_isStarted)
  BY Zenon
<1> HIDE DEF where
<1>3. pc' \in [Actors -> Places]
      /\ \A u \in Actors : pc'[u] = IF u = t THEN where ELSE pc[u]
  BY <1>1, <1>2, Zenon DEF SInv, TypeOK, Places
<1>4. TypeOK'
  BY <1>1, <1>3 DEF SInv, TypeOK, sendVars
<1>5. Pending' = Pending
  BY <1>1, <1>2, SamePending, Zenon DEF SInv
<1>6. Starting' /\ Stopping' /\ Running'
  BY <1>1, <1>2, <1>3, ActorFacts, Zenon DEF SInv, Starting, Stopping, Running, sendVars
<1>7. Scheduled'
  BY <1>1, <1>5, Zenon DEF SInv, Scheduled, sendVars
<1> QED
  BY <1>4, <1>6, <1>7, Zenon DEF SInv

\* The exchange: who sets the flag finds no task.
LEMMA Exchange_SInv ==
    ASSUME SInv, NEW t \in Actors, Exchange(t)
    PROVE  SInv'
<1> DEFINE where == IF interval = 0 \/ m_isScheduled THEN "end" ELSE "queue"
<1>1. /\ pc[t] = "exchange" /\ pc' = [pc EXCEPT ![t] = where] /\ m_intervalMs' = interval
      /\ m_isScheduled' = (m_isScheduled \/ interval # 0)
      /\ UNCHANGED <<interval, m_isStarted, m_scheduledSend, cleared, received, status, made, op, calls>>
  BY Zenon DEF Exchange, Goto, SInv, TypeOK
<1>2. where \in {"end", "queue"} /\ (where = "queue" <=> interval # 0 /\ ~m_isScheduled)
  BY Zenon DEF SInv, TypeOK
<1> HIDE DEF where
<1>3. pc' \in [Actors -> Places]
      /\ \A u \in Actors : pc'[u] = IF u = t THEN where ELSE pc[u]
  BY <1>1, <1>2, Zenon DEF SInv, TypeOK, Places
<1>4. TypeOK'
  BY <1>1, <1>3, Zenon DEF SInv, TypeOK
<1>5. op \notin {"new", "start"}
  BY <1>1, Zenon DEF SInv, Starting
<1>6. Starting' /\ Stopping' /\ Running'
  BY <1>1, <1>2, <1>3, <1>5, ActorFacts, Zenon DEF SInv, Starting, Stopping, Running
<1>7. CASE where = "end"
  <2>1. Pending' = Pending
    BY <1>1, <1>7, SamePending, Zenon DEF SInv
  <2>2. Scheduled'
    <3>1. m_isScheduled' = m_isScheduled
      BY <1>1, <1>2, <1>7, Zenon DEF SInv, TypeOK
    <3> QED
      BY <1>1, <2>1, <3>1 DEF SInv, Scheduled
  <2> QED
    BY <1>4, <1>6, <2>2, Zenon DEF SInv
<1>8. CASE where = "queue"
  <2>1. ~m_isScheduled /\ m_isScheduled'
    BY <1>1, <1>2, <1>8, Zenon
  <2>2. m_isStarted => Pending = {}
    BY <2>1, Zenon DEF SInv, Scheduled
  <2>3. Pending' = Pending \cup {t}
    BY <1>1, <1>3, <1>8, ActorFacts, Zenon DEF Pending
  <2>4. Scheduled'
    BY <1>1, <2>1, <2>2, <2>3, Zenon DEF Scheduled
  <2> QED
    BY <1>4, <1>6, <2>4, Zenon DEF SInv
<1> QED
  BY <1>2, <1>7, <1>8, Zenon

\* The task takes the place of the actor that makes it.
LEMMA ScheduleTask_SInv ==
    ASSUME SInv, NEW t \in Actors, ScheduleTask(t)
    PROVE  SInv'
<1>1. PICK a \in Tasks : /\ status[a] = "free" /\ status' = [status EXCEPT ![a] = "queued"]
                         /\ made' = [made EXCEPT ![t] = a]
  BY Zenon DEF ScheduleTask
<1>2. /\ pc[t] = "queue" /\ pc' = [pc EXCEPT ![t] = "handle"]
      /\ UNCHANGED <<sendVars, received, op, calls>>
  BY Zenon DEF ScheduleTask, Goto
<1>3. /\ pc' \in [Actors -> Places]
      /\ \A u \in Actors : pc'[u] = IF u = t THEN "handle" ELSE pc[u]
      /\ status' \in [Tasks -> {"free", "queued", "running"}]
      /\ \A b \in Tasks : status'[b] = IF b = a THEN "queued" ELSE status[b]
      /\ made' \in [Actors -> Tasks \cup {NoTask}]
  BY <1>1, <1>2, Zenon DEF SInv, TypeOK, Places
<1>4. TypeOK'
  BY <1>2, <1>3, Zenon DEF SInv, TypeOK, sendVars
<1>5. op \notin {"new", "start"}
  BY <1>2, Zenon DEF SInv, Starting
<1>6. Starting' /\ Stopping' /\ Running'
  BY <1>1, <1>2, <1>3, <1>5, ActorFacts DEF SInv, Starting, Stopping, Running, sendVars
<1>7. t \in Pending
  BY <1>2, Zenon DEF Pending
<1>8. Pending' = (Pending \ {t}) \cup {a}
  BY <1>1, <1>2, <1>3, ActorFacts DEF Pending
<1>9. Scheduled'
  BY <1>2, <1>7, <1>8, Zenon DEF SInv, Scheduled, sendVars
<1> QED
  BY <1>4, <1>6, <1>9, Zenon DEF SInv

\* Steps that neither make, start nor end a task, nor touch the flags.
LEMMA Quiet_SInv ==
    ASSUME SInv, NEW t \in Actors, KeepHandle(t) \/ Generate(t) \/ SendEvent(t) \/ Notify(t)
    PROVE  SInv'
<1>1. PICK where \in {"end", "event", "flag"} :
         /\ pc' = [pc EXCEPT ![t] = where]
         /\ pc[t] \in {"handle", "roll", "event", "idle"}
         /\ pc[t] = "roll" \/ pc[t] = "event" \/ where # "event"
         /\ pc[t] = "idle" => op = "up" \/ t = "worker"
  BY Zenon DEF KeepHandle, Generate, SendEvent, Notify, Goto
<1>2. UNCHANGED <<interval, m_intervalMs, m_isStarted, m_isScheduled, cleared, status, op>>
  BY Zenon DEF KeepHandle, Generate, SendEvent, Notify, sendVars
<1>3. /\ m_scheduledSend' \in Tasks \cup {NoTask} /\ made' \in [Actors -> Tasks \cup {NoTask}]
      /\ received' \in Nat /\ calls' \in 0..MaxCalls
  <2>1. CASE KeepHandle(t)
    BY <2>1, Zenon DEF KeepHandle, SInv, TypeOK
  <2>2. CASE Generate(t)
    BY <2>2 DEF Generate, SInv, TypeOK, sendVars
  <2>3. CASE SendEvent(t)
    BY <2>3 DEF SendEvent, SInv, TypeOK, sendVars
  <2>4. CASE Notify(t)
    BY <2>4, ActorFacts DEF Notify, SInv, TypeOK, sendVars
  <2> QED
    BY <2>1, <2>2, <2>3, <2>4, Zenon
<1>4. pc' \in [Actors -> Places] /\ \A u \in Actors : pc'[u] = IF u = t THEN where ELSE pc[u]
  BY <1>1, Zenon DEF SInv, TypeOK, Places
<1>5. TypeOK'
  BY <1>2, <1>3, <1>4, Zenon DEF SInv, TypeOK
<1>6. Pending' = Pending
  BY <1>1, <1>2, SamePending, Zenon DEF SInv
<1>7. Starting' /\ Running'
  BY <1>1, <1>2, <1>4, ActorFacts, Zenon DEF SInv, Starting, Running
<1>8. Stopping'
  BY <1>1, <1>2, <1>4, ActorFacts, Zenon DEF SInv, Stopping
<1>9. Scheduled'
  BY <1>2, <1>6, Zenon DEF SInv, Scheduled
<1> QED
  BY <1>5, <1>7, <1>8, <1>9, Zenon DEF SInv

\* send clears the flag for its own task; the caller only when the system is not started.
LEMMA Clear_SInv ==
    ASSUME SInv, NEW t \in Actors, Clear(t)
    PROVE  SInv'
<1> DEFINE where == IF interval = 0 THEN "end" ELSE "roll"
<1>1. /\ pc[t] = "clear" /\ pc' = [pc EXCEPT ![t] = where] /\ m_intervalMs' = interval
      /\ m_isScheduled' = FALSE /\ cleared' = TRUE
      /\ UNCHANGED <<interval, m_isStarted, m_scheduledSend, received, status, made, op, calls>>
  BY Zenon DEF Clear, Goto
<1>2. where \in {"end", "roll"}
  BY Zenon
<1> HIDE DEF where
<1>3. pc' \in [Actors -> Places] /\ \A u \in Actors : pc'[u] = IF u = t THEN where ELSE pc[u]
  BY <1>1, <1>2, Zenon DEF SInv, TypeOK, Places
<1>4. TypeOK'
  BY <1>1, <1>3, Zenon DEF SInv, TypeOK
<1>5. Starting' /\ Running'
  BY <1>1, <1>2, <1>3, ActorFacts, Zenon DEF SInv, Starting, Running
<1>6. CASE ~m_isStarted
  <2>1. Stopping'
    BY <1>1, <1>2, <1>3, <1>6, ActorFacts, Zenon DEF SInv, Stopping
  <2> QED
    BY <1>1, <1>4, <1>5, <1>6, <2>1, Zenon DEF SInv, Scheduled
<1>7. CASE m_isStarted
  <2>1. t = "worker" /\ op \notin {"new", "start"}
    BY <1>1, <1>7, Zenon DEF SInv, Stopping, Actors
  <2>2. PICK a \in Tasks : status[a] = "running"
    BY <1>1, <2>1, Zenon DEF SInv, Running
  <2>3. a \in Pending /\ \A x \in Pending : x = a
    <3>1. a \in Pending
      BY <1>1, <2>1, <2>2, Zenon DEF Pending
    <3> QED
      BY <1>7, <3>1, Zenon DEF SInv, Scheduled
  <2>4. Pending' = {}
    <3>1. \A b \in Tasks : status[b] # "queued"
      <4>1. ASSUME NEW b \in Tasks, status[b] = "queued" PROVE b = a
        BY <2>3, <4>1, Zenon DEF Pending
      <4> QED
        BY <2>2, <4>1, Zenon
    <3>2. \A u \in Actors : pc[u] # "queue"
      BY <2>3, ActorFacts, Zenon DEF Pending
    <3> QED
      BY <1>1, <1>2, <1>3, <2>1, <3>1, <3>2, ActorFacts, Zenon DEF Pending
  <2>5. Stopping'
    BY <1>1, <1>2, <1>3, <2>1, ActorFacts, Zenon DEF SInv, Stopping
  <2> QED
    BY <1>1, <1>4, <1>5, <2>4, <2>5, Zenon DEF SInv, Scheduled
<1> QED
  BY <1>6, <1>7, Zenon

\* The calls that start, stop and delete begin.
LEMMA Begin_SInv ==
    ASSUME SInv, handleOnStart \/ Cleanup \/ Finish
    PROVE  SInv'
<1>1. PICK where \in {"clear", "end", "stop"} :
         /\ pc' = [pc EXCEPT !["caller"] = where]
         /\ \/ op = "new" /\ op' = "start" /\ where # "stop"
            \/ op = "up" /\ op' \in {"cleanup", "finish"} /\ where = "stop"
  BY Zenon DEF handleOnStart, Cleanup, Finish, Goto
<1>2. UNCHANGED <<sendVars, received, status, made>> /\ calls' \in 0..MaxCalls
  BY ActorFacts DEF handleOnStart, Cleanup, Finish, SInv, TypeOK
<1>3. pc' \in [Actors -> Places] /\ \A u \in Actors : pc'[u] = IF u = "caller" THEN where ELSE pc[u]
  BY <1>1, ActorFacts, Zenon DEF SInv, TypeOK, Places
<1>4. TypeOK'
  BY <1>1, <1>2, <1>3, Zenon DEF SInv, TypeOK, sendVars
<1>5. Starting' /\ Running' /\ Stopping'
  <2>1. UNCHANGED <<m_isStarted, m_isScheduled, cleared, status>>
    BY <1>2, Zenon DEF sendVars
  <2>2. pc'["worker"] = pc["worker"] /\ pc'["caller"] = where
    BY <1>3, ActorFacts, Zenon
  <2>3. Starting'
    BY <1>1, <1>3, <2>1, Zenon DEF SInv, Starting
  <2>4. Running'
    BY <2>1, <2>2, Zenon DEF SInv, Running
  <2>5. Stopping'
    BY <1>1, <2>1, <2>2, Zenon DEF SInv, Starting, Stopping
  <2> QED
    BY <2>3, <2>4, <2>5, Zenon
<1>6. CASE op = "new"
  BY <1>2, <1>4, <1>5, <1>6, Zenon DEF SInv, Starting, Scheduled, sendVars
<1>7. CASE op = "up" /\ where = "stop"
  <2>1. pc["caller"] = "idle"
    BY <1>7, Zenon DEF handleOnStart, Cleanup, Finish
  <2>2. Pending' = Pending
    BY <1>1, <1>2, <1>7, <2>1, ActorFacts, SamePending, Zenon DEF SInv
  <2> QED
    BY <1>2, <1>4, <1>5, <2>2, Zenon DEF SInv, Scheduled, sendVars
<1> QED
  BY <1>1, <1>6, <1>7, Zenon

\* handleOnStop, after which the system is not started.
LEMMA Stop_SInv ==
    ASSUME SInv, Stop \/ Unschedule \/ CancelTask
    PROVE  SInv'
<1>1. PICK where \in {"unschedule", "cancel", "clear", "end"} : pc' = [pc EXCEPT !["caller"] = where]
  BY Zenon DEF Stop, Unschedule, CancelTask, Goto, LastSend
<1>2. /\ UNCHANGED <<interval, m_intervalMs, m_scheduledSend, cleared, received, made, op, calls>>
      /\ m_isScheduled' \in BOOLEAN /\ m_isStarted' = FALSE
      /\ pc["caller"] \in {"stop", "unschedule", "cancel"}
      /\ \/ status' = status
         \/ status' = [a \in Tasks |-> IF a = m_scheduledSend /\ status[a] = "queued" THEN "free" ELSE status[a]]
  <2>1. CASE Stop
    BY <2>1, Zenon DEF Stop, SInv, TypeOK
  <2>2. CASE Unschedule
    BY <2>2, Zenon DEF Unschedule, SInv, TypeOK, Stopping
  <2>3. CASE CancelTask
    BY <2>3, Zenon DEF CancelTask, SInv, TypeOK, Stopping, sendVars
  <2> QED
    BY <2>1, <2>2, <2>3, Zenon
<1>3. /\ pc' \in [Actors -> Places] /\ \A u \in Actors : pc'[u] = IF u = "caller" THEN where ELSE pc[u]
      /\ status' \in [Tasks -> {"free", "queued", "running"}]
      /\ \A a \in Tasks : /\ status'[a] = "running" <=> status[a] = "running"
                          /\ status[a] = "free" => status'[a] = "free"
  BY <1>1, <1>2, ActorFacts, Zenon DEF SInv, TypeOK, Places
<1>4. TypeOK'
  BY <1>2, <1>3, Zenon DEF SInv, TypeOK
<1>5. Running'
  BY <1>1, <1>2, <1>3, ActorFacts, Zenon DEF SInv, Running, Actors
<1>6. op \notin {"new", "start"}
  BY <1>2, Zenon DEF SInv, Stopping
<1> QED
  BY <1>2, <1>4, <1>5, <1>6, Zenon DEF SInv, Starting, Stopping, Scheduled

\* The caller returns.
LEMMA CallerEnd_SInv ==
    ASSUME SInv, CallerEnd
    PROVE  SInv'
<1> DEFINE where == IF op = "finish" THEN "stop" ELSE "idle"
<1>1. /\ pc["caller"] = "end" /\ pc' = [pc EXCEPT !["caller"] = where]
      /\ m_isStarted' = (m_isStarted \/ op = "start")
      /\ op' = CASE op = "finish" -> "stop" [] op = "stop" -> "down" [] OTHER -> "up"
      /\ UNCHANGED <<interval, m_intervalMs, m_isScheduled, m_scheduledSend, cleared, received,
                     status, made, calls>>
  BY Zenon DEF CallerEnd, Goto
<1>2. where \in {"stop", "idle"} /\ (where = "stop" => op = "finish")
  BY Zenon
<1> HIDE DEF where
<1>3. /\ op' \in {"up", "stop", "down"}
      /\ op = "finish" => op' = "stop"
      /\ op \in {"new", "start", "up", "cleanup"} => op' = "up"
  BY <1>1, Zenon DEF SInv, TypeOK
<1>4. pc' \in [Actors -> Places] /\ \A u \in Actors : pc'[u] = IF u = "caller" THEN where ELSE pc[u]
  BY <1>1, <1>2, ActorFacts, Zenon DEF SInv, TypeOK, Places
<1>5. TypeOK'
  BY <1>1, <1>3, <1>4, Zenon DEF SInv, TypeOK
<1>6. Pending' = Pending
  BY <1>1, <1>2, ActorFacts, SamePending, Zenon DEF SInv
<1>7. Starting' /\ Running'
  BY <1>1, <1>2, <1>3, <1>4, ActorFacts, Zenon DEF SInv, Starting, Running
<1>8. CASE op = "start"
  <2>1. Pending = {} /\ (cleared => ~m_isScheduled)
    BY <1>8, Zenon DEF SInv, Starting, Pending
  <2>2. Stopping'
    BY <1>2, <1>3, <1>4, <1>8, ActorFacts, Zenon DEF Stopping
  <2>3. Scheduled'
    BY <1>1, <1>6, <2>1, Zenon DEF Scheduled
  <2> QED
    BY <1>5, <1>7, <2>2, <2>3, Zenon DEF SInv
<1>9. CASE op # "start"
  <2>1. m_isStarted' = m_isStarted
    BY <1>1, <1>9, Zenon DEF SInv, TypeOK
  <2>2. Scheduled'
    BY <1>1, <1>6, <2>1 DEF SInv, Scheduled
  <2>3. m_isStarted => op \in {"up", "cleanup"}
    BY <1>1, Zenon DEF SInv, Stopping
  <2>4. Stopping'
    BY <1>2, <1>3, <1>4, <2>1, <2>3, ActorFacts, Zenon DEF Stopping
  <2> QED
    BY <1>5, <1>7, <2>2, <2>4, Zenon DEF SInv
<1> QED
  BY <1>8, <1>9, Zenon

\* The worker takes the task and, at its end, deletes it.
LEMMA Worker_SInv ==
    ASSUME SInv, RunTask \/ WorkerEnd
    PROVE  SInv'
<1>1. UNCHANGED <<interval, m_intervalMs, m_isStarted, m_isScheduled, m_scheduledSend, cleared,
                  received, made, op, calls>>
  BY Zenon DEF RunTask, WorkerEnd, sendVars
<1>2. PICK where \in {"clear", "idle"} : pc' = [pc EXCEPT !["worker"] = where]
  BY Zenon DEF RunTask, WorkerEnd, Goto
<1>3. /\ pc' \in [Actors -> Places] /\ \A u \in Actors : pc'[u] = IF u = "worker" THEN where ELSE pc[u]
      /\ pc'["caller"] = pc["caller"] /\ pc'["worker"] = where
  BY <1>2, ActorFacts, Zenon DEF SInv, TypeOK, Places
<1>4. Stopping'
  BY <1>1, <1>3, Zenon DEF SInv, Stopping
<1>5. ASSUME status' \in [Tasks -> {"free", "queued", "running"}], Running', Pending' = Pending,
             (\A a \in Tasks : status[a] = "free") => \A a \in Tasks : status'[a] = "free"
      PROVE  SInv'
  <2>1. TypeOK'
    BY <1>1, <1>3, <1>5, Zenon DEF SInv, TypeOK
  <2>2. Starting'
    BY <1>1, <1>2, <1>3, <1>5, Zenon DEF SInv, Starting
  <2>3. Scheduled'
    BY <1>1, <1>5, Zenon DEF SInv, Scheduled
  <2> QED
    BY <1>4, <1>5, <2>1, <2>2, <2>3, Zenon DEF SInv
<1>6. CASE RunTask
  <2>1. PICK a \in Tasks : status[a] = "queued" /\ status' = [status EXCEPT ![a] = "running"]
    BY <1>6, Zenon DEF RunTask
  <2>2. pc["worker"] = "idle" /\ pc'["worker"] = "clear" /\ \A b \in Tasks : status[b] # "running"
    BY <1>6, ActorFacts, Zenon DEF RunTask, Goto, SInv, Running, TypeOK
  <2>3. /\ status' \in [Tasks -> {"free", "queued", "running"}]
        /\ \A b \in Tasks : status'[b] = IF b = a THEN "running" ELSE status[b]
    BY <2>1, Zenon DEF SInv, TypeOK
  <2>4. Running'
    BY <2>2, <2>3, Zenon DEF Running
  <2>5. Pending' = Pending
    <3>1. \A u \in Actors : pc'[u] = "queue" <=> pc[u] = "queue"
      BY <1>2, <1>3, <2>2, Zenon
    <3>2. \A b \in Tasks : status'[b] = "queued" \/ status'[b] = "running" <=> status[b] = "queued"
      BY <2>1, <2>2, <2>3, Zenon
    <3> QED
      BY <2>2, <3>1, <3>2, Zenon DEF Pending
  <2> QED
    BY <1>5, <2>1, <2>3, <2>4, <2>5, Zenon
<1>7. CASE WorkerEnd
  <2>1. /\ pc["worker"] = "end" /\ pc'["worker"] = "idle"
        /\ status' = [a \in Tasks |-> IF status[a] = "running" THEN "free" ELSE status[a]]
    BY <1>7, ActorFacts, Zenon DEF WorkerEnd, Goto, SInv, TypeOK
  <2>2. /\ status' \in [Tasks -> {"free", "queued", "running"}]
        /\ \A b \in Tasks : status'[b] = IF status[b] = "running" THEN "free" ELSE status[b]
    BY <2>1, Zenon DEF SInv, TypeOK
  <2>3. Running'
    BY <2>1, <2>2, Zenon DEF Running
  <2>4. Pending' = Pending
    <3>1. \A u \in Actors : pc'[u] = "queue" <=> pc[u] = "queue"
      BY <1>2, <1>3, <2>1, Zenon
    <3>2. \A b \in Tasks : status'[b] = "queued" <=> status[b] = "queued"
      BY <2>2, Zenon
    <3> QED
      BY <2>1, <3>1, <3>2, Zenon DEF Pending
  <2> QED
    BY <1>5, <2>2, <2>3, <2>4, Zenon
<1> QED
  BY <1>6, <1>7, Zenon

\* Initially there is no task.
LEMMA Init_SInv == Init => SInv
<1> SUFFICES ASSUME Init PROVE SInv
  BY Zenon
<1>1. TypeOK
  <2>1. 0 \in 0..MaxCalls
    BY ActorFacts
  <2> QED
    BY <2>1, ActorFacts, Zenon DEF Init, TypeOK, Places
<1>2. pc["caller"] = "idle" /\ pc["worker"] = "idle"
  BY ActorFacts, Zenon DEF Init
<1> QED
  BY <1>1, <1>2, ActorFacts, Zenon DEF Init, SInv, Starting, Stopping, Running, Scheduled

\* Every step keeps the invariant.
LEMMA Next_SInv == SInv /\ [Next]_vars => SInv'
<1> SUFFICES ASSUME SInv, [Next]_vars PROVE SInv'
  BY Zenon
<1>1. CASE \E t \in Actors : scheduleSend(t) \/ send(t) \/ Notify(t)
  <2>1. PICK t \in Actors : scheduleSend(t) \/ send(t) \/ Notify(t)
    BY <1>1, Zenon
  <2> QED
    BY <2>1, ReadStarted_SInv, Exchange_SInv, ScheduleTask_SInv, Quiet_SInv, Clear_SInv, Zenon
       DEF scheduleSend, send
<1>2. CASE handleOnStart \/ Cleanup \/ Finish
  BY <1>2, Begin_SInv, Zenon
<1>3. CASE Stop \/ Unschedule \/ CancelTask
  BY <1>3, Stop_SInv, Zenon
<1>4. CASE CallerEnd
  BY <1>4, CallerEnd_SInv, Zenon
<1>5. CASE RunTask \/ WorkerEnd
  BY <1>5, Worker_SInv, Zenon
<1>6. CASE SetInterval
  <2>1. /\ UNCHANGED <<m_intervalMs, m_isStarted, m_isScheduled, m_scheduledSend, cleared, received,
                       status, pc, made, op>>
        /\ calls' = calls + 1 /\ calls < MaxCalls /\ interval' = 1 - interval
    BY <1>6, Zenon DEF SetInterval
  <2>2. TypeOK'
    BY <2>1, ActorFacts DEF SInv, TypeOK
  <2> QED
    BY <2>1, <2>2, ZenonT(30) DEF SInv, Starting, Stopping, Running, Scheduled, Pending
<1>7. CASE UNCHANGED vars
  <2>1. UNCHANGED <<interval, m_intervalMs, m_isStarted, m_isScheduled, m_scheduledSend, cleared,
                    received, status, pc, made, op, calls>>
    BY <1>7, Zenon DEF vars, sendVars, actorVars
  <2>2. TypeOK'
    BY <2>1, Zenon DEF SInv, TypeOK
  <2>3. Starting' /\ Stopping' /\ Running'
    BY <2>1, Zenon DEF SInv, Starting, Stopping, Running
  <2> QED
    BY <2>1, <2>2, <2>3, Zenon DEF SInv, Scheduled, Pending
<1> QED
  BY <1>1, <1>2, <1>3, <1>4, <1>5, <1>6, <1>7, ActorFacts, Zenon DEF Next, Caller, Worker

\* The invariant holds in every state.
LEMMA SInvAlways == Spec => []SInv
  BY Init_SInv, Next_SInv, PTL DEF Spec

\* For any number of tasks and calls, the variables of Statistics hold values of their types: the
\* counter of received events stays a natural number.
THEOREM TypeCorrect == Spec => []TypeOK
<1>1. SInv => TypeOK
  BY Zenon DEF SInv
<1> QED
  BY <1>1, SInvAlways, PTL

\* While the system runs no two tasks wait to send the statistics, whichever threads are in
\* scheduleSend: the exchange of m_isScheduled lets only one of them through.
THEOREM AlwaysOneSend == Spec => []AtMostOneSend
<1>1. SInv => AtMostOneSend
  BY Zenon DEF SInv, Scheduled, AtMostOneSend
<1> QED
  BY <1>1, SInvAlways, PTL

\* While the system runs m_isScheduled, once written, is set exactly as long as a task waits to
\* send the statistics.
THEOREM FlagAlwaysHasTask == Spec => []FlagHasTask
<1>1. SInv => FlagHasTask
  BY Zenon DEF SInv, Scheduled, FlagHasTask, TypeOK
<1> QED
  BY <1>1, SInvAlways, PTL
=============================================================================
