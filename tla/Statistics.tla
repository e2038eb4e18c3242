----------------------------- MODULE Statistics -----------------------------
(* When the SDK sends its statistics (lib/stats/Statistics.cpp).  Whatever  *)
(* the pipeline tells Statistics is counted, and schedules a task that      *)
(* sends the counts; each event sent for it goes through the same pipeline. *)
(*                                                                          *)
(* Two actors: the dispatcher's worker thread, and the caller, who has      *)
(* LogManagerImpl's m_lock: it starts the system, logs, deletes data and    *)
(* stops the system.  A step ends where another actor can see or change     *)
(* what is read next.                                                       *)
(*                                                                          *)
(* Of MetaStats' counters only recordStats.received decides what is sent;   *)
(* the others, and those for each tenant, are left out.                     *)
EXTENDS Integers

CONSTANTS
    Tasks, NoTask,          \* memory for task objects
    MaxCalls                \* bound on notifications, deletions and changes of the interval

Actors == {"caller", "worker"}

\* Memory is neither a thread nor nothing.
ASSUME TaskAssumption == NoTask \notin Tasks /\ Tasks \cap Actors = {} /\ MaxCalls \in Nat

VARIABLES
    interval,               \* GetMetaStatsSendIntervalSec, which the application may change
    m_intervalMs,
    m_isStarted,
    m_isScheduled,
    m_scheduledSend,        \* the task DeferredCallbackHandle points to, alive or not
    received,               \* events counted since the last report
    status,                 \* of each task: "free", "queued" or "running"
    pc,                     \* what each actor does next
    made,                   \* the task it has just queued
    op,                     \* what the caller was asked to do
    calls,
    cleared                 \* history: send has written m_isScheduled, which no constructor does

sendVars == <<interval, m_intervalMs, m_isStarted, m_isScheduled, m_scheduledSend, cleared>>
actorVars == <<pc, made, op, calls>>
vars == <<sendVars, received, status, actorVars>>

\* The constructor: m_isScheduled has no initial value.
Init ==
    /\ interval \in {0, 1}
    /\ m_intervalMs = interval
    /\ m_isStarted = FALSE
    /\ m_isScheduled \in BOOLEAN
    /\ m_scheduledSend = NoTask
    /\ received = 0
    /\ status = [a \in Tasks |-> "free"]
    /\ pc = [t \in Actors |-> "idle"]
    /\ made = [t \in Actors |-> NoTask]
    /\ op = "new"
    /\ calls = 0
    /\ cleared = FALSE

Goto(t, where) == pc' = [pc EXCEPT ![t] = where]

-----------------------------------------------------------------------------
(* scheduleSend *)

\* Mutant: whether the system was started is not looked at.
ReadStarted_Not(t) ==
    /\ pc[t] = "flag"
    /\ Goto(t, "exchange")
    /\ UNCHANGED <<sendVars, received, status, made, op, calls>>

ReadStarted(t) ==
    /\ pc[t] = "flag"
    /\ Goto(t, IF m_isStarted THEN "exchange" ELSE "end")
    /\ UNCHANGED <<sendVars, received, status, made, op, calls>>

\* Mutant: the flag is read here and set when the task is queued.
Exchange_Late(t) ==
    /\ pc[t] = "exchange"
    /\ m_intervalMs' = interval
    /\ IF interval = 0 \/ m_isScheduled THEN Goto(t, "end") ELSE Goto(t, "queue")
    /\ UNCHANGED <<interval, m_isStarted, m_isScheduled, m_scheduledSend, cleared, received,
                   status, made, op, calls>>

\* Mutant: the flag is set before the interval is looked at.
Exchange_First(t) ==
    /\ pc[t] = "exchange"
    /\ m_intervalMs' = interval
    /\ m_isScheduled' = TRUE
    /\ Goto(t, IF interval = 0 \/ m_isScheduled THEN "end" ELSE "queue")
    /\ UNCHANGED <<interval, m_isStarted, m_scheduledSend, cleared, received, status,
                   made, op, calls>>

\* The interval is read, written and tested as one: only this module writes m_intervalMs, with
\* what the configuration says at that time.
Exchange(t) ==
    /\ pc[t] = "exchange"
    /\ m_intervalMs' = interval
    /\ IF interval = 0
       THEN Goto(t, "end") /\ UNCHANGED m_isScheduled
       ELSE /\ m_isScheduled' = TRUE
            /\ Goto(t, IF m_isScheduled THEN "end" ELSE "queue")
    /\ UNCHANGED <<interval, m_isStarted, m_scheduledSend, cleared, received, status,
                   made, op, calls>>

\* PAL::scheduleTask: the worker may run the task from here on ...
ScheduleTask(t) ==
    /\ pc[t] = "queue"
    /\ \E a \in Tasks :
          /\ status[a] = "free"
          /\ status' = [status EXCEPT ![a] = "queued"]
          /\ made' = [made EXCEPT ![t] = a]
    /\ Goto(t, "handle")
    /\ UNCHANGED <<sendVars, received, op, calls>>

\* ... although Cancel does not know it before this.
KeepHandle(t) ==
    /\ pc[t] = "handle"
    /\ m_scheduledSend' = made[t]
    /\ made' = [made EXCEPT ![t] = NoTask]
    /\ Goto(t, "end")
    /\ UNCHANGED <<interval, m_intervalMs, m_isStarted, m_isScheduled, cleared, received, status,
                   op, calls>>

scheduleSend(t) == ReadStarted(t) \/ Exchange(t) \/ ScheduleTask(t) \/ KeepHandle(t)

-----------------------------------------------------------------------------
(* send *)

Kind(t) ==
    IF t = "worker" THEN "ONGOING" ELSE IF op = "start" THEN "START" ELSE "STOP"

\* Mutant: m_isScheduled is not cleared.
Clear_Not(t) ==
    /\ pc[t] = "clear"
    /\ cleared' = TRUE
    /\ m_intervalMs' = interval
    /\ Goto(t, IF interval = 0 THEN "end" ELSE "roll")
    /\ UNCHANGED <<interval, m_isStarted, m_isScheduled, m_scheduledSend, received, status, made, op, calls>>

Clear(t) ==
    /\ pc[t] = "clear"
    /\ m_isScheduled' = FALSE
    /\ cleared' = TRUE
    /\ m_intervalMs' = interval
    /\ Goto(t, IF interval = 0 THEN "end" ELSE "roll")
    /\ UNCHANGED <<interval, m_isStarted, m_scheduledSend, received, status, made, op, calls>>

\* MetaStats::hasStatsDataAvailable
hasStatsDataAvailable == received > 0

\* generateStatsEvent, with m_metaStats_mtx: the counters are reset if there is something to send.
Generate(t) ==
    /\ pc[t] = "roll"
    /\ IF hasStatsDataAvailable \/ Kind(t) # "ONGOING"
       THEN received' = 0 /\ Goto(t, "event")
       ELSE UNCHANGED received /\ Goto(t, "end")
    /\ UNCHANGED <<sendVars, status, made, op, calls>>

\* sendEvent: the event is stored or not, of which Statistics is told like of any other; one that
\* cannot be decorated, or is too large, does not get so far.
SendEvent(t) ==
    /\ pc[t] = "event"
    /\ \/ received' \in {received, received + 1} /\ Goto(t, "flag")
       \/ UNCHANGED received /\ Goto(t, "end")
    /\ UNCHANGED <<sendVars, status, made, op, calls>>

send(t) == Clear(t) \/ Generate(t) \/ SendEvent(t)

-----------------------------------------------------------------------------
(* The pipeline's notifications *)

\* An event is stored, or it cannot be, records are trimmed or dropped, and packages are sent and
\* answered: the first is counted as received, and all of them schedule a send.
Notify(t) ==
    /\ pc[t] = "idle"
    /\ op = "up" \/ (t = "worker" /\ op # "new")
    /\ calls < MaxCalls
    /\ calls' = calls + 1
    /\ received' \in {received, received + 1}
    /\ Goto(t, "flag")
    /\ UNCHANGED <<sendVars, status, made, op>>

-----------------------------------------------------------------------------
(* Start and stop *)

handleOnStart ==
    /\ op = "new"
    /\ op' = "start"
    /\ Goto("caller", IF m_intervalMs # 0 THEN "clear" ELSE "end")
    /\ UNCHANGED <<sendVars, received, status, made, calls>>

\* allUploadsFinished, from tpm.cleanup when data is deleted, after which the system goes on ...
Cleanup ==
    /\ pc["caller"] = "idle"
    /\ op = "up"
    /\ calls < MaxCalls
    /\ calls' = calls + 1
    /\ op' = "cleanup"
    /\ Goto("caller", "stop")
    /\ UNCHANGED <<sendVars, received, status, made>>

\* ... and from tpm.finishAllUploads and again from tpm.stop when the system is stopped.
Finish ==
    /\ pc["caller"] = "idle"
    /\ op = "up"
    /\ op' = "finish"
    /\ Goto("caller", "stop")
    /\ UNCHANGED <<sendVars, received, status, made, calls>>

\* handleOnStop
Stop ==
    /\ pc["caller"] = "stop"
    /\ m_isStarted' = FALSE
    /\ Goto("caller", "unschedule")
    /\ UNCHANGED <<interval, m_intervalMs, m_isScheduled, m_scheduledSend, cleared, received,
                   status, made, op, calls>>

\* A last event is sent if the statistics are enabled.
LastSend == IF m_intervalMs # 0 THEN "clear" ELSE "end"

Unschedule ==
    /\ pc["caller"] = "unschedule"
    /\ m_isScheduled' = FALSE
    /\ Goto("caller", IF m_isScheduled THEN "cancel" ELSE LastSend)
    /\ UNCHANGED <<interval, m_intervalMs, m_isStarted, m_scheduledSend, cleared, received,
                   status, made, op, calls>>

\* DeferredCallbackHandle::Cancel with no time to wait: a queued task is deleted, one that runs or
\* has been deleted is left alone.
CancelTask ==
    /\ pc["caller"] = "cancel"
    /\ status' = [a \in Tasks |-> IF a = m_scheduledSend /\ status[a] = "queued" THEN "free" ELSE status[a]]
    /\ Goto("caller", LastSend)
    /\ UNCHANGED <<sendVars, received, made, op, calls>>

\* The caller returns; stop goes on from finishAllUploads to tpm.stop.
CallerEnd ==
    /\ pc["caller"] = "end"
    /\ m_isStarted' = (m_isStarted \/ op = "start")
    /\ op' = CASE op = "finish" -> "stop" [] op = "stop" -> "down" [] OTHER -> "up"
    /\ Goto("caller", IF op = "finish" THEN "stop" ELSE "idle")
    /\ UNCHANGED <<interval, m_intervalMs, m_isScheduled, m_scheduledSend, cleared, received,
                   status, made, calls>>

-----------------------------------------------------------------------------
(* The worker *)

\* The task's time has come.
RunTask ==
    /\ pc["worker"] = "idle"
    /\ \E a \in Tasks : status[a] = "queued" /\ status' = [status EXCEPT ![a] = "running"]
    /\ Goto("worker", "clear")
    /\ UNCHANGED <<sendVars, received, made, op, calls>>

\* The task is deleted, or the notification is over.
WorkerEnd ==
    /\ pc["worker"] = "end"
    /\ status' = [a \in Tasks |-> IF status[a] = "running" THEN "free" ELSE status[a]]
    /\ Goto("worker", "idle")
    /\ UNCHANGED <<sendVars, received, made, op, calls>>

\* The application changes the interval.
SetInterval ==
    /\ calls < MaxCalls
    /\ calls' = calls + 1
    /\ interval' = 1 - interval
    /\ UNCHANGED <<m_intervalMs, m_isStarted, m_isScheduled, m_scheduledSend, cleared, received,
                   status, pc, made, op>>

Caller == handleOnStart \/ Stop \/ Unschedule \/ CancelTask \/ CallerEnd \/ scheduleSend("caller") \/ send("caller")

Worker == RunTask \/ WorkerEnd \/ scheduleSend("worker") \/ send("worker")

Next == Caller \/ Worker \/ Cleanup \/ Finish \/ SetInterval \/ \E t \in Actors : Notify(t)

Spec == Init /\ [][Next]_vars

\* A call goes on, and the worker runs the tasks that are due.
FairSpec == Spec /\ WF_vars(Caller) /\ WF_vars(Worker)

-----------------------------------------------------------------------------
(* Properties *)

Places == {"idle", "flag", "exchange", "queue", "handle", "clear", "roll", "event", "end",
           "stop", "unschedule", "cancel"}

\* The variables hold values of their types.
TypeOK ==
    /\ interval \in {0, 1} /\ m_intervalMs \in {0, 1}
    /\ m_isStarted \in BOOLEAN /\ m_isScheduled \in BOOLEAN /\ cleared \in BOOLEAN
    /\ m_scheduledSend \in Tasks \cup {NoTask}
    /\ status \in [Tasks -> {"free", "queued", "running"}]
    /\ pc \in [Actors -> Places]
    /\ received \in Nat
    /\ made \in [Actors -> Tasks \cup {NoTask}]
    /\ op \in {"new", "start", "up", "cleanup", "finish", "stop", "down"}
    /\ calls \in 0..MaxCalls

\* Who stands for the next send: a task that waits, has just started or is being made.
Pending ==
    {a \in Tasks : status[a] = "queued" \/ (status[a] = "running" /\ pc["worker"] = "clear")}
    \cup {t \in Actors : pc[t] = "queue"}

\* While the system runs no second task is made to send the statistics as long as there is one,
\* whichever threads schedule it.
AtMostOneSend == m_isStarted => \A x, y \in Pending : x = y

\* While the system runs, m_isScheduled says whether there is a task: it is not left set without
\* one, after which nothing would be sent any more.
FlagHasTask == m_isStarted /\ cleared => (m_isScheduled <=> Pending # {})

\* What is counted while the system runs is sent, unless the statistics are switched off or the
\* system is stopped (the event that send makes at the start waits for the next one).
CountedIsSent ==
    (\E t \in Actors : pc[t] = "flag") /\ received > 0 /\ m_isStarted /\ cleared
        ~> received = 0 \/ ~m_isStarted \/ interval = 0

\* Once the system is stopped the statistics come to an end: a task that handleOnStop has missed
\* runs, but no other follows it.
StopIsFinal == op = "down" ~> [](\A a \in Tasks : status[a] = "free")
=============================================================================
