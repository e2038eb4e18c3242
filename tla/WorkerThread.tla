---------------------------- MODULE WorkerThread ----------------------------
(* The task dispatcher lib/pal/WorkerThread.cpp: one thread that runs       *)
(* queued tasks, timed ones first, and lets other threads cancel them.      *)
(*                                                                          *)
(* Times are relative to the present: TargetTime[a] is how far in the       *)
(* future task a is due, and Tick lets time pass.  A task is an address     *)
(* that is used for one task only.                                          *)
EXTENDS Integers, Sequences, FiniteSets

CONSTANTS
    Tasks,                  \* addresses of tasks
    Timed,                  \* those of timed calls (scheduleTask)
    Shutdown,               \* the WorkerThreadShutdownItem
    NoTask,                 \* nullptr
    Users,                  \* the threads that use the dispatcher
    NoUser,                 \* m_lock is free
    Delays,                 \* the delays of timed tasks
    MAX_FUTURE_DELTA_MS,
    MaxDrift                \* bound: ticks between the look at the queues and the wait

ASSUME DelayAssumption ==
    /\ MAX_FUTURE_DELTA_MS \in Nat \ {0}
    /\ Delays \subseteq Nat
    /\ MaxDrift \in Nat
    /\ Timed \subseteq Tasks
    /\ NoTask \notin Tasks /\ Shutdown \notin Tasks /\ NoTask # Shutdown
    /\ NoUser \notin Users /\ "worker" \notin Users

VARIABLES
    m_lock,                 \* the user thread that keeps the lock while it waits in Cancel
    m_queue,                \* tasks without a time, and the shutdown item
    m_timerQueue,           \* timed tasks
    TargetTime,             \* time left until a task is due; -1 if overdue, 0 if deleted
    m_bFlag,                \* m_event is set
    m_itemInProgress,
    worker,                 \* where the worker thread is
    item,                   \* the task it has taken
    nextTimerInMs,          \* how long it is going to sleep, or still sleeps
    pc,                     \* where each user thread is
    arg,                    \* the task it is cancelling
    used,                   \* history: tasks that were queued
    ran,                    \* history: tasks that were started
    cancelled,              \* history: tasks whose Cancel returned true
    toWait,                 \* history: time a task has yet to wait, clamping included
    drift,                  \* history: time between the look at the queues and the wait
    owed                    \* history: tasks that were due when Join was called

queueVars == <<m_queue, m_timerQueue, TargetTime, m_bFlag>>
workerVars == <<worker, item, m_itemInProgress, nextTimerInMs, drift>>
userVars == <<m_lock, pc, arg>>
history == <<used, ran, cancelled, toWait, owed>>
vars == <<queueVars, workerVars, userVars, history>>

Elements(s) == {s[i] : i \in DOMAIN s}

Inserted(s, n, a) == SubSeq(s, 1, n) \o <<a>> \o SubSeq(s, n + 1, Len(s))

Erased(s, n) == SubSeq(s, 1, n - 1) \o SubSeq(s, n + 1, Len(s))

Least(x, y) == IF x <= y THEN x ELSE y

Init ==
    /\ m_lock = NoUser
    /\ m_queue = <<>>
    /\ m_timerQueue = <<>>
    /\ TargetTime = [a \in Tasks |-> 0]
    /\ m_bFlag = FALSE
    /\ m_itemInProgress = NoTask
    /\ worker = "pick"
    /\ item = NoTask
    /\ nextTimerInMs = 0
    /\ pc = [u \in Users |-> "idle"]
    /\ arg = [u \in Users |-> NoTask]
    /\ used = {} /\ ran = {} /\ cancelled = {}
    /\ toWait = [a \in Tasks |-> 0]
    /\ drift = 0
    /\ owed = {}

-----------------------------------------------------------------------------
(* Calls into the dispatcher.  A call needs m_lock; only a Cancel that      *)
(* waits for the running task keeps it for longer than a step.  A running   *)
(* task calls the dispatcher as well.                                       *)

Calls(t) == m_lock = NoUser /\ IF t = "worker" THEN worker = "call" ELSE pc[t] = "idle"

\* Mutant: the task goes to the end of the list.
InsertByTime_Last(s, a, time) == Append(s, a)

\* A task is inserted before the first one that is due no earlier.
InsertByTime(s, a, time) ==
    Inserted(s, CHOOSE n \in 0..Len(s) :
                   /\ \A i \in 1..n : time[s[i]] < time[a]
                   /\ n < Len(s) => time[s[n + 1]] >= time[a], a)

\* Event::post, at the end of Queue.
Post == m_bFlag' = TRUE

\* WorkerThread::Queue: a timed call by its time, anything else at the end.
Enqueue(a, delay, timers) ==
    /\ IF a \in Timed
       THEN /\ TargetTime' = [TargetTime EXCEPT ![a] = delay]
            /\ m_timerQueue' = InsertByTime(timers, a, TargetTime')
            /\ UNCHANGED m_queue
       ELSE /\ m_queue' = Append(m_queue, a)
            /\ UNCHANGED <<m_timerQueue, TargetTime>>
    /\ Post

\* scheduleTask and dispatchTask
Queue(t, a, delay) ==
    /\ Calls(t)
    /\ a \notin used
    /\ Enqueue(a, delay, m_timerQueue)
    /\ used' = used \cup {a}
    /\ toWait' = [toWait EXCEPT ![a] = Least(delay, MAX_FUTURE_DELTA_MS)]
    /\ UNCHANGED <<workerVars, userVars, ran, cancelled, owed>>

\* Cancel: a task that is not in progress leaves the timer queue, if it is there ...
Cancel_Erase(t, a) ==
    /\ Calls(t)
    /\ m_itemInProgress # a
    /\ m_timerQueue' = IF a \in Elements(m_timerQueue)
                       THEN Erased(m_timerQueue, CHOOSE i \in DOMAIN m_timerQueue : m_timerQueue[i] = a)
                       ELSE m_timerQueue
    /\ TargetTime' = [TargetTime EXCEPT ![a] = 0]
    /\ cancelled' = cancelled \cup {a}
    /\ UNCHANGED <<m_queue, m_bFlag, workerVars, userVars, used, ran, toWait, owed>>

\* ... for a task in progress another thread with a wait time waits for the execution mutex,
\* with m_lock (the calls that change nothing are left out: the running task's own Cancel,
\* which returns true, and one without a wait time, which returns false) ...
Cancel_Wait(u, a) ==
    /\ Calls(u)
    /\ m_itemInProgress = a
    /\ pc' = [pc EXCEPT ![u] = "cancel"]
    /\ arg' = [arg EXCEPT ![u] = a]
    /\ m_lock' = u
    /\ UNCHANGED <<queueVars, workerVars, history>>

\* The worker holds m_execution_mutex while it runs a task and while it frees it.
Executing == worker \in {"run", "call", "free"}

\* Return from Cancel, with what it returns.
Return(u, cancels) ==
    /\ pc' = [pc EXCEPT ![u] = "idle"]
    /\ arg' = [arg EXCEPT ![u] = NoTask]
    /\ m_lock' = NoUser
    /\ cancelled' = IF cancels THEN cancelled \cup {arg[u]} ELSE cancelled
    /\ UNCHANGED <<queueVars, worker, item, nextTimerInMs, drift, used, ran, toWait, owed>>

\* ... it has the mutex: the task has ended, or the worker will skip it ...
Cancel_Acquire(u) ==
    /\ pc[u] = "cancel"
    /\ ~Executing
    /\ m_itemInProgress' = NoTask
    /\ Return(u, TRUE)

\* Mutant: the wait has no limit.
Cancel_TimeOut_Never(u) == FALSE /\ UNCHANGED vars

\* ... or it gives up.
Cancel_TimeOut(u) ==
    /\ pc[u] = "cancel"
    /\ Executing
    /\ Return(u, m_itemInProgress # arg[u])
    /\ UNCHANGED m_itemInProgress

Cancel(t) ==
    \/ \E a \in used \cap Timed :
          \/ Cancel_Erase(t, a)
          \/ t \in Users /\ Cancel_Wait(t, a)
    \/ t \in Users /\ (Cancel_Acquire(t) \/ Cancel_TimeOut(t))

\* What has to run before the thread ends.
Due == Elements(m_queue) \cup {a \in Elements(m_timerQueue) : TargetTime[a] <= 0}

\* Join queues the shutdown item; the worker itself, in a task, is detached and goes on ...
Join_Queue(t) ==
    /\ Calls(t)
    /\ Shutdown \notin Elements(m_queue) /\ item # Shutdown /\ worker # "exit"
    /\ Enqueue(Shutdown, 0, m_timerQueue)
    /\ owed' = Due
    /\ pc' = IF t = "worker" THEN pc ELSE [pc EXCEPT ![t] = "join"]
    /\ UNCHANGED <<workerVars, m_lock, arg, used, ran, cancelled, toWait>>

\* ... another thread waits for its end.
Join_Return(u) ==
    /\ pc[u] = "join"
    /\ worker = "exit"
    /\ pc' = [pc EXCEPT ![u] = "joined"]
    /\ UNCHANGED <<queueVars, workerVars, m_lock, arg, history>>

-----------------------------------------------------------------------------
(* threadFunc *)

\* Take a task: out of its queue, in progress.
Take(a) ==
    /\ item' = a
    /\ m_itemInProgress' = a
    /\ worker' = "begin"
    /\ UNCHANGED <<nextTimerInMs, drift, history>>

\* Whether the first timed task is due, and how far in the future it is.
FrontIsDue == m_timerQueue # <<>> /\ TargetTime[Head(m_timerQueue)] <= 0

FrontIsFar ==
    m_timerQueue # <<>> /\ TargetTime[Head(m_timerQueue)] > MAX_FUTURE_DELTA_MS

PickTimed ==
    /\ FrontIsDue
    /\ m_timerQueue' = Tail(m_timerQueue)
    /\ Take(Head(m_timerQueue))
    /\ UNCHANGED <<m_queue, TargetTime, m_bFlag>>

\* Mutant: a task far in the future is made due now.
Clamp_Zero ==
    /\ FrontIsFar
    /\ Enqueue(Head(m_timerQueue), 0, Tail(m_timerQueue))
    /\ UNCHANGED <<workerVars, history>>

\* A task more than MAX_FUTURE_DELTA_MS ahead is queued again, that far ahead.
Clamp ==
    /\ FrontIsFar
    /\ Enqueue(Head(m_timerQueue), MAX_FUTURE_DELTA_MS, Tail(m_timerQueue))
    /\ UNCHANGED <<workerVars, history>>

\* Mutant: tasks without a time, the shutdown item among them, come first.
PickCall_First ==
    /\ m_queue # <<>>
    /\ m_queue' = Tail(m_queue)
    /\ Take(Head(m_queue))
    /\ UNCHANGED <<m_timerQueue, TargetTime, m_bFlag>>

PickCall ==
    /\ ~FrontIsDue /\ ~FrontIsFar
    /\ m_queue # <<>>
    /\ m_queue' = Tail(m_queue)
    /\ Take(Head(m_queue))
    /\ UNCHANGED <<m_timerQueue, TargetTime, m_bFlag>>

\* Nothing to do until the first timed task is due.
PickNothing ==
    /\ ~FrontIsDue /\ ~FrontIsFar
    /\ m_queue = <<>>
    /\ nextTimerInMs' = IF m_timerQueue = <<>> THEN MAX_FUTURE_DELTA_MS
                        ELSE TargetTime[Head(m_timerQueue)]
    /\ drift' = 0
    /\ worker' = "reset"
    /\ UNCHANGED <<queueVars, item, m_itemInProgress, history>>

Pick ==
    /\ worker = "pick"
    /\ m_lock = NoUser
    /\ PickTimed \/ Clamp \/ PickCall \/ PickNothing
    /\ UNCHANGED userVars

\* The worker sleeps only if nobody has set the event since it last reset it.
Reset ==
    /\ worker = "reset"
    /\ m_bFlag' = FALSE
    /\ worker' = IF m_bFlag THEN "pick" ELSE "wait"
    /\ UNCHANGED <<m_queue, m_timerQueue, TargetTime, item, m_itemInProgress, nextTimerInMs,
                   drift, userVars, history>>

\* Mutant: the wait has no time limit.
Wake_NoTimeout ==
    /\ worker = "wait"
    /\ m_bFlag
    /\ worker' = "pick"
    /\ nextTimerInMs' = 0
    /\ drift' = 0
    /\ UNCHANGED <<queueVars, item, m_itemInProgress, userVars, history>>

\* Event::wait ends when the event is set (and leaves it set) or when its time is over.
Wake ==
    /\ worker = "wait"
    /\ m_bFlag \/ nextTimerInMs = 0
    /\ worker' = "pick"
    /\ nextTimerInMs' = 0
    /\ drift' = 0
    /\ UNCHANGED <<queueVars, item, m_itemInProgress, userVars, history>>

\* The shutdown item ends the thread ...
Exit ==
    /\ worker = "begin"
    /\ item = Shutdown
    /\ worker' = "exit"
    /\ item' = NoTask
    /\ m_itemInProgress' = NoTask
    /\ UNCHANGED <<queueVars, nextTimerInMs, drift, userVars, history>>

\* Mutant: the worker runs the task without another look at m_itemInProgress.
Begin_Unchecked ==
    /\ worker = "begin"
    /\ item # Shutdown
    /\ worker' = "run" /\ ran' = ran \cup {item}
    /\ UNCHANGED <<queueVars, item, m_itemInProgress, nextTimerInMs, drift, userVars,
                   used, cancelled, toWait, owed>>

\* ... any other is run, unless Cancel came first ...
Begin ==
    /\ worker = "begin"
    /\ item # Shutdown
    /\ IF m_itemInProgress # NoTask
       THEN worker' = "run" /\ ran' = ran \cup {item}
       ELSE worker' = "free" /\ UNCHANGED ran
    /\ UNCHANGED <<queueVars, item, m_itemInProgress, nextTimerInMs, drift, userVars,
                   used, cancelled, toWait, owed>>

\* ... it calls the dispatcher, and has to wait for the lock ...
TaskCalls ==
    /\ worker = "run"
    /\ worker' = "call"
    /\ UNCHANGED <<queueVars, item, m_itemInProgress, nextTimerInMs, drift, userVars, history>>

TaskCallReturns ==
    /\ worker = "call"
    /\ m_lock = NoUser
    /\ worker' = "run"
    /\ UNCHANGED <<queueVars, item, m_itemInProgress, nextTimerInMs, drift, userVars, history>>

\* ... it returns ...
End ==
    /\ worker = "run"
    /\ m_itemInProgress' = NoTask
    /\ worker' = "free"
    /\ UNCHANGED <<queueVars, item, nextTimerInMs, drift, userVars, history>>

\* ... and is deleted.
Free ==
    /\ worker = "free"
    /\ item' = NoTask
    /\ TargetTime' = [TargetTime EXCEPT ![item] = 0]
    /\ worker' = "pick"
    /\ UNCHANGED <<m_queue, m_timerQueue, m_bFlag, m_itemInProgress, nextTimerInMs, drift, userVars, history>>

WorkerStep ==
    \/ Pick \/ Reset \/ Wake \/ Exit
    \/ Begin \/ TaskCalls \/ TaskCallReturns \/ End \/ Free

-----------------------------------------------------------------------------
\* The monotonic clock moves on.  The wait counts from its own start, which is later than the
\* look at the queues.
Tick ==
    /\ worker = "reset" => drift < MaxDrift
    /\ TargetTime' = [a \in Tasks |->
          IF a \in Elements(m_timerQueue) /\ TargetTime[a] >= 0 THEN TargetTime[a] - 1
          ELSE TargetTime[a]]
    /\ toWait' = [a \in Tasks |-> IF toWait[a] > 0 THEN toWait[a] - 1 ELSE 0]
    /\ nextTimerInMs' = IF worker = "wait" /\ nextTimerInMs > 0 THEN nextTimerInMs - 1
                        ELSE nextTimerInMs
    /\ drift' = IF worker = "reset" THEN drift + 1 ELSE drift
    /\ UNCHANGED <<m_queue, m_timerQueue, m_bFlag, worker, item, m_itemInProgress, userVars,
                   used, ran, cancelled, owed>>

\* A call: of an application thread, or of the task that runs.
Call(t) ==
    \/ \E a \in Timed : \E d \in Delays : Queue(t, a, d)
    \/ \E a \in Tasks \ Timed : Queue(t, a, 0)
    \/ Cancel(t)
    \/ Join_Queue(t)

Next ==
    \/ WorkerStep
    \/ Tick
    \/ \E t \in Users \cup {"worker"} : Call(t)
    \/ \E u \in Users : Join_Return(u)

Spec == Init /\ [][Next]_vars

\* The worker thread and the clock run, a task returns, and a thread that waits in Cancel gets
\* the mutex or gives up.  The lock goes to each thread that asks for it again and again.
FairSpec ==
    /\ Spec
    /\ SF_vars(Pick)
    /\ SF_vars(TaskCallReturns)
    /\ SF_vars(End)
    /\ WF_vars(Reset \/ Wake \/ Exit \/ Begin \/ Free)
    /\ WF_vars(Tick)
    /\ \A u \in Users : WF_vars(Cancel_Acquire(u) \/ Cancel_TimeOut(u) \/ Join_Return(u))

-----------------------------------------------------------------------------
(* Properties *)

\* Type correctness of the queues, the clock values and the threads' positions.
TypeOK ==
    /\ m_lock \in Users \cup {NoUser}
    /\ m_queue \in Seq(Tasks \cup {Shutdown})
    /\ m_timerQueue \in Seq(Timed)
    /\ TargetTime \in [Tasks -> Int]
    /\ m_bFlag \in BOOLEAN
    /\ m_itemInProgress \in Tasks \cup {NoTask, Shutdown}
    /\ worker \in {"pick", "reset", "wait", "begin", "run", "call", "free", "exit"}
    /\ item \in Tasks \cup {NoTask, Shutdown}
    /\ nextTimerInMs \in 0..MAX_FUTURE_DELTA_MS
    /\ pc \in [Users -> {"idle", "cancel", "join", "joined"}]
    /\ arg \in [Users -> Timed \cup {NoTask}]
    /\ used \subseteq Tasks /\ ran \subseteq used /\ cancelled \subseteq used \cap Timed
    /\ toWait \in [Tasks -> Nat]
    /\ drift \in 0..MaxDrift
    /\ owed \subseteq used

\* Once Cancel has returned true to a thread, the task it cancelled is neither running nor
\* can it be started any more: it is in no queue, and if the worker has already taken it,
\* threadFunc will find m_itemInProgress cleared.
CancelledStaysIdle ==
    \A a \in cancelled :
        /\ a \notin Elements(m_timerQueue)
        /\ item = a => worker \notin {"run", "call"} /\ m_itemInProgress # a

\* The worker does not sleep while there is something to do, and not past the time the next
\* task is due (but for the time between its look at the queues and its wait): whatever was
\* queued behind its back has set the event.
SleepEndsInTime ==
    worker = "wait" /\ nextTimerInMs > 0 =>
        \/ m_bFlag
        \/ /\ m_queue = <<>>
           /\ \A a \in Elements(m_timerQueue) : TargetTime[a] + drift >= nextTimerInMs

\* A task is not started before its delay is over, or MAX_FUTURE_DELTA_MS if that is less.
NotEarly == worker \in {"run", "call"} => toWait[item] = 0

\* When the thread ends after Join, every task that was due when Join was called has been
\* started or cancelled: the shutdown item is behind them.
JoinRunsDueTasks == worker = "exit" => owed \subseteq ran \cup cancelled

\* Cancel and Join return, although Cancel keeps the lock from the task it waits for.
CallsReturn == \A u \in Users : pc[u] \in {"cancel", "join"} ~> pc[u] \in {"idle", "joined"}

-----------------------------------------------------------------------------
(* The dispatcher does what ITaskDispatcher promises. *)

\* What has become of a task.
Status(a) ==
    IF a \notin used THEN "new"
    ELSE IF a \in ran THEN IF worker \in {"run", "call"} /\ item = a THEN "running" ELSE "done"
    ELSE IF a \in cancelled THEN "cancelled"
    ELSE "queued"

Promise == INSTANCE TaskDispatcher WITH
    status <- [a \in Tasks |-> Status(a)], told <- cancelled, stopped <- worker = "exit"

\* Seen through the interface, threadFunc, Queue, Cancel and Join take only the steps
\* TaskDispatcher allows, each at once, and eventually those it has to take.
Dispatches == Promise!FairSpec
=============================================================================
