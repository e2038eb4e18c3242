----------------------- MODULE TransmissionPolicyManager -----------------------
(***************************************************************************)
(* The upload scheduler of the SDK (lib/tpm/TransmissionPolicyManager.cpp) *)
(* together with what it is driven by: the telemetry system's start,       *)
(* pause, resume, upload, cleanup and stop sequences                       *)
(* (lib/system/TelemetrySystem.cpp), the HTTP client manager's callback    *)
(* list (lib/http/HttpClientManager.cpp) and the worker thread's task      *)
(* queue (lib/pal/WorkerThread.cpp, modelled in full in WorkerThread).     *)
(*                                                                         *)
(* Two threads run this code concurrently.  "user" is whichever            *)
(* application thread holds LogManagerImpl::m_lock: every API call takes   *)
(* that lock, so at most one of them is inside the system at a time.       *)
(* "worker" is the dispatcher's thread: it runs uploadAsync, the HTTP      *)
(* response handlers (the asynchronous handler, used everywhere but on     *)
(* Windows) and the Statistics task.  A step of the model is one access to *)
(* state the other thread may touch; m_scheduledUploadMutex is held over   *)
(* several steps.                                                          *)
(*                                                                         *)
(* Time is abstracted: a delay keeps its sign and whether it is zero, a    *)
(* queued task may come due at any moment, and the comparison of the       *)
(* scheduled time with now (lines 116-118) is a free choice.  Events stand *)
(* for stored records: they are stored, taken by an upload, and deleted or *)
(* released with its outcome.                                              *)
(***************************************************************************)
EXTENDS Integers, FiniteSets

CONSTANTS
    Events,         \* telemetry events that can be logged
    Latency,        \* the latency class of each event
    Tasks,          \* heap addresses of upload tasks
    NoTask,         \* the null task pointer
    Uploads,        \* EventsUploadContext objects
    NoUpload,       \* no upload context
    MaxPendingReq,  \* CFG_INT_MAX_PENDING_REQ
    Profiles,       \* timer pairs <<Normal, RealTime>> the active profile can yield
    MaxQueued,      \* bound: no pause or cleanup begins with more upload tasks queued
    Ops,            \* which API calls and background activities happen
    CancelTimesOut, \* whether the cancellation wait of handleStop is bounded
    HeapReuses      \* whether a response task may get the address of a finished upload task

EventLatency_Normal == 1
EventLatency_RealTime == 3
EventLatency_Max == 4

ASSUME ConstantsOK ==
    /\ Latency \in [Events -> {EventLatency_Normal, EventLatency_RealTime, EventLatency_Max}]
    /\ NoTask \notin Tasks
    /\ NoUpload \notin Uploads
    /\ MaxPendingReq \in Nat
    /\ MaxQueued \in Nat
    /\ Profiles \subseteq Int \X Int
    /\ CancelTimesOut \in BOOLEAN
    /\ HeapReuses \in BOOLEAN

VARIABLES
    m_isPaused, m_isUploadScheduled, m_scheduledUploadAborted,
    m_runningLatency, m_timerdelay, m_timers, m_activeUploads,
    m_scheduledUpload,      \* the DeferredCallbackHandle: a task address or NoTask
    mutex,                  \* the thread holding m_scheduledUploadMutex, or "none"
    profile,                \* timers of the selected rule of TransmitProfiles
    isTimerUpdated,         \* TransmitProfiles::isTimerUpdated
    queued,                 \* upload tasks in the worker thread's timer queue
    taskLatency,            \* the latency bound into each upload task
    m_itemInProgress,       \* the upload task the worker has picked, or NoTask
    stored,                 \* events in storage that no upload has reserved
    uploads,                \* the upload contexts
    m_httpCallbacks,        \* uploads with a live HttpCallback
    responding,             \* the upload whose response the worker is handling
    system,                 \* TelemetrySystemBase: "new", "started", "paused", "stopped"
    pc, arg                 \* per thread: control point and the live arguments

tpmVars == <<m_isPaused, m_isUploadScheduled, m_scheduledUploadAborted, m_runningLatency,
             m_timerdelay, m_timers, m_activeUploads, m_scheduledUpload, mutex>>
profileVars == <<profile, isTimerUpdated>>
taskVars == <<queued, taskLatency, m_itemInProgress>>
httpVars == <<m_httpCallbacks, responding>>
vars == <<tpmVars, profileVars, taskVars, stored, uploads, httpVars, system, pc, arg>>

Threads == {"user", "worker"}

HandleStartDelay == 1       \* std::chrono::seconds{1}
InitialTimerDelay == 2      \* std::chrono::seconds{2}
BackoffDelay == 3           \* some positive delay

NoArg(t) == [ctx |-> NoUpload, delay |-> 0, lat |-> EventLatency_Normal, force |-> FALSE,
             task |-> NoTask, cont |-> IF t = "worker" THEN "w_end" ELSE "idle"]

FreeUpload == [st |-> "free", min |-> EventLatency_Normal, events |-> {}, res |-> "none",
               task |-> NoTask]

-----------------------------------------------------------------------------
(* Control of one thread. *)

Goto(t, label) == pc' = [pc EXCEPT ![t] = label]

\* The current handler returns to its caller.
Return(t) ==
    /\ pc' = [pc EXCEPT ![t] = arg[t].cont]
    /\ arg' = [arg EXCEPT ![t] = NoArg(t)]

\* Enter scheduleUpload(delay, latency, force), always a tail call.
CallSchedule(t, delay, lat, force) ==
    /\ Goto(t, "su_lock")
    /\ arg' = [arg EXCEPT ![t] = [@ EXCEPT !.delay = delay, !.lat = lat, !.force = force]]

\* Enter finishUpload(ctx, next).
CallFinish(t, c, next) ==
    /\ Goto(t, "finish")
    /\ arg' = [arg EXCEPT ![t] = [@ EXCEPT !.ctx = c, !.delay = next]]

ReleaseAndReturn(t) == mutex' = "none" /\ Return(t)

\* While handleStop waits inside WorkerThread::Cancel it holds the worker thread's m_lock.
DispatcherFree == pc["user"] # "st_wait"

-----------------------------------------------------------------------------
(* Timers and latency. *)

\* updateTimersIfNecessary: the new value of m_timers; the flag is consumed with it.
UpdatedTimers == IF isTimerUpdated THEN profile ELSE m_timers

UpdateTimersIfNecessary ==
    /\ m_timers' = UpdatedTimers
    /\ isTimerUpdated' = FALSE
    /\ UNCHANGED profile

\* calculateNewPriority, for timers that are up to date.
NewPriority(timers) ==
    IF timers[1] = timers[2] THEN EventLatency_Normal
    ELSE IF timers[1] < 0 THEN EventLatency_RealTime
    ELSE IF m_runningLatency = EventLatency_RealTime THEN EventLatency_Normal
    ELSE EventLatency_RealTime

\* Mutant: the profile's negative first timer is ignored.
AllowedLatency_Any(lat) == lat

\* Low priority may be disabled by the profile (lines 104-107).
AllowedLatency(lat) ==
    IF UpdatedTimers[1] < 0 /\ lat < EventLatency_RealTime THEN EventLatency_RealTime ELSE lat

-----------------------------------------------------------------------------
(* cancelUploadTask *)

\* Mutant: a task that was erased from the queue counts as not cancelled.
CancelFails_NotFound(t) == m_scheduledUpload # NoTask /\ t = "user"

\* WorkerThread::Cancel without a wait fails when the task is running, or about to, and the
\* caller is another thread.
CancelFails(t) == m_scheduledUpload # NoTask /\ m_itemInProgress = m_scheduledUpload /\ t = "user"

\* Mutant: the task stays in the queue.
EraseScheduled_NotErased == UNCHANGED <<queued, uploads>>

\* The queue forgets whatever task lives at the handle's address: the upload task, or, once
\* that one is freed, a response task that got its address.
EraseScheduled ==
    /\ queued' = queued \ {m_scheduledUpload}
    /\ uploads' = [c \in Uploads |->
                     IF /\ uploads[c].st = "answered"
                        /\ uploads[c].task # NoTask
                        /\ uploads[c].task = m_scheduledUpload
                     THEN [uploads[c] EXCEPT !.st = "lost", !.task = NoTask] ELSE uploads[c]]

\* The addresses of task objects that have not been deleted.
LiveTasks ==
    queued \cup {m_itemInProgress} \cup {uploads[c].task : c \in Uploads}

\* Two steps: the cancellation itself, then, if it succeeded, the reset of
\* m_isUploadScheduled.  Nothing but the caller's own lock, if any, joins them.
CancelUploadTask(t, cancel, clear, next) ==
    \/ /\ pc[t] = cancel
       /\ DispatcherFree
       /\ EraseScheduled
       /\ Goto(t, IF CancelFails(t) THEN next ELSE clear)
       /\ UNCHANGED <<tpmVars, profileVars, taskLatency, m_itemInProgress, stored, httpVars,
                      system, arg>>
    \/ /\ pc[t] = clear
       /\ m_isUploadScheduled' = FALSE
       /\ Goto(t, next)
       /\ UNCHANGED <<m_isPaused, m_scheduledUploadAborted, m_runningLatency, m_timerdelay,
                      m_timers, m_activeUploads, m_scheduledUpload, mutex,
                      profileVars, taskVars, stored, uploads, httpVars, system, arg>>

-----------------------------------------------------------------------------
(* scheduleUpload *)

\* Mutant: one request too many.
AtPendingLimit_OffByOne == Cardinality(m_activeUploads) > MaxPendingReq

\* Mutant: one request too few.
AtPendingLimit_OneLess == Cardinality(m_activeUploads) + 1 >= MaxPendingReq

\* uploadCount() against the configured maximum.
AtPendingLimit == Cardinality(m_activeUploads) >= MaxPendingReq

\* Take the mutex; the early returns of lines 82-102.
ScheduleUpload_Lock(t) ==
    /\ pc[t] = "su_lock"
    /\ mutex = "none"
    /\ \/ /\ \/ arg[t].delay < 0
             \/ m_timerdelay < 0
             \/ m_scheduledUploadAborted
             \/ AtPendingLimit
             \/ m_isPaused
          /\ Return(t)
          /\ UNCHANGED mutex
       \/ /\ arg[t].delay >= 0
          /\ m_timerdelay >= 0
          /\ ~m_scheduledUploadAborted
          /\ ~AtPendingLimit
          /\ ~m_isPaused
          /\ mutex' = t
          /\ Goto(t, "su_timers")
          /\ UNCHANGED arg
    /\ UNCHANGED <<m_isPaused, m_isUploadScheduled, m_scheduledUploadAborted, m_runningLatency,
                   m_timerdelay, m_timers, m_activeUploads, m_scheduledUpload,
                   profileVars, taskVars, stored, uploads, httpVars, system>>

\* Refresh the timers, raise the latency if low priority is disabled, and decide
\* whether the upload that is already scheduled is good enough.
ScheduleUpload_Timers(t) ==
    LET lat == AllowedLatency(arg[t].lat)
        alreadyScheduled == ~arg[t].force /\ m_isUploadScheduled
    IN  /\ pc[t] = "su_timers"
        /\ UpdateTimersIfNecessary
        /\ m_runningLatency' = IF alreadyScheduled /\ m_runningLatency > lat
                               THEN lat ELSE m_runningLatency
        /\ \/ alreadyScheduled /\ ReleaseAndReturn(t)    \* it is about to happen anyway
           \/ /\ Goto(t, IF arg[t].force \/ arg[t].delay = 0 THEN "su_cancel" ELSE "su_exchange")
              /\ arg' = [arg EXCEPT ![t].lat = lat]
              /\ UNCHANGED mutex
        /\ UNCHANGED <<m_isPaused, m_isUploadScheduled, m_scheduledUploadAborted, m_timerdelay,
                       m_activeUploads, m_scheduledUpload,
                       taskVars, stored, uploads, httpVars, system>>

\* m_isUploadScheduled.exchange(true)
ScheduleUpload_Exchange(t) ==
    /\ pc[t] = "su_exchange"
    /\ m_isUploadScheduled' = TRUE
    /\ IF m_isUploadScheduled
       THEN ReleaseAndReturn(t) /\ UNCHANGED m_runningLatency
       ELSE /\ m_runningLatency' = arg[t].lat
            /\ Goto(t, "su_queue")
            /\ UNCHANGED <<mutex, arg>>
    /\ UNCHANGED <<m_isPaused, m_scheduledUploadAborted, m_timerdelay, m_timers,
                   m_activeUploads, m_scheduledUpload,
                   profileVars, taskVars, stored, uploads, httpVars, system>>

\* PAL::scheduleTask allocates the task and queues it ...
ScheduleUpload_Queue(t) ==
    /\ pc[t] = "su_queue"
    /\ DispatcherFree
    /\ \E a \in Tasks \ LiveTasks :
          /\ queued' = queued \cup {a}
          /\ taskLatency' = [taskLatency EXCEPT ![a] = arg[t].lat]
          /\ arg' = [arg EXCEPT ![t].task = a]
    /\ Goto(t, "su_handle")
    /\ UNCHANGED <<tpmVars, profileVars, m_itemInProgress, stored, uploads, httpVars, system>>

\* ... and only then is the handle assigned.
ScheduleUpload_Handle(t) ==
    /\ pc[t] = "su_handle"
    /\ m_scheduledUpload' = arg[t].task
    /\ ReleaseAndReturn(t)
    /\ UNCHANGED <<m_isPaused, m_isUploadScheduled, m_scheduledUploadAborted, m_runningLatency,
                   m_timerdelay, m_timers, m_activeUploads,
                   profileVars, taskVars, stored, uploads, httpVars, system>>

ScheduleUpload(t) ==
    \/ ScheduleUpload_Lock(t)
    \/ ScheduleUpload_Timers(t)
    \/ CancelUploadTask(t, "su_cancel", "su_clear", "su_exchange")
    \/ ScheduleUpload_Exchange(t)
    \/ ScheduleUpload_Queue(t)
    \/ ScheduleUpload_Handle(t)

-----------------------------------------------------------------------------
(* Uploads: creation, retrieval of events, completion. *)

\* createEventsUploadContext.  Contexts differ only in their contents: any unused one will do.
UnusedUploads == {c \in Uploads \ m_httpCallbacks : uploads[c].st = "free"}

\* addUpload of a new context; initiateUpload then starts the retrieval.
AddUpload(t, min) ==
    LET c == CHOOSE u \in UnusedUploads : TRUE
    IN  /\ UnusedUploads # {}
        /\ uploads' = [uploads EXCEPT ![c] = [FreeUpload EXCEPT !.st = "open", !.min = min]]
        /\ m_activeUploads' = m_activeUploads \cup {c}
        /\ arg' = [arg EXCEPT ![t] = [NoArg(t) EXCEPT !.ctx = c]]
        /\ Goto(t, "retrieve")

\* Mutant: stop whatever latency was asked for.
NextAfterNothing_Never(c) == -1

\* Nothing left, not even Normal events: stop until an event arrives.
NextAfterNothing(c) == IF uploads[c].min = EventLatency_Normal THEN -1 ELSE m_timerdelay

\* No event of the requested latency: retrievalFailed or emptyPackage >> nothingToUpload.
HandleNothingToUpload(t) ==
    LET c == arg[t].ctx
    IN  /\ pc[t] = "retrieve"
        /\ \A e \in stored : Latency[e] < uploads[c].min
        /\ CallFinish(t, c, NextAfterNothing(c))
        /\ UNCHANGED <<tpmVars, profileVars, taskVars, stored, uploads, httpVars, system>>

\* compressionFailed >> releaseRecords >> packagingFailed.
HandlePackagingFailed(t) ==
    LET c == arg[t].ctx
    IN  /\ pc[t] = "retrieve"
        /\ \E e \in stored : Latency[e] >= uploads[c].min
        /\ CallFinish(t, c, m_timerdelay)
        /\ UNCHANGED <<tpmVars, profileVars, taskVars, stored, uploads, httpVars, system>>

\* Some events are reserved, packaged and handed to the HTTP client.  The callback list
\* has its own mutex, which the worker holds while it handles a response.
HandleSendRequest(t) ==
    LET c == arg[t].ctx
    IN  /\ pc[t] = "retrieve"
        /\ t = "user" => responding = NoUpload
        /\ \E batch \in SUBSET {e \in stored : Latency[e] >= uploads[c].min} :
              /\ batch # {}
              /\ stored' = stored \ batch
              /\ uploads' = [uploads EXCEPT ![c] = [@ EXCEPT !.st = "sent", !.events = batch]]
        /\ m_httpCallbacks' = m_httpCallbacks \cup {c}
        /\ Return(t)
        /\ UNCHANGED <<tpmVars, profileVars, taskVars, responding, system>>

\* Mutant: the context is never removed.
RemoveUpload_Kept(c) == UNCHANGED m_activeUploads

RemoveUpload(c) == m_activeUploads' = m_activeUploads \ {c}

\* finishUpload, first part: removeUpload; the context is released.
FinishUpload(t) ==
    LET c == arg[t].ctx
    IN  /\ pc[t] = "finish"
        /\ RemoveUpload(c)
        /\ uploads' = [uploads EXCEPT ![c] = FreeUpload]
        /\ IF arg[t].delay >= 0
           THEN /\ Goto(t, "priority")
                /\ arg' = [arg EXCEPT ![t].ctx = NoUpload]
           ELSE Return(t)
        /\ UNCHANGED <<m_isPaused, m_isUploadScheduled, m_scheduledUploadAborted, m_runningLatency,
                       m_timerdelay, m_timers, m_scheduledUpload, mutex,
                       profileVars, taskVars, stored, httpVars, system>>

\* The rescheduling half of finishUpload, and handleStart: calculateNewPriority, then
\* scheduleUpload.
CalculateNewPriority(t) ==
    /\ pc[t] = "priority"
    /\ UpdateTimersIfNecessary
    /\ CallSchedule(t, arg[t].delay, NewPriority(UpdatedTimers), FALSE)
    /\ UNCHANGED <<m_isPaused, m_isUploadScheduled, m_scheduledUploadAborted, m_runningLatency,
                   m_timerdelay, m_activeUploads, m_scheduledUpload, mutex,
                   taskVars, stored, uploads, httpVars, system>>

Upload(t) ==
    \/ HandleNothingToUpload(t)
    \/ HandlePackagingFailed(t)
    \/ HandleSendRequest(t)
    \/ FinishUpload(t)
    \/ CalculateNewPriority(t)

-----------------------------------------------------------------------------
(* The worker thread: it runs uploadAsync tasks and response tasks. *)

UploadAsync_Pick(a) ==
    /\ pc["worker"] = "idle"
    /\ DispatcherFree
    /\ a \in queued
    /\ queued' = queued \ {a}
    /\ m_itemInProgress' = a
    /\ Goto("worker", "picked")
    /\ UNCHANGED <<tpmVars, profileVars, taskLatency, stored, uploads, httpVars, system, arg>>

\* threadFunc skips a task that was cancelled after it left the queue.
UploadAsync_Start ==
    /\ pc["worker"] = "picked"
    /\ IF m_itemInProgress = NoTask
       THEN Goto("worker", "idle") /\ UNCHANGED m_runningLatency
       ELSE /\ m_runningLatency' = taskLatency[m_itemInProgress]
            /\ Goto("worker", "ua_lock")
    /\ UNCHANGED <<m_isPaused, m_isUploadScheduled, m_scheduledUploadAborted, m_timerdelay,
                   m_timers, m_activeUploads, m_scheduledUpload, mutex,
                   profileVars, taskVars, stored, uploads, httpVars, system, arg>>

UploadAsync_Lock ==
    /\ pc["worker"] = "ua_lock"
    /\ mutex = "none"
    /\ m_isUploadScheduled' = FALSE
    /\ IF m_isPaused \/ m_scheduledUploadAborted
       THEN Goto("worker", "ua_cancel") /\ mutex' = "worker"
       ELSE Goto("worker", "ua_add") /\ UNCHANGED mutex
    /\ UNCHANGED <<m_isPaused, m_scheduledUploadAborted, m_runningLatency, m_timerdelay,
                   m_timers, m_activeUploads, m_scheduledUpload,
                   profileVars, taskVars, stored, uploads, httpVars, system, arg>>

\* The early return of a paused or aborted task releases the mutex.
UploadAsync_Return ==
    /\ pc["worker"] = "ua_return"
    /\ ReleaseAndReturn("worker")
    /\ UNCHANGED <<m_isPaused, m_isUploadScheduled, m_scheduledUploadAborted, m_runningLatency,
                   m_timerdelay, m_timers, m_activeUploads, m_scheduledUpload,
                   profileVars, taskVars, stored, uploads, httpVars, system>>

UploadAsync_Add ==
    /\ pc["worker"] = "ua_add"
    /\ AddUpload("worker", m_runningLatency)
    /\ UNCHANGED <<m_isPaused, m_isUploadScheduled, m_scheduledUploadAborted, m_runningLatency,
                   m_timerdelay, m_timers, m_scheduledUpload, mutex,
                   profileVars, taskVars, stored, httpVars, system>>

UploadAsync ==
    \/ \E a \in Tasks : UploadAsync_Pick(a)
    \/ UploadAsync_Start
    \/ UploadAsync_Lock
    \/ CancelUploadTask("worker", "ua_cancel", "ua_clear", "ua_return")
    \/ UploadAsync_Return
    \/ UploadAsync_Add

\* Mutant: a request is answered as long as its callback is registered.
AwaitsResponse_WhileRegistered(c) == c \in m_httpCallbacks

\* The HTTP client answers each request once.
AwaitsResponse(c) == uploads[c].st = "sent"

\* HttpCallback::OnHttpResponse, on the HTTP client's thread: the outcome is recorded and a
\* response task is queued.  Its address matters only if it is the one the handle still
\* holds; NoTask stands for any other.  A request is reported as aborted only after CancelAllRequests.
OnHttpResponse(c) ==
    /\ AwaitsResponse(c)
    /\ DispatcherFree
    /\ \E r \in {"successful", "rejected", "failed", "aborted"}, a \in {NoTask, m_scheduledUpload} :
          /\ r = "aborted" => uploads[c].res = "cancelled"
          /\ a # NoTask => HeapReuses /\ a \notin LiveTasks
          /\ uploads' = [uploads EXCEPT ![c] =
                           [@ EXCEPT !.st = "answered", !.res = r, !.task = a]]
    /\ UNCHANGED <<tpmVars, profileVars, taskVars, stored, httpVars, system, pc, arg>>

\* HttpClientManager::onHttpResponse: requestDone runs the route of the outcome, which ends
\* in finishUpload.
HandleResponse(c) ==
    LET r == uploads[c].res
    IN  /\ pc["worker"] = "idle"
        /\ DispatcherFree
        /\ uploads[c].st = "answered"
        /\ responding' = c
        /\ m_itemInProgress' = uploads[c].task
        /\ uploads' = [uploads EXCEPT ![c] = [@ EXCEPT !.st = "open", !.events = {}, !.task = NoTask]]
        /\ stored' = IF r \in {"failed", "aborted"} THEN stored \cup uploads[c].events ELSE stored
        /\ CallFinish("worker", c, IF r = "successful" THEN 0
                                   ELSE IF r = "aborted" THEN -1 ELSE BackoffDelay)
        /\ UNCHANGED <<tpmVars, profileVars, queued, taskLatency, m_httpCallbacks, system>>

\* Mutant: the callback of a handled response stays registered.
EndOfTask_CallbackKept ==
    /\ pc["worker"] = "w_end"
    /\ m_itemInProgress' = NoTask
    /\ responding' = NoUpload
    /\ Goto("worker", "idle")
    /\ UNCHANGED <<tpmVars, profileVars, queued, taskLatency, stored, uploads, m_httpCallbacks,
                   system, arg>>

\* The end of a task: a response task removes its callback; the task object is deleted.
EndOfTask ==
    /\ pc["worker"] = "w_end"
    /\ m_itemInProgress' = NoTask
    /\ m_httpCallbacks' = m_httpCallbacks \ {responding}
    /\ responding' = NoUpload
    /\ Goto("worker", "idle")
    /\ UNCHANGED <<tpmVars, profileVars, queued, taskLatency, stored, uploads, system, arg>>

-----------------------------------------------------------------------------
(* Events and API calls. *)

Records == stored \cup UNION {uploads[c].events : c \in Uploads}

\* An event is logged by the application, or by Statistics on the worker thread: it is
\* stored, and storeRecord >> eventArrived enters handleEventArrived.  Statistics sends without
\* LogManagerImpl::m_lock, also while the application's thread stops the system.
LogEvent(t, e) ==
    /\ pc[t] = "idle"
    /\ IF t = "worker" THEN "Statistics" \in Ops /\ DispatcherFree /\ system # "new"
                       ELSE system \in {"started", "paused"}
    /\ e \notin Records
    /\ stored' = stored \cup {e}
    /\ Goto(t, "ev_arrived")
    /\ arg' = [arg EXCEPT ![t].lat = Latency[e]]
    /\ UNCHANGED <<tpmVars, profileVars, taskVars, uploads, httpVars, system>>

HandleEventArrived_Check(t) ==
    /\ pc[t] = "ev_arrived"
    /\ \/ m_isPaused /\ Return(t)
       \/ /\ ~m_isPaused
          /\ Goto(t, IF arg[t].lat > EventLatency_RealTime THEN "ev_upload" ELSE "ev_schedule")
          /\ UNCHANGED arg
    /\ UNCHANGED <<tpmVars, profileVars, taskVars, stored, uploads, httpVars, system>>

\* An event above RealTime is uploaded right away, on the caller's thread.
HandleEventArrived_Upload(t) ==
    /\ pc[t] = "ev_upload"
    /\ AddUpload(t, arg[t].lat)
    /\ UNCHANGED <<m_isPaused, m_isUploadScheduled, m_scheduledUploadAborted, m_runningLatency,
                   m_timerdelay, m_timers, m_scheduledUpload, mutex,
                   profileVars, taskVars, stored, httpVars, system>>

\* Only here does a changed profile reach m_timerdelay.
HandleEventArrived_Schedule(t) ==
    /\ pc[t] = "ev_schedule"
    /\ IF ~m_isUploadScheduled \/ isTimerUpdated
       THEN /\ UpdateTimersIfNecessary
            /\ m_timerdelay' = IF isTimerUpdated THEN profile[2] ELSE m_timerdelay
            /\ IF m_timerdelay' >= 0
               THEN CallSchedule(t, m_timerdelay', NewPriority(UpdatedTimers), isTimerUpdated)
               ELSE Return(t)
       ELSE /\ Return(t)
            /\ UNCHANGED <<m_timers, m_timerdelay, profileVars>>
    /\ UNCHANGED <<m_isPaused, m_isUploadScheduled, m_scheduledUploadAborted, m_runningLatency,
                   m_activeUploads, m_scheduledUpload, mutex,
                   taskVars, stored, uploads, httpVars, system>>

HandleEventArrived(t) ==
    \/ HandleEventArrived_Check(t)
    \/ HandleEventArrived_Upload(t)
    \/ HandleEventArrived_Schedule(t)

\* Start and ResumeTransmission: handleStart.
Start ==
    /\ pc["user"] = "idle"
    /\ system \in {"new", "paused"}
    /\ system = "paused" => "Pause" \in Ops
    /\ system' = "started"
    /\ m_isPaused' = FALSE
    /\ Goto("user", "priority")
    /\ arg' = [arg EXCEPT !["user"].delay = HandleStartDelay]
    /\ UNCHANGED <<m_isUploadScheduled, m_scheduledUploadAborted, m_runningLatency,
                   m_timerdelay, m_timers, m_activeUploads, m_scheduledUpload, mutex,
                   profileVars, taskVars, stored, uploads, httpVars>>

\* UploadNow with records in storage.
UploadNow ==
    /\ "UploadNow" \in Ops
    /\ pc["user"] = "idle"
    /\ system \in {"started", "paused"}
    /\ Records # {}
    /\ CallSchedule("user", 0, EventLatency_Normal, TRUE)
    /\ UNCHANGED <<tpmVars, profileVars, taskVars, stored, uploads, httpVars, system>>

\* hcm.cancelAllRequests: ask the HTTP client to cancel, then spin until every callback is gone.
CancelAllRequests(cancel, wait, next) ==
    \/ /\ pc["user"] = cancel
       /\ uploads' = [c \in Uploads |-> IF uploads[c].st = "sent"
                                        THEN [uploads[c] EXCEPT !.res = "cancelled"]
                                        ELSE uploads[c]]
       /\ Goto("user", wait)
       /\ UNCHANGED <<tpmVars, profileVars, taskVars, stored, httpVars, system, arg>>
    \/ /\ pc["user"] = wait
       /\ m_httpCallbacks = {}
       /\ Goto("user", next)
       /\ UNCHANGED <<tpmVars, profileVars, taskVars, stored, uploads, httpVars, system, arg>>

\* pauseAllUploads sets m_isPaused, then cancels the task without taking the mutex.
PauseAllUploads(cancel) ==
    /\ m_isPaused' = TRUE
    /\ Goto("user", cancel)
    /\ UNCHANGED <<m_isUploadScheduled, m_scheduledUploadAborted, m_runningLatency,
                   m_timerdelay, m_timers, m_activeUploads, m_scheduledUpload, mutex,
                   profileVars, taskVars, stored, uploads, httpVars, arg>>

PauseTransmission ==
    \/ /\ "Pause" \in Ops
       /\ pc["user"] = "idle"
       /\ system = "started"
       /\ Cardinality(queued) <= MaxQueued
       /\ system' = "paused"
       /\ PauseAllUploads("pa_cancel")
    \/ CancelUploadTask("user", "pa_cancel", "pa_clear", "pa_http")
    \/ CancelAllRequests("pa_http", "pa_wait", "idle")

\* DeleteData: onCleanup, then DeleteAllRecords, reserved ones included.
DeleteData ==
    \/ /\ "DeleteData" \in Ops
       /\ pc["user"] = "idle"
       /\ system \in {"started", "paused"}
       /\ Cardinality(queued) <= MaxQueued
       /\ Goto("user", "cl_http")
       /\ UNCHANGED <<tpmVars, profileVars, taskVars, stored, uploads, httpVars, system, arg>>
    \/ CancelAllRequests("cl_http", "cl_wait", "cl_cancel")
    \/ CancelUploadTask("user", "cl_cancel", "cl_clear", "cl_spin")
    \/ /\ pc["user"] = "cl_spin"
       /\ m_activeUploads = {}
       /\ Goto("user", "cl_delete")
       /\ UNCHANGED <<tpmVars, profileVars, taskVars, stored, uploads, httpVars, system, arg>>
    \/ /\ pc["user"] = "cl_delete"
       /\ stored' = {}
       /\ uploads' = [c \in Uploads |-> [uploads[c] EXCEPT !.events = {}]]
       /\ Goto("user", "idle")
       /\ UNCHANGED <<tpmVars, profileVars, taskVars, httpVars, system, arg>>

-----------------------------------------------------------------------------
(* TelemetrySystem::onStop. *)

\* Try to drain first: upload(), then poll until nothing is left or the teardown time is
\* over.  Without records, teardown time or transmission the upload is skipped.
Stop_Begin ==
    /\ "Stop" \in Ops
    /\ pc["user"] = "idle"
    /\ system \in {"started", "paused"}
    /\ system' = "stopping"
    /\ \/ /\ ~m_isPaused
          /\ Records # {}
          /\ Goto("user", "su_lock")
          /\ arg' = [arg EXCEPT !["user"].force = TRUE, !["user"].cont = "st_drain"]
       \/ /\ Goto("user", "st_drain")
          /\ UNCHANGED arg
    /\ UNCHANGED <<tpmVars, profileVars, taskVars, stored, uploads, httpVars>>

\* onPause, whether the poll found the work done or ran out of time.
Stop_Pause ==
    /\ pc["user"] = "st_drain"
    /\ PauseAllUploads("sp_cancel")
    /\ UNCHANGED system

\* handleFinishAllUploads pauses once more (m_isPaused is already set).
Stop_FinishAllUploads ==
    \/ CancelAllRequests("fa_http", "fa_wait", "fa_cancel")
    \/ CancelUploadTask("user", "fa_cancel", "fa_clear", "st_lock")

\* handleStop takes the mutex and aborts all upload tasks ...
Stop_Abort ==
    /\ pc["user"] = "st_lock"
    /\ mutex = "none"
    /\ mutex' = "user"
    /\ m_scheduledUploadAborted' = TRUE
    /\ Goto("user", "st_cancel")
    /\ UNCHANGED <<m_isPaused, m_isUploadScheduled, m_runningLatency,
                   m_timerdelay, m_timers, m_activeUploads, m_scheduledUpload,
                   profileVars, taskVars, stored, uploads, httpVars, system, arg>>

\* ... so that from here on the cancellation waits for a task that is in progress.
Stop_Cancel ==
    /\ pc["user"] = "st_cancel"
    /\ IF CancelFails("user")
       THEN Goto("user", "st_wait") /\ UNCHANGED <<queued, uploads>>
       ELSE Goto("user", "st_clear") /\ EraseScheduled
    /\ UNCHANGED <<tpmVars, profileVars, taskLatency, m_itemInProgress, stored, httpVars,
                   system, arg>>

\* m_execution_mutex is free before the worker starts the task and after it has ended it.
Stop_Wait ==
    /\ pc["user"] = "st_wait"
    /\ pc["worker"] \in {"idle", "picked"}
    /\ m_itemInProgress' = NoTask
    /\ Goto("user", "st_clear")
    /\ UNCHANGED <<tpmVars, profileVars, queued, taskLatency, stored, uploads, httpVars,
                   system, arg>>

Stop_WaitTimedOut ==
    /\ CancelTimesOut
    /\ pc["user"] = "st_wait"
    /\ pc["worker"] \notin {"idle", "picked"}
    /\ mutex' = "none"
    /\ Goto("user", "st_spin")
    /\ UNCHANGED <<m_isPaused, m_isUploadScheduled, m_scheduledUploadAborted, m_runningLatency,
                   m_timerdelay, m_timers, m_activeUploads, m_scheduledUpload,
                   profileVars, taskVars, stored, uploads, httpVars, system, arg>>

Stop_Clear ==
    /\ pc["user"] = "st_clear"
    /\ m_isUploadScheduled' = FALSE
    /\ mutex' = "none"
    /\ Goto("user", "st_spin")
    /\ UNCHANGED <<m_isPaused, m_scheduledUploadAborted, m_runningLatency,
                   m_timerdelay, m_timers, m_activeUploads, m_scheduledUpload,
                   profileVars, taskVars, stored, uploads, httpVars, system, arg>>

Stop_Spin ==
    /\ pc["user"] = "st_spin"
    /\ m_activeUploads = {}
    /\ system' = "stopped"
    /\ Goto("user", "idle")
    /\ UNCHANGED <<tpmVars, profileVars, taskVars, stored, uploads, httpVars, arg>>

Stop ==
    \/ Stop_Begin
    \/ Stop_Pause
    \/ CancelUploadTask("user", "sp_cancel", "sp_clear", "sp_http")
    \/ CancelAllRequests("sp_http", "sp_wait", "fa_http")
    \/ Stop_FinishAllUploads
    \/ Stop_Abort
    \/ Stop_Cancel
    \/ Stop_Wait
    \/ Stop_WaitTimedOut
    \/ Stop_Clear
    \/ Stop_Spin

-----------------------------------------------------------------------------

\* TransmitProfiles selects another rule: a call of SetTransmitProfile or a change of the
\* device's network or power state.
SetProfile(p) ==
    /\ "SetProfile" \in Ops
    /\ p # profile
    /\ profile' = p
    /\ isTimerUpdated' = TRUE
    /\ UNCHANGED <<tpmVars, taskVars, stored, uploads, httpVars, system, pc, arg>>

\* After the stop nothing has to happen any more.
Terminated ==
    /\ system = "stopped"
    /\ UNCHANGED vars

Init ==
    /\ m_isPaused = TRUE
    /\ m_isUploadScheduled = FALSE
    /\ m_scheduledUploadAborted = FALSE
    /\ m_runningLatency = EventLatency_RealTime
    /\ m_timerdelay = InitialTimerDelay
    /\ profile \in Profiles
    /\ m_timers \in Profiles            \* not initialised by the constructor
    /\ isTimerUpdated = TRUE
    /\ m_activeUploads = {}
    /\ m_scheduledUpload = NoTask
    /\ mutex = "none"
    /\ queued = {}
    /\ taskLatency = [a \in Tasks |-> EventLatency_Normal]
    /\ m_itemInProgress = NoTask
    /\ stored = {}
    /\ uploads = [c \in Uploads |-> FreeUpload]
    /\ m_httpCallbacks = {}
    /\ responding = NoUpload
    /\ system = "new"
    /\ pc = [t \in Threads |-> "idle"]
    /\ arg = [t \in Threads |-> NoArg(t)]

ThreadStep(t) == ScheduleUpload(t) \/ Upload(t) \/ HandleEventArrived(t)

Next ==
    \/ \E t \in Threads : ThreadStep(t)
    \/ \E t \in Threads, e \in Events : LogEvent(t, e)
    \/ \E c \in Uploads : OnHttpResponse(c) \/ HandleResponse(c)
    \/ UploadAsync
    \/ EndOfTask
    \/ Start
    \/ UploadNow
    \/ PauseTransmission
    \/ DeleteData
    \/ Stop
    \/ \E p \in Profiles : SetProfile(p)
    \/ Terminated

Spec == Init /\ [][Next]_vars

\* The steps of a thread that is inside the library, waiting for a mutex included.
UserStep ==
    \/ ThreadStep("user")
    \/ pc["user"] # "idle" /\ (PauseTransmission \/ DeleteData \/ Stop)
WorkerStep ==
    \/ ThreadStep("worker")
    \/ pc["worker"] # "idle" /\ UploadAsync
    \/ EndOfTask

\* What the platform guarantees: a thread inside the library keeps running and gets a mutex
\* that is released again and again; the worker serves its queue in the order of time, so it
\* neither passes over upload tasks nor a response task for ever; every request is answered.
\* And what the events need: packaging does not fail for ever.  Nobody has to call the API.
Fairness ==
    /\ SF_vars(UserStep)
    /\ SF_vars(WorkerStep)
    /\ SF_vars(\E a \in Tasks : UploadAsync_Pick(a))
    /\ SF_vars(\E t \in Threads : HandleSendRequest(t))
    /\ \A c \in Uploads : WF_vars(OnHttpResponse(c)) /\ SF_vars(HandleResponse(c))

FairSpec == Spec /\ Fairness

-----------------------------------------------------------------------------
(* Properties *)

Latencies == {EventLatency_Normal, EventLatency_RealTime, EventLatency_Max}
ClearLabels == {"su_clear", "pa_clear", "cl_clear", "sp_clear", "fa_clear", "st_clear", "ua_clear"}
Labels == ClearLabels \cup
    {"idle", "su_lock", "su_timers", "su_cancel", "su_exchange", "su_queue", "su_handle",
     "priority", "retrieve", "finish", "ev_arrived", "ev_upload", "ev_schedule",
     "picked", "ua_lock", "ua_cancel", "ua_return", "ua_add", "w_end",
     "pa_cancel", "pa_http", "pa_wait",
     "cl_http", "cl_wait", "cl_cancel", "cl_spin", "cl_delete",
     "st_drain", "sp_cancel", "sp_http", "sp_wait", "fa_http", "fa_wait", "fa_cancel",
     "st_lock", "st_cancel", "st_wait", "st_spin"}

Arguments == [ctx : Uploads \cup {NoUpload}, delay : Int, lat : Latencies, force : BOOLEAN,
              task : Tasks \cup {NoTask}, cont : {"idle", "st_drain", "w_end"}]
UploadContexts == [st : {"free", "open", "sent", "answered", "lost"}, min : Latencies,
                   events : SUBSET Events,
                   res : {"none", "cancelled", "successful", "rejected", "failed", "aborted"},
                   task : Tasks \cup {NoTask}]

\* Every variable has the type of the member it stands for.
TypeOK ==
    /\ m_isPaused \in BOOLEAN
    /\ m_isUploadScheduled \in BOOLEAN
    /\ m_scheduledUploadAborted \in BOOLEAN
    /\ m_runningLatency \in Latencies
    /\ m_timerdelay \in Int
    /\ m_timers \in Profiles
    /\ m_activeUploads \subseteq Uploads
    /\ m_scheduledUpload \in Tasks \cup {NoTask}
    /\ mutex \in Threads \cup {"none"}
    /\ profile \in Profiles
    /\ isTimerUpdated \in BOOLEAN
    /\ queued \subseteq Tasks
    /\ taskLatency \in [Tasks -> Latencies]
    /\ m_itemInProgress \in Tasks \cup {NoTask}
    /\ stored \subseteq Events
    /\ uploads \in [Uploads -> UploadContexts]
    /\ m_httpCallbacks \subseteq Uploads
    /\ responding \in Uploads \cup {NoUpload}
    /\ system \in {"new", "started", "paused", "stopping", "stopped"}
    /\ pc \in [Threads -> Labels]
    /\ arg \in [Threads -> Arguments]

\* m_isUploadScheduled keeps every other caller from scheduling (the exchange in
\* scheduleUpload), so it may only be set while something is bound to reset it: an upload
\* task is queued or has not yet reached its own reset, or a thread is about to queue one
\* or to reset the flag.  Otherwise uploads would stop for good.
ScheduledFlagHasTask ==
    m_isUploadScheduled =>
        \/ queued # {}
        \/ pc["worker"] \in {"picked", "ua_lock"}
        \/ \E t \in Threads : pc[t] \in {"su_queue"} \cup ClearLabels

\* finishUpload never meets a context that is not active (its assert(false) is unreachable),
\* and no context is handled by both threads, or by a thread and the HTTP client.
FinishKnowsUpload ==
    /\ \A t \in Threads : pc[t] \in {"retrieve", "finish"} =>
          /\ arg[t].ctx \in m_activeUploads
          /\ uploads[arg[t].ctx].st = "open"
    /\ pc["user"] \in {"retrieve", "finish"} /\ pc["worker"] \in {"retrieve", "finish"} =>
          arg["user"].ctx # arg["worker"].ctx

\* As long as nobody cancels without the mutex (pause and cleanup do), at most one upload
\* task is in the queue: the flag, the mutex and the handle agree.
AtMostOneUploadTask ==
    Ops \cap {"Pause", "DeleteData"} = {} => Cardinality(queued) <= 1

\* Of HTTP requests that are not answered there are at most as many as the configuration says.
\* (The code does not ensure it: it counts when an upload is scheduled, uploadAsync allows the next
\* one to be scheduled before it adds its own, and immediate uploads are not held back.)
PendingRequestsWithinLimit ==
    Cardinality({c \in Uploads : uploads[c].st = "sent"}) <= MaxPendingReq

\* The limit of CFG_INT_MAX_PENDING_REQ is exceeded by one at most, not counting the immediate
\* uploads of EventLatency_Max events: of the uploads that have passed the check in scheduleUpload
\* and are not active yet there is never more than the one whose task is queued or running.
PendingUploadsBounded ==
    Ops \cap {"Pause", "DeleteData"} = {} =>
        Cardinality({c \in m_activeUploads : uploads[c].min # EventLatency_Max}) <= MaxPendingReq + 1

\* When the first timer of every rule is negative, no upload asks for Normal events.
NegativeFirstTimerStopsNormal ==
    (\A p \in Profiles : p[1] < 0) =>
        \A c \in Uploads : uploads[c].st = "open" => uploads[c].min # EventLatency_Normal

\* When the third timer of every rule is negative, only EventLatency_Max events are uploaded.
\* (The code does not ensure it: m_timerdelay keeps its initial value when another reader has
\* consumed the update flag.)
NegativeThirdTimerStopsAllButMax ==
    (\A p \in Profiles : p[2] < 0) =>
        \A c \in Uploads : uploads[c].st = "sent" => uploads[c].min = EventLatency_Max

\* handleStop leaves no upload task behind, as long as nobody cancels without the mutex: a
\* pause or a cleanup that does so while a task is being scheduled can leave a second task in
\* the queue, which no handle knows.
StopLeavesNoScheduledUploads ==
    Ops \cap {"Pause", "DeleteData"} = {} => (system = "stopped" => queued = {})

\* handleStop waits for the upload task that may be running and for all active uploads: none
\* is active once it has returned.  (The code does not ensure it: the wait for the task is bounded.)
StopWaitsForUploads == system = "stopped" => m_activeUploads = {}

\* cancelUploadTask cancels the pending upload task, and no task of another component.
CancelHitsOnlyUploadTasks == \A c \in Uploads : uploads[c].st # "lost"

\* While transmission is paused, once PauseTransmission has returned, no request is sent.
\* (The code does not ensure it: uploadAsync tests m_isPaused before it sends.)
PausedSendsNothing ==
    [][pc["user"] = "idle" /\ system = "paused" => m_httpCallbacks' \subseteq m_httpCallbacks]_vars

\* As long as transmission is on, stored events do not stay without another upload of events going
\* out: when handleEventArrived or scheduleUpload returned early, since an upload was scheduled or
\* too many were pending, some path (a queued task, the completion of an upload, the alternation of
\* calculateNewPriority) comes back for them.  (With a limit of one pending request none does: the
\* upload that reaches the limit may be one that has just found nothing to upload.)
StoredIsUploaded ==
    stored # {} /\ system = "started"
        ~> stored = {} \/ system # "started" \/ \E c \in Uploads : uploads[c].st = "sent"

\* Every upload runs to completion: its response reaches finishUpload.
UploadsComplete == \A c \in Uploads : c \in m_activeUploads ~> c \notin m_activeUploads

\* Every API call returns: the spins on the HTTP callbacks and on the active uploads end.
CallsReturn == pc["user"] # "idle" ~> pc["user"] = "idle"

=============================================================================
