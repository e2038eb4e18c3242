------------------ MODULE TransmissionPolicyManager_proofs ------------------
(* Proofs about the upload scheduler, for any events, tasks, upload          *)
(* contexts, profiles and limits.                                            *)
EXTENDS TransmissionPolicyManager, TLAPS

-----------------------------------------------------------------------------
(* TypeOK in four parts, and what the shared operators do to them. *)

PcOK == pc \in [Threads -> Labels]
ArgOK == arg \in [Threads -> Arguments]
UploadsOK == uploads \in [Uploads -> UploadContexts]
FlatOK ==
    /\ m_isPaused \in BOOLEAN
    /\ m_isUploadScheduled \in BOOLEAN
    /\ m_scheduledUploadAborted \in BOOLEAN
    /\ m_runningLatency \in Latencies
    /\ m_timerdelay \in Int
    /\ m_timers \in Profiles
    /\ m_activeUploads \subseteq Uploads
    /\ m_scheduledUpload \in Tasks \cup {NoTask}
    /\ mutex \in Threads \cup {"none"}
    /\ profile \in Profiles
    /\ isTimerUpdated \in BOOLEAN
    /\ queued \subseteq Tasks
    /\ taskLatency \in [Tasks -> Latencies]
    /\ m_itemInProgress \in Tasks \cup {NoTask}
    /\ stored \subseteq Events
    /\ m_httpCallbacks \subseteq Uploads
    /\ responding \in Uploads \cup {NoUpload}
    /\ system \in {"new", "started", "paused", "stopping", "stopped"}
Typed == FlatOK /\ UploadsOK /\ PcOK /\ ArgOK

\* The latency classes are latencies, and integers.
LEMMA LatencyTypes == /\ EventLatency_Normal \in Latencies
                      /\ EventLatency_RealTime \in Latencies
                      /\ EventLatency_Max \in Latencies
                      /\ Latencies \subseteq Int
  BY DEF Latencies, EventLatency_Normal, EventLatency_RealTime, EventLatency_Max

\* The arguments of a thread that has just returned are well typed.
LEMMA NoArgType == ASSUME NEW t PROVE NoArg(t) \in Arguments
  BY LatencyTypes DEF NoArg, Arguments

\* A jump to a label keeps pc well typed.
LEMMA GotoType ==
  ASSUME PcOK, NEW t \in Threads, NEW l \in Labels, Goto(t, l)
  PROVE  PcOK'
  BY Zenon DEF PcOK, Goto

\* A return goes to the recorded continuation, which is a label.
LEMMA ReturnType ==
  ASSUME PcOK, ArgOK, NEW t \in Threads, Return(t)
  PROVE  PcOK' /\ ArgOK'
<1>1. arg[t].cont \in Labels  BY Zenon DEF ArgOK, Arguments, Labels
<1>2. PcOK'  BY <1>1, Zenon DEF PcOK, Return
<1>3. ArgOK'  BY NoArgType, Zenon DEF ArgOK, Return
<1> QED BY <1>2, <1>3, Zenon

\* The call of scheduleUpload passes well-typed arguments.
LEMMA CallScheduleType ==
  ASSUME PcOK, ArgOK, NEW t \in Threads, NEW d \in Int, NEW l \in Latencies, NEW f \in BOOLEAN,
         CallSchedule(t, d, l, f)
  PROVE  PcOK' /\ ArgOK'
<1>1. PcOK'  BY GotoType, Zenon DEF CallSchedule, Labels
<1>2. [arg[t] EXCEPT !.delay = d, !.lat = l, !.force = f] \in Arguments
  BY Zenon DEF ArgOK, Arguments
<1>3. ArgOK'  BY <1>2, Zenon DEF ArgOK, CallSchedule
<1> QED BY <1>1, <1>3, Zenon

\* The call of finishUpload passes well-typed arguments.
LEMMA CallFinishType ==
  ASSUME PcOK, ArgOK, NEW t \in Threads, NEW c \in Uploads \cup {NoUpload}, NEW d \in Int,
         CallFinish(t, c, d)
  PROVE  PcOK' /\ ArgOK'
<1>1. PcOK'  BY GotoType, Zenon DEF CallFinish, Labels
<1>2. [arg[t] EXCEPT !.ctx = c, !.delay = d] \in Arguments
  BY Zenon DEF ArgOK, Arguments
<1>3. ArgOK'  BY <1>2, Zenon DEF ArgOK, CallFinish
<1> QED BY <1>1, <1>3, Zenon

\* The reset upload context is an upload context.
LEMMA FreeUploadType == FreeUpload \in UploadContexts
  BY LatencyTypes, Zenon DEF FreeUpload, UploadContexts

\* updateTimersIfNecessary and calculateNewPriority yield timers and a latency.
LEMMA TimersType ==
  ASSUME FlatOK
  PROVE  /\ UpdatedTimers \in Profiles
         /\ NewPriority(UpdatedTimers) \in Latencies
         /\ \A l \in Latencies : AllowedLatency(l) \in Latencies
<1>1. UpdatedTimers \in Profiles  BY Zenon DEF FlatOK, UpdatedTimers
<1>2. NewPriority(UpdatedTimers) \in Latencies  BY LatencyTypes, Zenon DEF NewPriority
<1>3. \A l \in Latencies : AllowedLatency(l) \in Latencies
  BY LatencyTypes, Zenon DEF AllowedLatency
<1> QED BY <1>1, <1>2, <1>3, Zenon

\* Erasing the task at the handle keeps queue and contexts well typed.
LEMMA EraseScheduledType ==
  ASSUME UploadsOK, queued \subseteq Tasks, EraseScheduled
  PROVE  UploadsOK' /\ queued' \subseteq Tasks
<1>1. \A c \in Uploads : /\ uploads[c] \in UploadContexts
                         /\ [uploads[c] EXCEPT !.st = "lost", !.task = NoTask] \in UploadContexts
  BY Zenon DEF UploadsOK, UploadContexts
<1>2. UploadsOK'  BY <1>1, Zenon DEF UploadsOK, EraseScheduled
<1> QED BY <1>2, Zenon DEF EraseScheduled

\* Both steps of cancelUploadTask preserve types.
LEMMA CancelUploadTaskType ==
  ASSUME Typed, NEW t \in Threads, NEW cancel, NEW clear \in Labels, NEW next \in Labels,
         CancelUploadTask(t, cancel, clear, next)
  PROVE  Typed'
<1>1. CASE /\ DispatcherFree
           /\ EraseScheduled
           /\ Goto(t, IF CancelFails(t) THEN next ELSE clear)
           /\ UNCHANGED <<tpmVars, profileVars, taskLatency, m_itemInProgress, stored, httpVars,
                          system, arg>>
  <2>1. PcOK'  BY <1>1, GotoType, Zenon DEF Typed
  <2>2. UploadsOK' /\ queued' \subseteq Tasks  BY <1>1, EraseScheduledType, Zenon DEF Typed, FlatOK
  <2>3. FlatOK' /\ ArgOK'
    BY <1>1, <2>2 DEF Typed, FlatOK, ArgOK, tpmVars, profileVars, httpVars
  <2> QED BY <2>1, <2>2, <2>3, Zenon DEF Typed
<1>2. CASE /\ m_isUploadScheduled' = FALSE
           /\ Goto(t, next)
           /\ UNCHANGED <<m_isPaused, m_scheduledUploadAborted, m_runningLatency, m_timerdelay,
                      m_timers, m_activeUploads, m_scheduledUpload, mutex,
                      profileVars, taskVars, stored, uploads, httpVars, system, arg>>
  <2>1. PcOK'  BY <1>2, GotoType, Zenon DEF Typed
  <2>2. FlatOK' /\ ArgOK' /\ UploadsOK'
    BY <1>2, ZenonT(30) DEF Typed, FlatOK, ArgOK, UploadsOK, profileVars, taskVars, httpVars
  <2> QED BY <2>1, <2>2, Zenon DEF Typed
<1> QED BY <1>1, <1>2, Zenon DEF CancelUploadTask

\* A new upload is a context of the pool, so that addUpload preserves types.
LEMMA AddUploadType ==
  ASSUME Typed, NEW t \in Threads, NEW min \in Latencies, AddUpload(t, min)
  PROVE  PcOK' /\ ArgOK' /\ UploadsOK' /\ m_activeUploads' \subseteq Uploads
<1> DEFINE c == CHOOSE u \in UnusedUploads : TRUE
<1>1. c \in UnusedUploads  BY Zenon DEF AddUpload
<1>2. c \in Uploads  BY <1>1, Zenon DEF UnusedUploads
<1>3. [NoArg(t) EXCEPT !.ctx = c] \in Arguments  BY <1>2, NoArgType, Zenon DEF Arguments
<1>4. [FreeUpload EXCEPT !.st = "open", !.min = min] \in UploadContexts
  BY FreeUploadType, Zenon DEF UploadContexts
<1> HIDE DEF c
<1>5. /\ uploads' = [uploads EXCEPT ![c] = [FreeUpload EXCEPT !.st = "open", !.min = min]]
      /\ m_activeUploads' = m_activeUploads \cup {c}
      /\ arg' = [arg EXCEPT ![t] = [NoArg(t) EXCEPT !.ctx = c]]
      /\ Goto(t, "retrieve")
  BY Zenon DEF AddUpload, c
<1>6. PcOK'  BY <1>5, GotoType, Zenon DEF Typed, Labels
<1>7. ArgOK'  BY <1>3, <1>5, Zenon DEF Typed, ArgOK
<1>8. UploadsOK'  BY <1>4, <1>5, Zenon DEF Typed, UploadsOK
<1>9. m_activeUploads' \subseteq Uploads  BY <1>2, <1>5, Zenon DEF Typed, FlatOK
<1> QED BY <1>6, <1>7, <1>8, <1>9, Zenon

-----------------------------------------------------------------------------
(* Every action keeps the types. *)

\* Every step of scheduleUpload preserves types.
LEMMA ScheduleUploadType ==
  ASSUME Typed, NEW t \in Threads, ScheduleUpload(t)
  PROVE  Typed'
<1> USE DEF Typed
<1>a. arg[t] \in Arguments /\ arg[t].lat \in Latencies  BY Zenon DEF ArgOK, Arguments
<1>1. CASE ScheduleUpload_Lock(t)
  <2>1. PcOK' /\ ArgOK'
    <3>1. CASE Return(t)  BY <3>1, ReturnType, Zenon
    <3>2. CASE Goto(t, "su_timers") /\ UNCHANGED arg
      BY <3>2, GotoType, Zenon DEF Labels, ArgOK
    <3> QED BY <1>1, <3>1, <3>2, Zenon DEF ScheduleUpload_Lock
  <2>2. FlatOK' /\ UploadsOK'
    BY <1>1 DEF ScheduleUpload_Lock, FlatOK, UploadsOK, profileVars, taskVars, httpVars
  <2> QED BY <2>1, <2>2, Zenon
<1>2. CASE ScheduleUpload_Timers(t)
  <2> DEFINE lat == AllowedLatency(arg[t].lat)
  <2>0. lat \in Latencies  BY <1>a, TimersType, Zenon
  <2>1. PcOK' /\ ArgOK'
    <3>1. CASE Return(t)  BY <3>1, ReturnType, Zenon
    <3>2. CASE /\ Goto(t, IF arg[t].force \/ arg[t].delay = 0 THEN "su_cancel" ELSE "su_exchange")
               /\ arg' = [arg EXCEPT ![t].lat = lat]
      <4>1. PcOK'  BY <3>2, GotoType, Zenon DEF Labels
      <4>2. [arg[t] EXCEPT !.lat = lat] \in Arguments  BY <1>a, <2>0, Zenon DEF Arguments
      <4>3. ArgOK'  BY <3>2, <4>2, Zenon DEF ArgOK
      <4> QED BY <4>1, <4>3, Zenon
    <3> QED BY <1>2, <3>1, <3>2, Zenon DEF ScheduleUpload_Timers, ReleaseAndReturn
  <2>2. m_runningLatency' \in Latencies /\ m_timers' \in Profiles /\ mutex' \in Threads \cup {"none"}
    BY <1>2, <2>0, TimersType, Zenon
       DEF ScheduleUpload_Timers, FlatOK, UpdateTimersIfNecessary, ReleaseAndReturn
  <2>3. FlatOK' /\ UploadsOK'
    BY <1>2, <2>2, ZenonT(30) DEF ScheduleUpload_Timers, FlatOK, UploadsOK, UpdateTimersIfNecessary,
                      taskVars, httpVars
  <2> QED BY <2>1, <2>3, Zenon
<1>3. CASE CancelUploadTask(t, "su_cancel", "su_clear", "su_exchange")
  BY <1>3, CancelUploadTaskType, Zenon DEF Labels, ClearLabels
<1>4. CASE ScheduleUpload_Exchange(t)
  <2>1. PcOK' /\ ArgOK'
    <3>1. CASE Return(t)  BY <3>1, ReturnType, Zenon
    <3>2. CASE Goto(t, "su_queue") /\ UNCHANGED arg
      BY <3>2, GotoType, Zenon DEF Labels, ArgOK
    <3> QED BY <1>4, <3>1, <3>2, Zenon DEF ScheduleUpload_Exchange, ReleaseAndReturn
  <2>2. FlatOK' /\ UploadsOK'
    BY <1>4, <1>a DEF ScheduleUpload_Exchange, ReleaseAndReturn, FlatOK, UploadsOK,
                      profileVars, taskVars, httpVars
  <2> QED BY <2>1, <2>2, Zenon
<1>5. CASE ScheduleUpload_Queue(t)
  <2>1. PICK a \in Tasks \ LiveTasks :
          /\ queued' = queued \cup {a}
          /\ taskLatency' = [taskLatency EXCEPT ![a] = arg[t].lat]
          /\ arg' = [arg EXCEPT ![t].task = a]
    BY <1>5, Zenon DEF ScheduleUpload_Queue
  <2>2. PcOK'  BY <1>5, GotoType, Zenon DEF ScheduleUpload_Queue, Labels
  <2>3. [arg[t] EXCEPT !.task = a] \in Arguments  BY <1>a, Zenon DEF Arguments
  <2>4. ArgOK'  BY <2>1, <2>3, Zenon DEF ArgOK
  <2>5. taskLatency' \in [Tasks -> Latencies] /\ queued' \subseteq Tasks
    BY <1>a, <2>1, Zenon DEF FlatOK
  <2>6. FlatOK' /\ UploadsOK'
    BY <1>5, <2>5 DEF ScheduleUpload_Queue, FlatOK, UploadsOK, tpmVars, profileVars, httpVars
  <2> QED BY <2>2, <2>4, <2>6, Zenon
<1>6. CASE ScheduleUpload_Handle(t)
  <2>1. PcOK' /\ ArgOK'
    BY <1>6, ReturnType, Zenon DEF ScheduleUpload_Handle, ReleaseAndReturn
  <2>2. arg[t].task \in Tasks \cup {NoTask}  BY <1>a, Zenon DEF Arguments
  <2>3. FlatOK' /\ UploadsOK'
    BY <1>6, <2>2 DEF ScheduleUpload_Handle, ReleaseAndReturn, FlatOK, UploadsOK,
                      profileVars, taskVars, httpVars
  <2> QED BY <2>1, <2>3, Zenon
<1> QED BY <1>1, <1>2, <1>3, <1>4, <1>5, <1>6, Zenon DEF ScheduleUpload

\* Retrieval, sending and finishUpload preserve types, given that the context handled is an
\* active one.
LEMMA UploadType ==
  ASSUME Typed, FinishKnowsUpload, NEW t \in Threads, Upload(t)
  PROVE  Typed'
<1> USE DEF Typed
<1> DEFINE c == arg[t].ctx
<1>a. c \in Uploads \cup {NoUpload} /\ arg[t] \in Arguments /\ arg[t].delay \in Int
  BY Zenon DEF ArgOK, Arguments
<1>1. CASE HandleNothingToUpload(t)
  <2>1. NextAfterNothing(c) \in Int  BY DEF NextAfterNothing, FlatOK
  <2>2. PcOK' /\ ArgOK'  BY <1>1, <1>a, <2>1, CallFinishType, Zenon DEF HandleNothingToUpload
  <2>3. FlatOK' /\ UploadsOK'
    BY <1>1 DEF HandleNothingToUpload, FlatOK, UploadsOK, tpmVars, profileVars, taskVars, httpVars
  <2> QED BY <2>2, <2>3, Zenon
<1>2. CASE HandlePackagingFailed(t)
  <2>1. PcOK' /\ ArgOK'  BY <1>2, <1>a, CallFinishType, Zenon DEF HandlePackagingFailed, FlatOK
  <2>2. FlatOK' /\ UploadsOK'
    BY <1>2 DEF HandlePackagingFailed, FlatOK, UploadsOK, tpmVars, profileVars, taskVars, httpVars
  <2> QED BY <2>1, <2>2, Zenon
<1>3. CASE HandleSendRequest(t)
  <2>0. c \in Uploads  BY <1>3, Zenon DEF HandleSendRequest, FinishKnowsUpload, FlatOK
  <2>1. PICK batch \in SUBSET {e \in stored : Latency[e] >= uploads[c].min} :
          /\ stored' = stored \ batch
          /\ uploads' = [uploads EXCEPT ![c] = [@ EXCEPT !.st = "sent", !.events = batch]]
    BY <1>3, Zenon DEF HandleSendRequest
  <2>2. PcOK' /\ ArgOK'  BY <1>3, ReturnType, Zenon DEF HandleSendRequest
  <2>a. batch \subseteq Events  BY Zenon DEF FlatOK
  <2>b. uploads[c] \in UploadContexts  BY <2>0, Zenon DEF UploadsOK
  <2>3. [uploads[c] EXCEPT !.st = "sent", !.events = batch] \in UploadContexts
    BY <2>a, <2>b, Zenon DEF UploadContexts
  <2>4. UploadsOK'  BY <2>1, <2>3, Zenon DEF UploadsOK
  <2>5. FlatOK'
    BY <1>3, <2>0, <2>1 DEF HandleSendRequest, FlatOK, tpmVars, profileVars, taskVars
  <2> QED BY <2>2, <2>4, <2>5, Zenon
<1>4. CASE FinishUpload(t)
  <2>1. PcOK' /\ ArgOK'
    <3>1. CASE Return(t)  BY <3>1, ReturnType, Zenon
    <3>2. CASE Goto(t, "priority") /\ arg' = [arg EXCEPT ![t].ctx = NoUpload]
      <4>1. PcOK'  BY <3>2, GotoType, Zenon DEF Labels
      <4>2. [arg[t] EXCEPT !.ctx = NoUpload] \in Arguments  BY <1>a, Zenon DEF Arguments
      <4>3. ArgOK'  BY <3>2, <4>2, Zenon DEF ArgOK
      <4> QED BY <4>1, <4>3, Zenon
    <3> QED BY <1>4, <3>1, <3>2, Zenon DEF FinishUpload
  <2>2. UploadsOK'  BY <1>4, FreeUploadType, Zenon DEF FinishUpload, UploadsOK
  <2>3. FlatOK'
    BY <1>4 DEF FinishUpload, RemoveUpload, FlatOK, profileVars, taskVars, httpVars
  <2> QED BY <2>1, <2>2, <2>3, Zenon
<1>5. CASE CalculateNewPriority(t)
  <2>1. PcOK' /\ ArgOK'
    BY <1>5, <1>a, TimersType, CallScheduleType, Zenon DEF CalculateNewPriority
  <2>2. FlatOK' /\ UploadsOK'
    BY <1>5, TimersType, ZenonT(30) DEF CalculateNewPriority, UpdateTimersIfNecessary, FlatOK, UploadsOK,
                            taskVars, httpVars
  <2> QED BY <2>1, <2>2, Zenon
<1> QED BY <1>1, <1>2, <1>3, <1>4, <1>5, Zenon DEF Upload

\* Every step of handleEventArrived preserves types.
LEMMA HandleEventArrivedType ==
  ASSUME Typed, NEW t \in Threads, HandleEventArrived(t)
  PROVE  Typed'
<1> USE DEF Typed
<1>a. arg[t].lat \in Latencies  BY Zenon DEF ArgOK, Arguments
<1>1. CASE HandleEventArrived_Check(t)
  <2>1. PcOK' /\ ArgOK'
    <3>1. CASE Return(t)  BY <3>1, ReturnType, Zenon
    <3>2. CASE /\ Goto(t, IF arg[t].lat > EventLatency_RealTime THEN "ev_upload" ELSE "ev_schedule")
               /\ UNCHANGED arg
      BY <3>2, GotoType, Zenon DEF Labels, ArgOK
    <3> QED BY <1>1, <3>1, <3>2, Zenon DEF HandleEventArrived_Check
  <2>2. FlatOK' /\ UploadsOK'
    BY <1>1 DEF HandleEventArrived_Check, FlatOK, UploadsOK, tpmVars, profileVars, taskVars, httpVars
  <2> QED BY <2>1, <2>2, Zenon
<1>2. CASE HandleEventArrived_Upload(t)
  <2>1. PcOK' /\ ArgOK' /\ UploadsOK' /\ m_activeUploads' \subseteq Uploads
    BY <1>2, <1>a, AddUploadType, Zenon DEF HandleEventArrived_Upload
  <2>2. FlatOK'
    BY <1>2, <2>1 DEF HandleEventArrived_Upload, FlatOK, profileVars, taskVars, httpVars
  <2> QED BY <2>1, <2>2, Zenon
<1>3. CASE HandleEventArrived_Schedule(t)
  <2>0. profile[2] \in Int  BY ConstantsOK, Zenon DEF FlatOK, ConstantsOK
  <2>1. m_timerdelay' \in Int /\ m_timers' \in Profiles /\ profile' \in Profiles
        /\ isTimerUpdated' \in BOOLEAN
    BY <1>3, <2>0, TimersType, Zenon
       DEF HandleEventArrived_Schedule, FlatOK, UpdateTimersIfNecessary, profileVars
  <2>2. PcOK' /\ ArgOK'
    <3>1. CASE Return(t)  BY <3>1, ReturnType, Zenon
    <3>2. CASE CallSchedule(t, m_timerdelay', NewPriority(UpdatedTimers), isTimerUpdated)
      BY <2>1, <3>2, TimersType, CallScheduleType, Zenon DEF FlatOK
    <3> QED BY <1>3, <3>1, <3>2, Zenon DEF HandleEventArrived_Schedule
  <2>3. FlatOK' /\ UploadsOK'
    BY <1>3, <2>1 DEF HandleEventArrived_Schedule, FlatOK, UploadsOK, taskVars, httpVars
  <2> QED BY <2>2, <2>3, Zenon
<1> QED BY <1>1, <1>2, <1>3, Zenon DEF HandleEventArrived

\* Every step of uploadAsync preserves types.
LEMMA UploadAsyncType ==
  ASSUME Typed, UploadAsync
  PROVE  Typed'
<1> USE DEF Typed
<1>w. "worker" \in Threads  BY Zenon DEF Threads
<1>1. ASSUME NEW a \in Tasks, UploadAsync_Pick(a) PROVE Typed'
  <2>1. PcOK'  BY <1>1, <1>w, GotoType, Zenon DEF UploadAsync_Pick, Labels
  <2>2. FlatOK' /\ UploadsOK' /\ ArgOK'
    BY <1>1 DEF UploadAsync_Pick, FlatOK, UploadsOK, ArgOK, tpmVars, profileVars, httpVars
  <2> QED BY <2>1, <2>2, Zenon
<1>2. CASE UploadAsync_Start
  <2>1. PcOK'  BY <1>2, <1>w, GotoType DEF UploadAsync_Start, Labels
  <2>2. m_runningLatency' \in Latencies  BY <1>2, Zenon DEF UploadAsync_Start, FlatOK
  <2>3. FlatOK' /\ UploadsOK' /\ ArgOK'
    BY <1>2, <2>2 DEF UploadAsync_Start, FlatOK, UploadsOK, ArgOK, profileVars, taskVars, httpVars
  <2> QED BY <2>1, <2>3, Zenon
<1>3. CASE UploadAsync_Lock
  <2>1. PcOK'  BY <1>3, <1>w, GotoType DEF UploadAsync_Lock, Labels
  <2>2. FlatOK' /\ UploadsOK' /\ ArgOK'
    BY <1>3, <1>w, ZenonT(30) DEF UploadAsync_Lock, FlatOK, UploadsOK, ArgOK, profileVars, taskVars, httpVars
  <2> QED BY <2>1, <2>2, Zenon
<1>4. CASE CancelUploadTask("worker", "ua_cancel", "ua_clear", "ua_return")
  <2>1. "ua_clear" \in Labels /\ "ua_return" \in Labels  BY Zenon DEF Labels, ClearLabels
  <2> QED BY <1>4, <1>w, <2>1, CancelUploadTaskType, Zenon
<1>5. CASE UploadAsync_Return
  <2>1. PcOK' /\ ArgOK'  BY <1>5, <1>w, ReturnType, Zenon DEF UploadAsync_Return, ReleaseAndReturn
  <2>2. FlatOK' /\ UploadsOK'
    BY <1>5 DEF UploadAsync_Return, ReleaseAndReturn, FlatOK, UploadsOK,
                profileVars, taskVars, httpVars
  <2> QED BY <2>1, <2>2, Zenon
<1>6. CASE UploadAsync_Add
  <2>1. PcOK' /\ ArgOK' /\ UploadsOK' /\ m_activeUploads' \subseteq Uploads
    BY <1>6, <1>w, AddUploadType, Zenon DEF UploadAsync_Add, FlatOK
  <2>2. FlatOK'
    BY <1>6, <2>1 DEF UploadAsync_Add, FlatOK, profileVars, taskVars, httpVars
  <2> QED BY <2>1, <2>2, Zenon
<1> QED BY <1>1, <1>2, <1>3, <1>4, <1>5, <1>6, Zenon DEF UploadAsync

\* Receiving and handling a response preserve types.
LEMMA ResponseType ==
  ASSUME Typed, NEW c \in Uploads, OnHttpResponse(c) \/ HandleResponse(c)
  PROVE  Typed'
<1> USE DEF Typed
<1>w. "worker" \in Threads  BY Zenon DEF Threads
<1>a. uploads[c] \in UploadContexts  BY Zenon DEF UploadsOK
<1>1. CASE OnHttpResponse(c)
  <2>1. PICK r \in {"successful", "rejected", "failed", "aborted"}, a \in {NoTask, m_scheduledUpload} :
          uploads' = [uploads EXCEPT ![c] = [@ EXCEPT !.st = "answered", !.res = r, !.task = a]]
    BY <1>1, Zenon DEF OnHttpResponse
  <2>2. a \in Tasks \cup {NoTask}  BY Zenon DEF FlatOK
  <2>3. [uploads[c] EXCEPT !.st = "answered", !.res = r, !.task = a] \in UploadContexts
    BY <1>a, <2>2, Zenon DEF UploadContexts
  <2>4. UploadsOK'  BY <2>1, <2>3, Zenon DEF UploadsOK
  <2>5. FlatOK' /\ PcOK' /\ ArgOK'
    BY <1>1 DEF OnHttpResponse, FlatOK, PcOK, ArgOK, tpmVars, profileVars, taskVars, httpVars
  <2> QED BY <2>4, <2>5, Zenon
<1>2. CASE HandleResponse(c)
  <2>1. PcOK' /\ ArgOK'
    BY <1>2, <1>w, CallFinishType DEF HandleResponse, BackoffDelay
  <2>2. [uploads[c] EXCEPT !.st = "open", !.events = {}, !.task = NoTask] \in UploadContexts
    BY <1>a, Zenon DEF UploadContexts
  <2>3. UploadsOK'  BY <1>2, <2>2, Zenon DEF HandleResponse, UploadsOK
  <2>4. uploads[c].events \subseteq Events /\ uploads[c].task \in Tasks \cup {NoTask}
    BY <1>a, Zenon DEF UploadContexts
  <2>5. FlatOK'
    BY <1>2, <2>4 DEF HandleResponse, FlatOK, tpmVars, profileVars
  <2> QED BY <2>1, <2>3, <2>5, Zenon
<1> QED BY <1>1, <1>2, Zenon

\* Storing an event preserves types.
LEMMA LogEventType ==
  ASSUME Typed, NEW t \in Threads, NEW e \in Events, LogEvent(t, e)
  PROVE  Typed'
<1> USE DEF Typed
<1>a. Latency[e] \in Latencies  BY ConstantsOK, Zenon DEF ConstantsOK, Latencies
<1>b. arg[t] \in Arguments  BY Zenon DEF ArgOK
<1>1. PcOK'  BY GotoType, Zenon DEF LogEvent, Labels
<1>2. [arg[t] EXCEPT !.lat = Latency[e]] \in Arguments  BY <1>a, <1>b, Zenon DEF Arguments
<1>3. ArgOK'  BY <1>2, Zenon DEF LogEvent, ArgOK
<1>4. FlatOK' /\ UploadsOK'
  BY DEF LogEvent, FlatOK, UploadsOK, tpmVars, profileVars, taskVars, httpVars
<1> QED BY <1>1, <1>3, <1>4, Zenon

\* The end of a task preserves types.
LEMMA EndOfTaskType ==
  ASSUME Typed, EndOfTask
  PROVE  Typed'
<1> USE DEF Typed
<1>1. PcOK'  BY GotoType, Zenon DEF EndOfTask, Labels, Threads
<1>2. FlatOK' /\ UploadsOK' /\ ArgOK'
  BY DEF EndOfTask, FlatOK, UploadsOK, ArgOK, tpmVars, profileVars
<1> QED BY <1>1, <1>2, Zenon

\* handleStart preserves types.
LEMMA StartType ==
  ASSUME Typed, Start
  PROVE  Typed'
<1> USE DEF Typed
<1>a. arg["user"] \in Arguments  BY Zenon DEF ArgOK, Threads
<1>1. PcOK'  BY GotoType, Zenon DEF Start, Labels, Threads
<1>2. [arg["user"] EXCEPT !.delay = HandleStartDelay] \in Arguments
  BY <1>a DEF Arguments, HandleStartDelay
<1>3. ArgOK'  BY <1>2, Zenon DEF Start, ArgOK
<1>4. FlatOK' /\ UploadsOK'
  BY Zenon DEF Start, FlatOK, UploadsOK, profileVars, taskVars, httpVars
<1> QED BY <1>1, <1>3, <1>4, Zenon

\* UploadNow preserves types.
LEMMA UploadNowType ==
  ASSUME Typed, UploadNow
  PROVE  Typed'
<1>1. \A d \in Int, l \in Latencies, f \in BOOLEAN : CallSchedule("user", d, l, f) => PcOK' /\ ArgOK'
  BY CallScheduleType, Zenon DEF Typed, Threads
<1>2. CallSchedule("user", 0, EventLatency_Normal, TRUE)  BY Zenon DEF UploadNow
<1>3. 0 \in Int /\ EventLatency_Normal \in Latencies /\ TRUE \in BOOLEAN  BY LatencyTypes
<1>4. PcOK' /\ ArgOK'  BY <1>1, <1>2, <1>3, Zenon
<1>5. FlatOK' /\ UploadsOK'
  BY DEF UploadNow, Typed, FlatOK, UploadsOK, tpmVars, profileVars, taskVars, httpVars
<1> QED BY <1>4, <1>5, Zenon DEF Typed

\* cancelAllRequests preserves types.
LEMMA CancelAllRequestsType ==
  ASSUME Typed, NEW cancel, NEW wait \in Labels, NEW next \in Labels,
         CancelAllRequests(cancel, wait, next)
  PROVE  Typed'
<1> USE DEF Typed
<1>u. "user" \in Threads  BY Zenon DEF Threads
<1>1. PcOK'  BY <1>u, GotoType, Zenon DEF CancelAllRequests
<1>2. \A c \in Uploads : /\ uploads[c] \in UploadContexts
                         /\ [uploads[c] EXCEPT !.res = "cancelled"] \in UploadContexts
  BY DEF UploadsOK, UploadContexts
<1>3. UploadsOK'  BY <1>2, Zenon DEF CancelAllRequests, UploadsOK
<1>4. FlatOK' /\ ArgOK'
  BY DEF CancelAllRequests, FlatOK, ArgOK, tpmVars, profileVars, taskVars, httpVars
<1> QED BY <1>1, <1>3, <1>4, Zenon

\* pauseAllUploads preserves types.
LEMMA PauseAllUploadsType ==
  ASSUME Typed, NEW cancel \in Labels, PauseAllUploads(cancel),
         system' \in {"new", "started", "paused", "stopping", "stopped"}
  PROVE  Typed'
<1> USE DEF Typed
<1>1. PcOK'  BY GotoType, Zenon DEF PauseAllUploads, Threads
<1>2. FlatOK' /\ UploadsOK' /\ ArgOK'
  BY DEF PauseAllUploads, FlatOK, UploadsOK, ArgOK, profileVars, taskVars, httpVars
<1> QED BY <1>1, <1>2, Zenon

\* PauseTransmission preserves types.
LEMMA PauseTransmissionType ==
  ASSUME Typed, PauseTransmission
  PROVE  Typed'
<1>1. CASE system' = "paused" /\ PauseAllUploads("pa_cancel")
  BY <1>1, PauseAllUploadsType, Zenon DEF Labels
<1>2. CASE CancelUploadTask("user", "pa_cancel", "pa_clear", "pa_http")
  BY <1>2, CancelUploadTaskType, ZenonT(30) DEF Labels, ClearLabels, Threads
<1>3. CASE CancelAllRequests("pa_http", "pa_wait", "idle")
  BY <1>3, CancelAllRequestsType, Zenon DEF Labels
<1> QED BY <1>1, <1>2, <1>3, Zenon DEF PauseTransmission

\* DeleteData preserves types.
LEMMA DeleteDataType ==
  ASSUME Typed, DeleteData
  PROVE  Typed'
<1>u. "user" \in Threads  BY Zenon DEF Threads
<1>1. ASSUME NEW l \in Labels, Goto("user", l),
             UNCHANGED <<tpmVars, profileVars, taskVars, stored, uploads, httpVars, system, arg>>
      PROVE  Typed'
  <2>1. PcOK'  BY <1>1, <1>u, GotoType, Zenon DEF Typed
  <2>2. FlatOK' /\ UploadsOK' /\ ArgOK'
    BY <1>1 DEF Typed, FlatOK, UploadsOK, ArgOK, tpmVars, profileVars, taskVars, httpVars
  <2> QED BY <2>1, <2>2, Zenon DEF Typed
<1>2. CASE CancelAllRequests("cl_http", "cl_wait", "cl_cancel")
  BY <1>2, CancelAllRequestsType DEF Labels
<1>3. CASE CancelUploadTask("user", "cl_cancel", "cl_clear", "cl_spin")
  BY <1>3, <1>u, CancelUploadTaskType, SMTT(30) DEF Labels, ClearLabels
<1>4. CASE /\ stored' = {}
           /\ uploads' = [c \in Uploads |-> [uploads[c] EXCEPT !.events = {}]]
           /\ Goto("user", "idle")
           /\ UNCHANGED <<tpmVars, profileVars, taskVars, httpVars, system, arg>>
  <2>1. PcOK'  BY <1>4, <1>u, GotoType, Zenon DEF Typed, Labels
  <2>2. \A c \in Uploads : [uploads[c] EXCEPT !.events = {}] \in UploadContexts
    BY DEF Typed, UploadsOK, UploadContexts
  <2>3. UploadsOK'  BY <1>4, <2>2, Zenon DEF UploadsOK
  <2>4. FlatOK' /\ ArgOK'
    BY <1>4 DEF Typed, FlatOK, ArgOK, tpmVars, profileVars, taskVars, httpVars
  <2> QED BY <2>1, <2>3, <2>4, Zenon DEF Typed
<1> QED BY <1>1, <1>2, <1>3, <1>4, Zenon DEF DeleteData, Labels

\* Every step of onStop preserves types.
LEMMA StopType ==
  ASSUME Typed, Stop
  PROVE  Typed'
<1>u. "user" \in Threads  BY Zenon DEF Threads
<1>1. CASE Stop_Begin
  <2>1. arg["user"] \in Arguments  BY <1>u, Zenon DEF Typed, ArgOK
  <2>2. [arg["user"] EXCEPT !.force = TRUE, !.cont = "st_drain"] \in Arguments
    BY <2>1, Zenon DEF Arguments
  <2>3. ArgOK'  BY <1>1, <2>2, <1>u, Zenon DEF Stop_Begin, Typed, ArgOK
  <2>4. PcOK'  BY <1>1, <1>u, GotoType, Zenon DEF Stop_Begin, Typed, Labels
  <2>5. FlatOK' /\ UploadsOK'
    BY <1>1 DEF Stop_Begin, Typed, FlatOK, UploadsOK, tpmVars, profileVars, taskVars, httpVars
  <2> QED BY <2>3, <2>4, <2>5, Zenon DEF Typed
<1>2. CASE Stop_Pause
  BY <1>2, PauseAllUploadsType, Zenon DEF Stop_Pause, Labels, Typed, FlatOK
<1>3. CASE CancelUploadTask("user", "sp_cancel", "sp_clear", "sp_http")
  BY <1>3, <1>u, CancelUploadTaskType, Zenon DEF Labels, ClearLabels
<1>4. CASE CancelAllRequests("sp_http", "sp_wait", "fa_http")
  BY <1>4, CancelAllRequestsType, SMTT(30) DEF Labels
<1>5. CASE Stop_FinishAllUploads
  <2>1. /\ "fa_wait" \in Labels /\ "fa_cancel" \in Labels /\ "fa_clear" \in Labels
        /\ "st_lock" \in Labels
    BY Zenon DEF Labels, ClearLabels
  <2> QED
    BY <1>5, <1>u, <2>1, CancelAllRequestsType, CancelUploadTaskType, Zenon DEF Stop_FinishAllUploads
<1>6. CASE Stop_Cancel
  <2>1. PcOK'  BY <1>6, <1>u, GotoType, Zenon DEF Stop_Cancel, Typed, Labels, ClearLabels
  <2>2. UploadsOK' /\ queued' \subseteq Tasks
    BY <1>6, EraseScheduledType, Zenon DEF Stop_Cancel, Typed, FlatOK, UploadsOK
  <2>3. FlatOK' /\ ArgOK'
    BY <1>6, <2>2 DEF Stop_Cancel, Typed, FlatOK, ArgOK, tpmVars, profileVars, httpVars
  <2> QED BY <2>1, <2>2, <2>3, Zenon DEF Typed
<1>7. CASE Stop_Abort \/ Stop_Wait \/ Stop_WaitTimedOut \/ Stop_Clear \/ Stop_Spin
  <2>1. PcOK'
    BY <1>7, <1>u, GotoType
       DEF Stop_Abort, Stop_Wait, Stop_WaitTimedOut, Stop_Clear, Stop_Spin, Typed, Labels, ClearLabels
  <2>2. UploadsOK' /\ ArgOK'
    BY <1>7, Zenon DEF Stop_Abort, Stop_Wait, Stop_WaitTimedOut, Stop_Clear, Stop_Spin, Typed, UploadsOK, ArgOK
  <2>3. FlatOK'
    BY <1>7, <1>u, ZenonT(30) DEF Stop_Abort, Stop_Wait, Stop_WaitTimedOut, Stop_Clear, Stop_Spin, Typed, FlatOK,
                      tpmVars, profileVars, taskVars, httpVars
  <2> QED BY <2>1, <2>2, <2>3, Zenon DEF Typed
<1> QED BY <1>1, <1>2, <1>3, <1>4, <1>5, <1>6, <1>7, Zenon DEF Stop

\* A change of profile preserves types.
LEMMA SetProfileType ==
  ASSUME Typed, NEW p \in Profiles, SetProfile(p)
  PROVE  Typed'
  BY DEF SetProfile, Typed, FlatOK, UploadsOK, PcOK, ArgOK, tpmVars, taskVars, httpVars

\* A stuttering step preserves types.
LEMMA StutterType ==
  ASSUME Typed, UNCHANGED vars
  PROVE  Typed'
  BY DEF vars, Typed, FlatOK, UploadsOK, PcOK, ArgOK, tpmVars, profileVars, taskVars, httpVars

\* Every step preserves types.
LEMMA NextType ==
  ASSUME Typed, FinishKnowsUpload, [Next]_vars
  PROVE  Typed'
<1>1. CASE Next
  BY <1>1, ScheduleUploadType, UploadType, HandleEventArrivedType, LogEventType, ResponseType,
     UploadAsyncType, EndOfTaskType, StartType, UploadNowType, PauseTransmissionType,
     DeleteDataType, StopType, SetProfileType, StutterType, Zenon
     DEF Next, ThreadStep, Terminated
<1> QED BY <1>1, StutterType, Zenon

-----------------------------------------------------------------------------
(* The inductive invariant. *)

Handling == {"retrieve", "finish"}

\* A context that is in use is an active upload.
InUseIsActive == \A c \in Uploads : uploads[c].st # "free" => c \in m_activeUploads

\* A task object is in one place: the queue, the worker's hands, or it is a response task.
TasksApart ==
    /\ m_itemInProgress \notin queued
    /\ \A c \in Uploads : uploads[c].task \notin queued

\* A picked task is dropped only by handleStop, which resets the flag next and leaves
\* nothing behind that could set it again.
SkippedByStop ==
    pc["worker"] = "picked" /\ m_itemInProgress = NoTask =>
        \/ pc["user"] = "st_clear"
        \/ /\ ~m_isUploadScheduled
           /\ pc["user"] = "st_spin" \/ (pc["user"] = "idle" /\ system = "stopped")

UploadsInv == InUseIsActive /\ FinishKnowsUpload
FlagInv == ScheduledFlagHasTask /\ SkippedByStop
Inv == Typed /\ UploadsInv /\ TasksApart /\ FlagInv

-----------------------------------------------------------------------------
(* UploadsInv: a context belongs to at most one thread and is active while it is in use. *)

\* No thread starts to handle a context, and no context is taken or freed.
UploadsFrame ==
    /\ m_activeUploads' = m_activeUploads
    /\ \A c \in Uploads : /\ uploads'[c].st # "free" => uploads[c].st # "free"
                          /\ uploads[c].st = "open" => uploads'[c].st = "open"
    /\ \A t \in Threads : pc'[t] \in Handling => pc[t] \in Handling /\ arg'[t].ctx = arg[t].ctx

\* Such a step keeps the invariant on upload contexts.
LEMMA UploadsFrameInv ==
  ASSUME Typed, UploadsInv, UploadsFrame
  PROVE  UploadsInv'
<1>1. InUseIsActive'  BY Zenon DEF UploadsFrame, UploadsInv, InUseIsActive
<1>2. \A t \in Threads : pc'[t] \in Handling =>
          arg'[t].ctx \in m_activeUploads' /\ uploads'[arg'[t].ctx].st = "open"
  BY Zenon DEF Typed, FlatOK, UploadsFrame, UploadsInv, FinishKnowsUpload, Handling
<1>3. pc'["user"] \in Handling /\ pc'["worker"] \in Handling => arg'["user"].ctx # arg'["worker"].ctx
  BY Zenon DEF UploadsFrame, UploadsInv, FinishKnowsUpload, Handling, Threads
<1> QED BY <1>1, <1>2, <1>3, Zenon DEF UploadsInv, FinishKnowsUpload, Handling

\* A step of one thread that ends outside the handling of a context, and leaves the contexts alone.
LEMMA LeaveInv ==
  ASSUME Typed, UploadsInv, NEW t \in Threads, NEW l, l \notin Handling, Goto(t, l),
         arg' = arg \/ \E r : arg' = [arg EXCEPT ![t] = r],
         UNCHANGED <<uploads, m_activeUploads>>
  PROVE  UploadsInv'
<1>1. \A s \in Threads : pc'[s] \in Handling => s # t /\ pc[s] \in Handling
  BY Zenon DEF Goto, Typed, PcOK
<1>2. \A s \in Threads : s # t => arg'[s] = arg[s]  BY Zenon DEF Typed, ArgOK
<1>3. UploadsFrame  BY <1>1, <1>2, Zenon DEF UploadsFrame
<1> QED BY <1>3, UploadsFrameInv, Zenon

\* A return ends the handling of a context.
LEMMA ReturnInv ==
  ASSUME Typed, UploadsInv, NEW t \in Threads, Return(t), UNCHANGED <<uploads, m_activeUploads>>
  PROVE  UploadsInv'
<1>1. arg[t].cont \notin Handling  BY Zenon DEF Typed, ArgOK, Arguments, Handling
<1>2. Goto(t, arg[t].cont) /\ arg' = [arg EXCEPT ![t] = NoArg(t)]  BY Zenon DEF Return, Goto
<1> QED BY <1>1, <1>2, LeaveInv, Zenon

\* cancelUploadTask erases tasks only.
LEMMA EraseScheduledInv ==
  ASSUME Typed, EraseScheduled
  PROVE  \A c \in Uploads : /\ uploads'[c].st # "free" => uploads[c].st # "free"
                            /\ uploads[c].st = "open" => uploads'[c].st = "open"
<1> SUFFICES ASSUME NEW c \in Uploads
             PROVE  /\ uploads'[c].st # "free" => uploads[c].st # "free"
                    /\ uploads[c].st = "open" => uploads'[c].st = "open"
  BY Zenon
<1>1. uploads[c] \in UploadContexts  BY Zenon DEF Typed, UploadsOK
<1>2. [uploads[c] EXCEPT !.st = "lost", !.task = NoTask].st = "lost"  BY <1>1, Zenon DEF UploadContexts
<1>3. uploads'[c] = uploads[c] \/ (uploads[c].st = "answered" /\ uploads'[c].st = "lost")
  BY <1>2, Zenon DEF EraseScheduled
<1> QED BY <1>3, Zenon

\* cancelUploadTask takes and frees no context.
LEMMA CancelUploadTaskInv ==
  ASSUME Typed, UploadsInv, NEW t \in Threads, NEW cancel, NEW clear, NEW next,
         clear \notin Handling, next \notin Handling, CancelUploadTask(t, cancel, clear, next)
  PROVE  UploadsInv'
<1>1. CASE EraseScheduled /\ Goto(t, IF CancelFails(t) THEN next ELSE clear)
           /\ UNCHANGED <<m_activeUploads, arg>>
  <2>1. \A s \in Threads : pc'[s] \in Handling => pc[s] \in Handling
    BY <1>1, Zenon DEF Goto, Typed, PcOK
  <2>2. UploadsFrame  BY <1>1, <2>1, EraseScheduledInv, Zenon DEF UploadsFrame
  <2> QED BY <2>2, UploadsFrameInv, Zenon
<1>2. CASE Goto(t, next) /\ UNCHANGED <<uploads, m_activeUploads, arg>>
  BY <1>2, LeaveInv, Zenon
<1> QED BY <1>1, <1>2, Zenon DEF CancelUploadTask, tpmVars

\* scheduleUpload takes and frees no context.
LEMMA ScheduleUploadInv ==
  ASSUME Typed, UploadsInv, NEW t \in Threads, ScheduleUpload(t)
  PROVE  UploadsInv'
<1>1. CASE ScheduleUpload_Lock(t)
  BY <1>1, LeaveInv, ReturnInv, Zenon DEF ScheduleUpload_Lock, Handling
<1>2. CASE ScheduleUpload_Timers(t)
  <2> DEFINE lat == AllowedLatency(arg[t].lat)
  <2>1. CASE ReleaseAndReturn(t)
    BY <1>2, <2>1, ReturnInv, Zenon DEF ScheduleUpload_Timers, ReleaseAndReturn
  <2>2. CASE /\ Goto(t, IF arg[t].force \/ arg[t].delay = 0 THEN "su_cancel" ELSE "su_exchange")
             /\ arg' = [arg EXCEPT ![t].lat = lat]
    <3> HIDE DEF lat
    <3> QED BY <1>2, <2>2, LeaveInv, Zenon DEF ScheduleUpload_Timers, Handling
  <2> QED BY <1>2, <2>1, <2>2, Zenon DEF ScheduleUpload_Timers
<1>3. CASE CancelUploadTask(t, "su_cancel", "su_clear", "su_exchange")
  BY <1>3, CancelUploadTaskInv DEF Handling
<1>4. CASE ScheduleUpload_Exchange(t)
  BY <1>4, LeaveInv, ReturnInv, Zenon DEF ScheduleUpload_Exchange, ReleaseAndReturn, Handling
<1>5. CASE ScheduleUpload_Queue(t)
  BY <1>5, LeaveInv, Zenon DEF ScheduleUpload_Queue, Handling, tpmVars
<1>6. CASE ScheduleUpload_Handle(t)
  BY <1>6, ReturnInv, Zenon DEF ScheduleUpload_Handle, ReleaseAndReturn
<1> QED BY <1>1, <1>2, <1>3, <1>4, <1>5, <1>6, Zenon DEF ScheduleUpload

\* The context a thread handles is one of the contexts.
LEMMA HandledContext ==
  ASSUME Typed, UploadsInv, NEW t \in Threads, pc[t] \in Handling
  PROVE  /\ arg[t].ctx \in Uploads
         /\ uploads[arg[t].ctx].st = "open"
         /\ \A s \in Threads : s # t /\ pc[s] \in Handling => arg[s].ctx # arg[t].ctx
<1>1. arg[t].ctx \in Uploads /\ uploads[arg[t].ctx].st = "open"
  BY Zenon DEF UploadsInv, FinishKnowsUpload, Handling, Typed, FlatOK
<1>2. \A s \in Threads : s # t /\ pc[s] \in Handling => arg[s].ctx # arg[t].ctx
  BY Zenon DEF UploadsInv, FinishKnowsUpload, Handling, Threads
<1> QED BY <1>1, <1>2, Zenon

\* finishUpload(ctx, next) for the context the thread handles already.
LEMMA CallFinishInv ==
  ASSUME Typed, UploadsInv, NEW t \in Threads, pc[t] \in Handling, NEW d,
         CallFinish(t, arg[t].ctx, d), UNCHANGED <<uploads, m_activeUploads>>
  PROVE  UploadsInv'
<1>1. arg[t] \in Arguments  BY Zenon DEF Typed, ArgOK
<1>2. [arg[t] EXCEPT !.ctx = arg[t].ctx, !.delay = d].ctx = arg[t].ctx  BY <1>1, Zenon DEF Arguments
<1>3. arg'[t] = [arg[t] EXCEPT !.ctx = arg[t].ctx, !.delay = d]
  BY Zenon DEF CallFinish, Typed, ArgOK
<1>4. \A s \in Threads : s # t => arg'[s] = arg[s] /\ pc'[s] = pc[s]
  BY Zenon DEF CallFinish, Goto, Typed, ArgOK, PcOK
<1>5. UploadsFrame  BY <1>2, <1>3, <1>4, Zenon DEF UploadsFrame
<1> QED BY <1>5, UploadsFrameInv, Zenon

\* An upload is sent, or finished, by the only thread that handles it.
LEMMA UploadInv ==
  ASSUME Typed, UploadsInv, NEW t \in Threads, Upload(t)
  PROVE  UploadsInv'
<1> DEFINE c == arg[t].ctx
<1>1. CASE HandleNothingToUpload(t)
  BY <1>1, CallFinishInv, Zenon DEF HandleNothingToUpload, Handling, tpmVars
<1>2. CASE HandlePackagingFailed(t)
  BY <1>2, CallFinishInv, Zenon DEF HandlePackagingFailed, Handling, tpmVars
<1>3. CASE HandleSendRequest(t)
  <2>1. pc[t] \in Handling  BY <1>3, Zenon DEF HandleSendRequest, Handling
  <2>2. /\ c \in Uploads
        /\ uploads[c].st = "open"
        /\ \A s \in Threads : s # t /\ pc[s] \in Handling => arg[s].ctx # c
    BY <2>1, HandledContext, Zenon
  <2> HIDE DEF c
  <2>3. \A u \in Uploads \ {c} : uploads'[u] = uploads[u]
    BY <1>3, <2>2, Zenon DEF HandleSendRequest, Typed, UploadsOK, c
  <2>4. m_activeUploads' = m_activeUploads  BY <1>3, Zenon DEF HandleSendRequest, tpmVars
  <2>5. /\ pc'[t] \notin Handling
        /\ \A s \in Threads : s # t => arg'[s] = arg[s] /\ pc'[s] = pc[s]
    BY <1>3, Zenon DEF HandleSendRequest, Return, Typed, ArgOK, PcOK, Arguments, Handling
  <2>6. InUseIsActive'  BY <2>2, <2>3, <2>4, Zenon DEF UploadsInv, InUseIsActive
  <2>7. \A s \in Threads : pc'[s] \in Handling =>
           arg'[s].ctx \in m_activeUploads' /\ uploads'[arg'[s].ctx].st = "open"
    BY <2>2, <2>3, <2>4, <2>5 DEF UploadsInv, FinishKnowsUpload, Handling, Typed, FlatOK
  <2>8. ~(pc'["user"] \in Handling /\ pc'["worker"] \in Handling)  BY <2>5, Zenon DEF Threads
  <2> QED BY <2>6, <2>7, <2>8, Zenon DEF UploadsInv, FinishKnowsUpload, Handling
<1>4. CASE FinishUpload(t)
  <2>1. pc[t] \in Handling  BY <1>4, Zenon DEF FinishUpload, Handling
  <2>2. /\ c \in Uploads
        /\ \A s \in Threads : s # t /\ pc[s] \in Handling => arg[s].ctx # c
    BY <2>1, HandledContext, Zenon
  <2>3. /\ \A u \in Uploads \ {c} : uploads'[u] = uploads[u]
        /\ uploads'[c] = FreeUpload
    BY <1>4, <2>2, Zenon DEF FinishUpload, Typed, UploadsOK
  <2>4. m_activeUploads' = m_activeUploads \ {c}  BY <1>4, Zenon DEF FinishUpload, RemoveUpload
  <2>5. /\ pc'[t] \notin Handling
        /\ \A s \in Threads : s # t => arg'[s] = arg[s] /\ pc'[s] = pc[s]
    BY <1>4 DEF FinishUpload, Return, Goto, Typed, ArgOK, PcOK, Arguments, Handling
  <2> HIDE DEF c
  <2>6. InUseIsActive'  BY <2>2, <2>3, <2>4 DEF UploadsInv, InUseIsActive, FreeUpload
  <2>7. \A s \in Threads : pc'[s] \in Handling =>
           arg'[s].ctx \in m_activeUploads' /\ uploads'[arg'[s].ctx].st = "open"
    BY <2>2, <2>3, <2>4, <2>5 DEF UploadsInv, FinishKnowsUpload, Handling, Typed, FlatOK
  <2>8. ~(pc'["user"] \in Handling /\ pc'["worker"] \in Handling)  BY <2>5, Zenon DEF Threads
  <2> QED BY <2>6, <2>7, <2>8, Zenon DEF UploadsInv, FinishKnowsUpload, Handling
<1>5. CASE CalculateNewPriority(t)
  BY <1>5, LeaveInv, Zenon DEF CalculateNewPriority, CallSchedule, Handling
<1> QED BY <1>1, <1>2, <1>3, <1>4, <1>5, Zenon DEF Upload

\* A new upload takes a context that nobody uses.
LEMMA AddUploadInv ==
  ASSUME Typed, UploadsInv, NEW t \in Threads, pc[t] \notin Handling, NEW min, AddUpload(t, min)
  PROVE  UploadsInv'
<1>1. PICK c \in Uploads :
        /\ uploads[c].st = "free"
        /\ uploads' = [uploads EXCEPT ![c] = [FreeUpload EXCEPT !.st = "open", !.min = min]]
        /\ m_activeUploads' = m_activeUploads \cup {c}
        /\ arg' = [arg EXCEPT ![t] = [NoArg(t) EXCEPT !.ctx = c]]
  BY Zenon DEF AddUpload, UnusedUploads
<1>2. /\ uploads'[c].st = "open"
      /\ \A u \in Uploads \ {c} : uploads'[u] = uploads[u]
  BY <1>1, Zenon DEF Typed, UploadsOK, FreeUpload
<1>3. /\ arg'[t].ctx = c
      /\ \A s \in Threads : s # t => arg'[s] = arg[s] /\ pc'[s] = pc[s]
  BY <1>1 DEF AddUpload, Goto, Typed, ArgOK, PcOK, NoArg
<1>4. \A s \in Threads : s # t /\ pc[s] \in Handling => arg[s].ctx \in Uploads \ {c}
  BY <1>1, Zenon DEF UploadsInv, FinishKnowsUpload, Handling, Typed, FlatOK
<1>5. InUseIsActive'  BY <1>1, <1>2, Zenon DEF UploadsInv, InUseIsActive
<1>6. \A s \in Threads : pc'[s] \in Handling =>
         arg'[s].ctx \in m_activeUploads' /\ uploads'[arg'[s].ctx].st = "open"
  BY <1>1, <1>2, <1>3, <1>4 DEF UploadsInv, FinishKnowsUpload, Handling
<1>7. pc'["user"] \in Handling /\ pc'["worker"] \in Handling => arg'["user"].ctx # arg'["worker"].ctx
  BY <1>3, <1>4, Zenon DEF Threads
<1> QED BY <1>5, <1>6, <1>7, Zenon DEF UploadsInv, FinishKnowsUpload, Handling

\* handleEventArrived handles a context only by adding a new one.
LEMMA HandleEventArrivedInv ==
  ASSUME Typed, UploadsInv, NEW t \in Threads, HandleEventArrived(t)
  PROVE  UploadsInv'
<1>1. CASE HandleEventArrived_Check(t)
  BY <1>1, LeaveInv, ReturnInv, Zenon DEF HandleEventArrived_Check, Handling, tpmVars
<1>2. CASE HandleEventArrived_Upload(t)
  BY <1>2, AddUploadInv, Zenon DEF HandleEventArrived_Upload, Handling
<1>3. CASE HandleEventArrived_Schedule(t)
  <2>1. CASE Return(t)
    BY <1>3, <2>1, ReturnInv, Zenon DEF HandleEventArrived_Schedule
  <2>2. CASE CallSchedule(t, m_timerdelay', NewPriority(UpdatedTimers), isTimerUpdated)
    BY <1>3, <2>2, LeaveInv, Zenon DEF HandleEventArrived_Schedule, CallSchedule, Handling
  <2> QED BY <1>3, <2>1, <2>2, Zenon DEF HandleEventArrived_Schedule
<1> QED BY <1>1, <1>2, <1>3, Zenon DEF HandleEventArrived

\* uploadAsync handles a context only by adding a new one.
LEMMA UploadAsyncInv ==
  ASSUME Typed, UploadsInv, UploadAsync
  PROVE  UploadsInv'
<1>w. "worker" \in Threads  BY Zenon DEF Threads
<1>1. ASSUME NEW a \in Tasks, UploadAsync_Pick(a) PROVE UploadsInv'
  BY <1>1, <1>w, LeaveInv, Zenon DEF UploadAsync_Pick, Handling, tpmVars
<1>2. CASE UploadAsync_Start
  BY <1>2, <1>w, LeaveInv, Zenon DEF UploadAsync_Start, Handling
<1>3. CASE UploadAsync_Lock
  BY <1>3, <1>w, LeaveInv, Zenon DEF UploadAsync_Lock, Handling
<1>4. CASE CancelUploadTask("worker", "ua_cancel", "ua_clear", "ua_return")
  BY <1>4, <1>w, CancelUploadTaskInv DEF Handling
<1>5. CASE UploadAsync_Return
  BY <1>5, <1>w, ReturnInv, Zenon DEF UploadAsync_Return, ReleaseAndReturn
<1>6. CASE UploadAsync_Add
  BY <1>6, <1>w, AddUploadInv, Zenon DEF UploadAsync_Add, Handling
<1> QED BY <1>1, <1>2, <1>3, <1>4, <1>5, <1>6, Zenon DEF UploadAsync

\* A response belongs to the HTTP client until the worker, and nobody else, takes it.
LEMMA ResponseInv ==
  ASSUME Typed, UploadsInv, NEW c \in Uploads, OnHttpResponse(c) \/ HandleResponse(c)
  PROVE  UploadsInv'
<1>a. uploads[c] \in UploadContexts  BY Zenon DEF Typed, UploadsOK
<1>1. CASE OnHttpResponse(c)
  <2>1. uploads[c].st = "sent"  BY <1>1, Zenon DEF OnHttpResponse, AwaitsResponse
  <2>2. \A u \in Uploads \ {c} : uploads'[u] = uploads[u]
    BY <1>1, Zenon DEF OnHttpResponse, Typed, UploadsOK
  <2>3. UploadsFrame  BY <1>1, <2>1, <2>2, Zenon DEF UploadsFrame, OnHttpResponse, tpmVars
  <2> QED BY <2>3, UploadsFrameInv, Zenon
<1>2. CASE HandleResponse(c)
  <2>1. uploads[c].st = "answered" /\ pc["worker"] = "idle"  BY <1>2, Zenon DEF HandleResponse
  <2>2. /\ uploads'[c].st = "open"
        /\ \A u \in Uploads \ {c} : uploads'[u] = uploads[u]
    BY <1>2, <1>a, Zenon DEF HandleResponse, Typed, UploadsOK, UploadContexts
  <2>3. m_activeUploads' = m_activeUploads  BY <1>2, Zenon DEF HandleResponse, tpmVars
  <2>4. arg["worker"] \in Arguments  BY Zenon DEF Typed, ArgOK, Threads
  <2>5. \A d : [arg["worker"] EXCEPT !.ctx = c, !.delay = d].ctx = c  BY <2>4, Zenon DEF Arguments
  <2>6. arg'["worker"].ctx = c
    BY <1>2, <2>5, Zenon DEF HandleResponse, CallFinish, Typed, ArgOK, Threads
  <2>7. pc'["user"] = pc["user"] /\ arg'["user"] = arg["user"]
    BY <1>2, Zenon DEF HandleResponse, CallFinish, Goto, Typed, ArgOK, PcOK, Threads
  <2>8. c \in m_activeUploads  BY <2>1, Zenon DEF UploadsInv, InUseIsActive
  <2>9. pc["user"] \in Handling => arg["user"].ctx \in Uploads \ {c}
    BY <2>1, Zenon DEF UploadsInv, FinishKnowsUpload, Handling, Typed, FlatOK, Threads
  <2>10. InUseIsActive'  BY <2>2, <2>3, <2>8, Zenon DEF UploadsInv, InUseIsActive
  <2>11. pc'["user"] \in Handling =>
           arg'["user"].ctx \in m_activeUploads' /\ uploads'[arg'["user"].ctx].st = "open"
    BY <2>2, <2>3, <2>7, <2>9, Zenon DEF UploadsInv, FinishKnowsUpload, Handling, Threads
  <2>12. arg'["worker"].ctx \in m_activeUploads' /\ uploads'[arg'["worker"].ctx].st = "open"
    BY <2>2, <2>3, <2>6, <2>8, Zenon
  <2>13. pc'["user"] \in Handling => arg'["user"].ctx # arg'["worker"].ctx
    BY <2>6, <2>7, <2>9, Zenon
  <2> QED BY <2>10, <2>11, <2>12, <2>13, Zenon DEF UploadsInv, FinishKnowsUpload, Handling, Threads
<1> QED BY <1>1, <1>2, Zenon

\* cancelAllRequests marks requests; it neither takes nor frees a context.
LEMMA CancelAllRequestsInv ==
  ASSUME Typed, UploadsInv, NEW cancel, NEW wait, NEW next,
         wait \notin Handling, next \notin Handling, CancelAllRequests(cancel, wait, next)
  PROVE  UploadsInv'
<1>u. "user" \in Threads  BY Zenon DEF Threads
<1>1. CASE /\ uploads' = [c \in Uploads |-> IF uploads[c].st = "sent"
                                            THEN [uploads[c] EXCEPT !.res = "cancelled"]
                                            ELSE uploads[c]]
           /\ Goto("user", wait)
           /\ UNCHANGED <<m_activeUploads, arg>>
  <2>1. \A c \in Uploads : uploads[c] \in UploadContexts  BY Zenon DEF Typed, UploadsOK
  <2>2. \A c \in Uploads : uploads'[c].st = uploads[c].st  BY <1>1, <2>1, Zenon DEF UploadContexts
  <2>3. \A s \in Threads : pc'[s] \in Handling => pc[s] \in Handling
    BY <1>1, Zenon DEF Goto, Typed, PcOK
  <2>4. UploadsFrame  BY <1>1, <2>2, <2>3, Zenon DEF UploadsFrame
  <2> QED BY <2>4, UploadsFrameInv, Zenon
<1>2. CASE Goto("user", next) /\ UNCHANGED <<uploads, m_activeUploads, arg>>
  BY <1>2, <1>u, LeaveInv, Zenon
<1> QED BY <1>1, <1>2, Zenon DEF CancelAllRequests, tpmVars

\* The API calls handle no context themselves.
LEMMA ApiInv ==
  ASSUME Typed, UploadsInv, Start \/ UploadNow \/ PauseTransmission \/ DeleteData
  PROVE  UploadsInv'
<1>u. "user" \in Threads  BY Zenon DEF Threads
<1>1. CASE Start  BY <1>1, <1>u, LeaveInv, Zenon DEF Start, Handling
<1>2. CASE UploadNow  BY <1>2, <1>u, LeaveInv, Zenon DEF UploadNow, CallSchedule, Handling, tpmVars
<1>3. CASE PauseTransmission
  <2>1. CASE PauseAllUploads("pa_cancel")  BY <2>1, <1>u, LeaveInv, Zenon DEF PauseAllUploads, Handling
  <2>2. CASE CancelUploadTask("user", "pa_cancel", "pa_clear", "pa_http")
    BY <2>2, <1>u, CancelUploadTaskInv DEF Handling
  <2>3. CASE CancelAllRequests("pa_http", "pa_wait", "idle")
    BY <2>3, CancelAllRequestsInv, Zenon DEF Handling
  <2> QED BY <1>3, <2>1, <2>2, <2>3, Zenon DEF PauseTransmission
<1>4. CASE DeleteData
  <2>1. CASE \/ Goto("user", "cl_http") /\ UNCHANGED <<tpmVars, uploads, arg>>
             \/ Goto("user", "cl_delete") /\ UNCHANGED <<tpmVars, uploads, arg>>
    BY <2>1, <1>u, LeaveInv, Zenon DEF Handling, tpmVars
  <2>2. CASE CancelAllRequests("cl_http", "cl_wait", "cl_cancel")
    BY <2>2, CancelAllRequestsInv, Zenon DEF Handling
  <2>3. CASE CancelUploadTask("user", "cl_cancel", "cl_clear", "cl_spin")
    BY <2>3, <1>u, CancelUploadTaskInv DEF Handling
  <2>4. CASE /\ uploads' = [c \in Uploads |-> [uploads[c] EXCEPT !.events = {}]]
             /\ Goto("user", "idle")
             /\ UNCHANGED <<tpmVars, arg>>
    <3>1. \A c \in Uploads : uploads[c] \in UploadContexts  BY Zenon DEF Typed, UploadsOK
    <3>2. \A c \in Uploads : uploads'[c].st = uploads[c].st  BY <2>4, <3>1, Zenon DEF UploadContexts
    <3>3. \A s \in Threads : pc'[s] \in Handling => pc[s] \in Handling
      BY <2>4, Zenon DEF Goto, Typed, PcOK, Handling
    <3>4. UploadsFrame  BY <2>4, <3>2, <3>3, Zenon DEF UploadsFrame, tpmVars
    <3> QED BY <3>4, UploadsFrameInv, Zenon
  <2> QED BY <1>4, <2>1, <2>2, <2>3, <2>4, Zenon DEF DeleteData
<1> QED BY <1>1, <1>2, <1>3, <1>4, Zenon

\* onStop handles no context itself.
LEMMA StopInv ==
  ASSUME Typed, UploadsInv, Stop
  PROVE  UploadsInv'
<1>u. "user" \in Threads  BY Zenon DEF Threads
<1>1. CASE Stop_Begin
  <2>1. \E l \in {"su_lock", "st_drain"} : Goto("user", l)  BY <1>1, Zenon DEF Stop_Begin
  <2>2. arg' = arg \/ \E r : arg' = [arg EXCEPT !["user"] = r]
    BY <1>1, Zenon DEF Stop_Begin, Typed, ArgOK
  <2>3. UNCHANGED <<uploads, m_activeUploads>>  BY <1>1, Zenon DEF Stop_Begin, tpmVars
  <2> QED BY <2>1, <2>2, <2>3, <1>u, LeaveInv, Zenon DEF Handling
<1>2. CASE Stop_Pause  BY <1>2, <1>u, LeaveInv, Zenon DEF Stop_Pause, PauseAllUploads, Handling
<1>3. CASE CancelUploadTask("user", "sp_cancel", "sp_clear", "sp_http")
  BY <1>3, <1>u, CancelUploadTaskInv DEF Handling
<1>4. CASE CancelAllRequests("sp_http", "sp_wait", "fa_http")
  BY <1>4, CancelAllRequestsInv, Zenon DEF Handling
<1>5. CASE Stop_FinishAllUploads
  BY <1>5, <1>u, CancelAllRequestsInv, CancelUploadTaskInv DEF Stop_FinishAllUploads, Handling
<1>6. CASE Stop_Cancel
  <2>1. \A s \in Threads : pc'[s] \in Handling => pc[s] \in Handling
    BY <1>6, Zenon DEF Stop_Cancel, Goto, Typed, PcOK, Handling
  <2>2. UploadsFrame
    BY <1>6, <2>1, EraseScheduledInv, Zenon DEF Stop_Cancel, UploadsFrame, tpmVars
  <2> QED BY <2>2, UploadsFrameInv, Zenon
<1>7. CASE Stop_Abort \/ Stop_Wait \/ Stop_WaitTimedOut \/ Stop_Clear \/ Stop_Spin
  <2>1. \E l \in {"st_cancel", "st_clear", "st_spin", "idle"} : Goto("user", l)
    BY <1>7, Zenon DEF Stop_Abort, Stop_Wait, Stop_WaitTimedOut, Stop_Clear, Stop_Spin
  <2>2. UNCHANGED <<uploads, m_activeUploads, arg>>
    BY <1>7, Zenon DEF Stop_Abort, Stop_Wait, Stop_WaitTimedOut, Stop_Clear, Stop_Spin, tpmVars
  <2> QED BY <2>1, <2>2, <1>u, LeaveInv, Zenon DEF Handling
<1> QED BY <1>1, <1>2, <1>3, <1>4, <1>5, <1>6, <1>7, Zenon DEF Stop

\* Every step preserves the invariant on upload contexts.
LEMMA UploadsInvStep ==
  ASSUME Typed, UploadsInv, [Next]_vars
  PROVE  UploadsInv'
<1>1. ASSUME NEW t \in Threads, NEW e \in Events, LogEvent(t, e) PROVE UploadsInv'
  <2>1. arg' = [arg EXCEPT ![t] = [arg[t] EXCEPT !.lat = Latency[e]]]
    BY <1>1, Zenon DEF LogEvent, Typed, ArgOK
  <2> QED BY <1>1, <2>1, LeaveInv, Zenon DEF LogEvent, Handling, tpmVars
<1>2. CASE EndOfTask
  BY <1>2, LeaveInv, Zenon DEF EndOfTask, Handling, tpmVars, Threads
<1>3. ASSUME NEW p \in Profiles, SetProfile(p) PROVE UploadsInv'
  BY <1>3, UploadsFrameInv, Zenon DEF SetProfile, UploadsFrame, tpmVars
<1>4. CASE UNCHANGED vars
  BY <1>4, UploadsFrameInv, Zenon DEF vars, UploadsFrame, tpmVars
<1>5. CASE Next
  BY <1>1, <1>2, <1>3, <1>4, <1>5, ScheduleUploadInv, UploadInv, HandleEventArrivedInv, ResponseInv,
     UploadAsyncInv, ApiInv, StopInv, Zenon
     DEF Next, ThreadStep, Terminated
<1> QED BY <1>4, <1>5, Zenon

-----------------------------------------------------------------------------
(* TasksApart. *)

\* No task is queued, picked or created.
TasksFrame ==
    /\ queued' \subseteq queued
    /\ m_itemInProgress' \in {m_itemInProgress, NoTask}
    /\ \A c \in Uploads : uploads'[c].task \in {uploads[c].task, NoTask}

\* Such a step keeps the tasks apart.
LEMMA TasksFrameApart ==
  ASSUME Typed, TasksApart, TasksFrame
  PROVE  TasksApart'
  BY ConstantsOK, ZenonT(30) DEF ConstantsOK, Typed, FlatOK, TasksApart, TasksFrame

\* Erasing the task at the handle keeps the tasks apart.
LEMMA EraseScheduledApart ==
  ASSUME Typed, TasksApart, EraseScheduled, UNCHANGED m_itemInProgress
  PROVE  TasksApart'
<1>1. ASSUME NEW c \in Uploads PROVE uploads'[c].task \in {uploads[c].task, NoTask}
  <2>1. uploads[c] \in UploadContexts  BY Zenon DEF Typed, UploadsOK
  <2>2. [uploads[c] EXCEPT !.st = "lost", !.task = NoTask].task = NoTask  BY <2>1, Zenon DEF UploadContexts
  <2> QED BY <2>2, Zenon DEF EraseScheduled
<1>2. TasksFrame  BY <1>1, Zenon DEF TasksFrame, EraseScheduled
<1> QED BY <1>2, TasksFrameApart, Zenon

\* cancelUploadTask keeps the tasks apart.
LEMMA CancelUploadTaskApart ==
  ASSUME Typed, TasksApart, NEW t, NEW cancel, NEW clear, NEW next,
         CancelUploadTask(t, cancel, clear, next)
  PROVE  TasksApart'
<1>1. CASE EraseScheduled /\ UNCHANGED m_itemInProgress  BY <1>1, EraseScheduledApart, Zenon
<1>2. CASE UNCHANGED <<taskVars, uploads>>
  BY <1>2, TasksFrameApart, Zenon DEF TasksFrame, taskVars
<1> QED BY <1>1, <1>2, Zenon DEF CancelUploadTask

\* cancelAllRequests keeps the tasks apart.
LEMMA CancelAllRequestsApart ==
  ASSUME Typed, TasksApart, NEW cancel, NEW wait, NEW next, CancelAllRequests(cancel, wait, next)
  PROVE  TasksApart'
<1>1. \A c \in Uploads : uploads[c] \in UploadContexts  BY Zenon DEF Typed, UploadsOK
<1>2. \A c \in Uploads : uploads'[c].task = uploads[c].task
  BY <1>1 DEF CancelAllRequests, UploadContexts
<1>3. TasksFrame  BY <1>2, Zenon DEF CancelAllRequests, TasksFrame, taskVars
<1> QED BY <1>3, TasksFrameApart, Zenon

\* scheduleUpload gives its task an address that is not in use.
LEMMA ScheduleUploadApart ==
  ASSUME Typed, TasksApart, NEW t \in Threads, ScheduleUpload(t)
  PROVE  TasksApart'
<1>1. CASE ScheduleUpload_Lock(t) \/ ScheduleUpload_Timers(t) \/ ScheduleUpload_Exchange(t)
           \/ ScheduleUpload_Handle(t)
  <2>1. UNCHANGED <<taskVars, uploads>>
    BY <1>1, Zenon DEF ScheduleUpload_Lock, ScheduleUpload_Timers, ScheduleUpload_Exchange,
                ScheduleUpload_Handle
  <2> QED BY <2>1, TasksFrameApart, Zenon DEF TasksFrame, taskVars
<1>2. CASE CancelUploadTask(t, "su_cancel", "su_clear", "su_exchange")
  BY <1>2, CancelUploadTaskApart, Zenon
<1>3. CASE ScheduleUpload_Queue(t)
  BY <1>3, Zenon DEF ScheduleUpload_Queue, TasksApart, LiveTasks
<1> QED BY <1>1, <1>2, <1>3, Zenon DEF ScheduleUpload

\* Sending and finishing an upload create no task.
LEMMA UploadApart ==
  ASSUME Typed, UploadsInv, TasksApart, NEW t \in Threads, Upload(t)
  PROVE  TasksApart'
<1>1. CASE HandleNothingToUpload(t) \/ HandlePackagingFailed(t) \/ CalculateNewPriority(t)
  <2>1. UNCHANGED <<taskVars, uploads>>
    BY <1>1, Zenon DEF HandleNothingToUpload, HandlePackagingFailed, CalculateNewPriority
  <2> QED BY <2>1, TasksFrameApart, Zenon DEF TasksFrame, taskVars
<1>2. CASE HandleSendRequest(t) \/ FinishUpload(t)
  <2>1. arg[t].ctx \in Uploads
    BY <1>2, HandledContext, Zenon DEF HandleSendRequest, FinishUpload, Handling
  <2>2. uploads[arg[t].ctx] \in UploadContexts  BY <2>1, Zenon DEF Typed, UploadsOK
  <2>3. \A b : [uploads[arg[t].ctx] EXCEPT !.st = "sent", !.events = b].task = uploads[arg[t].ctx].task
    BY <2>2, Zenon DEF UploadContexts
  <2>4. FreeUpload.task = NoTask  BY Zenon DEF FreeUpload
  <2>5. \A c \in Uploads : uploads'[c].task \in {uploads[c].task, NoTask}
    <3>1. CASE HandleSendRequest(t)
      <4>1. PICK b : uploads' = [uploads EXCEPT ![arg[t].ctx] = [@ EXCEPT !.st = "sent", !.events = b]]
        BY <3>1, Zenon DEF HandleSendRequest
      <4> QED BY <4>1, <2>1, <2>3, Zenon DEF Typed, UploadsOK
    <3>2. CASE FinishUpload(t)
      BY <3>2, <2>1, <2>4, Zenon DEF FinishUpload, Typed, UploadsOK
    <3> QED BY <1>2, <3>1, <3>2, Zenon
  <2>6. TasksFrame  BY <1>2, <2>5, Zenon DEF TasksFrame, HandleSendRequest, FinishUpload, taskVars
  <2> QED BY <2>6, TasksFrameApart, Zenon
<1> QED BY <1>1, <1>2, Zenon DEF Upload

\* addUpload creates no task.
LEMMA AddUploadApart ==
  ASSUME Typed, TasksApart, NEW t \in Threads, NEW min, AddUpload(t, min), UNCHANGED taskVars
  PROVE  TasksApart'
<1>1. [FreeUpload EXCEPT !.st = "open", !.min = min].task = NoTask  BY Zenon DEF FreeUpload
<1>2. \A c \in Uploads : uploads'[c].task \in {uploads[c].task, NoTask}
  BY <1>1, Zenon DEF AddUpload, Typed, UploadsOK
<1>3. TasksFrame  BY <1>2, Zenon DEF TasksFrame, taskVars
<1> QED BY <1>3, TasksFrameApart, Zenon

\* The worker takes a task out of the queue, or a response out of the answered ones; a
\* response task gets an address that is not in use.
LEMMA WorkerApart ==
  ASSUME Typed, TasksApart,
         UploadAsync \/ EndOfTask \/ \E c \in Uploads : OnHttpResponse(c) \/ HandleResponse(c)
  PROVE  TasksApart'
<1>1. ASSUME NEW a \in Tasks, UploadAsync_Pick(a) PROVE TasksApart'
  BY <1>1, Zenon DEF UploadAsync_Pick, TasksApart
<1>2. CASE UploadAsync_Start \/ UploadAsync_Lock \/ UploadAsync_Return
  <2>1. UNCHANGED <<taskVars, uploads>>
    BY <1>2, Zenon DEF UploadAsync_Start, UploadAsync_Lock, UploadAsync_Return
  <2> QED BY <2>1, TasksFrameApart, Zenon DEF TasksFrame, taskVars
<1>3. CASE CancelUploadTask("worker", "ua_cancel", "ua_clear", "ua_return")
  BY <1>3, CancelUploadTaskApart, Zenon
<1>4. CASE UploadAsync_Add
  BY <1>4, AddUploadApart, Zenon DEF UploadAsync_Add, Threads
<1>5. CASE EndOfTask
  BY <1>5, TasksFrameApart, Zenon DEF EndOfTask, TasksFrame
<1>6. ASSUME NEW c \in Uploads, OnHttpResponse(c) PROVE TasksApart'
  <2>1. PICK r \in {"successful", "rejected", "failed", "aborted"}, a \in {NoTask, m_scheduledUpload} :
          /\ a # NoTask => a \notin LiveTasks
          /\ uploads' = [uploads EXCEPT ![c] = [@ EXCEPT !.st = "answered", !.res = r, !.task = a]]
    BY <1>6, Zenon DEF OnHttpResponse
  <2>2. uploads[c] \in UploadContexts  BY Zenon DEF Typed, UploadsOK
  <2>3. [uploads[c] EXCEPT !.st = "answered", !.res = r, !.task = a].task = a
    BY <2>2, Zenon DEF UploadContexts
  <2>4. a \notin queued  BY <2>1, ConstantsOK, Zenon DEF ConstantsOK, LiveTasks, Typed, FlatOK
  <2>5. \A u \in Uploads : uploads'[u].task \notin queued
    <3>1. uploads'[c].task = a  BY <2>1, <2>3, Zenon DEF Typed, UploadsOK
    <3>2. \A u \in Uploads \ {c} : uploads'[u] = uploads[u]  BY <2>1, Zenon DEF Typed, UploadsOK
    <3> QED BY <3>1, <3>2, <2>4, Zenon DEF TasksApart
  <2>6. UNCHANGED taskVars  BY <1>6, Zenon DEF OnHttpResponse
  <2> QED BY <2>5, <2>6, Zenon DEF TasksApart, taskVars
<1>7. ASSUME NEW c \in Uploads, HandleResponse(c) PROVE TasksApart'
  <2>1. uploads[c] \in UploadContexts  BY Zenon DEF Typed, UploadsOK
  <2>2. [uploads[c] EXCEPT !.st = "open", !.events = {}, !.task = NoTask].task = NoTask
    BY <2>1, Zenon DEF UploadContexts
  <2>3. NoTask \notin queued  BY ConstantsOK, Zenon DEF ConstantsOK, Typed, FlatOK
  <2>4. \A u \in Uploads : uploads'[u].task \notin queued
    BY <1>7, <2>2, <2>3, Zenon DEF HandleResponse, TasksApart, Typed, UploadsOK
  <2>5. m_itemInProgress' \notin queued /\ queued' = queued
    BY <1>7, Zenon DEF HandleResponse, TasksApart
  <2> QED BY <2>4, <2>5, Zenon DEF TasksApart
<1> QED BY <1>1, <1>2, <1>3, <1>4, <1>5, <1>6, <1>7, Zenon DEF UploadAsync

\* Pause, cleanup and stop only take tasks away.
LEMMA ApiApart ==
  ASSUME Typed, TasksApart, PauseTransmission \/ DeleteData \/ Stop
  PROVE  TasksApart'
<1>1. ASSUME UNCHANGED <<taskVars, uploads>> PROVE TasksApart'
  BY <1>1, TasksFrameApart, Zenon DEF TasksFrame, taskVars
<1>2. CASE PauseTransmission
  BY <1>1, <1>2, CancelUploadTaskApart, CancelAllRequestsApart, Zenon
     DEF PauseTransmission, PauseAllUploads
<1>3. CASE DeleteData
  <2>1. CASE UNCHANGED taskVars /\ uploads' = [c \in Uploads |-> [uploads[c] EXCEPT !.events = {}]]
    <3>1. \A c \in Uploads : uploads[c] \in UploadContexts  BY Zenon DEF Typed, UploadsOK
    <3>2. \A c \in Uploads : uploads'[c].task = uploads[c].task  BY <2>1, <3>1, Zenon DEF UploadContexts
    <3>3. TasksFrame  BY <2>1, <3>2, Zenon DEF TasksFrame, taskVars
    <3> QED BY <3>3, TasksFrameApart, Zenon
  <2> QED BY <1>1, <1>3, <2>1, CancelUploadTaskApart, CancelAllRequestsApart, Zenon DEF DeleteData
<1>4. CASE Stop_Cancel
  <2>1. CASE UNCHANGED <<queued, uploads>>
    BY <1>4, <2>1, TasksFrameApart, Zenon DEF Stop_Cancel, TasksFrame
  <2>2. CASE EraseScheduled  BY <1>4, <2>2, EraseScheduledApart, Zenon DEF Stop_Cancel
  <2> QED BY <1>4, <2>1, <2>2, Zenon DEF Stop_Cancel
<1>5. CASE Stop_Wait  BY <1>5, TasksFrameApart, Zenon DEF Stop_Wait, TasksFrame
<1>6. CASE Stop_Begin \/ Stop_Pause \/ Stop_Abort \/ Stop_WaitTimedOut \/ Stop_Clear \/ Stop_Spin
  <2>1. UNCHANGED <<taskVars, uploads>>
    BY <1>6, Zenon DEF Stop_Begin, Stop_Pause, PauseAllUploads, Stop_Abort, Stop_WaitTimedOut, Stop_Clear,
                Stop_Spin
  <2> QED BY <1>1, <2>1, Zenon
<1>7. CASE CancelUploadTask("user", "sp_cancel", "sp_clear", "sp_http")
           \/ CancelAllRequests("sp_http", "sp_wait", "fa_http") \/ Stop_FinishAllUploads
  BY <1>7, CancelUploadTaskApart, CancelAllRequestsApart, Zenon DEF Stop_FinishAllUploads
<1> QED BY <1>2, <1>3, <1>4, <1>5, <1>6, <1>7, Zenon DEF Stop

\* Every step keeps the tasks apart.
LEMMA TasksApartStep ==
  ASSUME Typed, UploadsInv, TasksApart, [Next]_vars
  PROVE  TasksApart'
<1>1. ASSUME UNCHANGED <<taskVars, uploads>> PROVE TasksApart'
  BY <1>1, TasksFrameApart, Zenon DEF TasksFrame, taskVars
<1>2. ASSUME NEW t \in Threads, HandleEventArrived(t) PROVE TasksApart'
  <2>1. CASE HandleEventArrived_Upload(t)  BY <2>1, AddUploadApart, Zenon DEF HandleEventArrived_Upload
  <2> QED BY <1>1, <1>2, <2>1, Zenon
          DEF HandleEventArrived, HandleEventArrived_Check, HandleEventArrived_Schedule
<1>3. ASSUME NEW t \in Threads, NEW e \in Events, LogEvent(t, e) PROVE TasksApart'
  BY <1>1, <1>3, Zenon DEF LogEvent
<1>4. CASE Start \/ UploadNow  BY <1>1, <1>4, Zenon DEF Start, UploadNow
<1>5. ASSUME NEW p \in Profiles, SetProfile(p) PROVE TasksApart'  BY <1>1, <1>5, Zenon DEF SetProfile
<1>6. CASE UNCHANGED vars  BY <1>1, <1>6, Zenon DEF vars
<1>7. CASE Next
  BY <1>2, <1>3, <1>4, <1>5, <1>6, <1>7, ScheduleUploadApart, UploadApart, WorkerApart, ApiApart, Zenon
     DEF Next, ThreadStep, Terminated
<1> QED BY <1>6, <1>7, Zenon

-----------------------------------------------------------------------------
(* FlagInv: the flag has an owner who will reset it. *)

\* The control points that own the flag.
Owning == {"su_queue", "picked", "ua_lock"} \cup ClearLabels

\* A step of a thread that does not own the flag leaves the owner in place.
LEMMA QuietFlag ==
  ASSUME Typed, FlagInv, NEW t \in Threads, pc[t] \notin Owning,
         \A s \in Threads : s # t => pc'[s] = pc[s],
         UNCHANGED m_isUploadScheduled, queued \subseteq queued',
         pc'["worker"] = "picked" => pc["worker"] = "picked" /\ UNCHANGED m_itemInProgress,
         t = "worker" => UNCHANGED system,
         t = "user" => pc["user"] # "st_spin" /\ (pc["user"] = "idle" => system # "stopped")
  PROVE  FlagInv'
<1>1. ScheduledFlagHasTask'
  BY Zenon DEF FlagInv, ScheduledFlagHasTask, Owning, ClearLabels, Threads
<1>2. SkippedByStop'
  <2>1. CASE t = "worker"  BY <2>1, Zenon DEF FlagInv, SkippedByStop, Threads, Owning
  <2>2. CASE t = "user"
    BY <2>2, Zenon DEF FlagInv, SkippedByStop, Threads, Owning, ClearLabels
  <2> QED BY <2>1, <2>2, Zenon DEF Threads
<1> QED BY <1>1, <1>2, Zenon DEF FlagInv

\* The same for a step that moves thread t from one label to another.
LEMMA QuietGoto ==
  ASSUME Typed, FlagInv, NEW t \in Threads, pc[t] \notin Owning,
         \E l : l # "picked" /\ Goto(t, l),
         UNCHANGED <<m_isUploadScheduled, queued, m_itemInProgress, system>>,
         pc[t] \notin {"idle", "st_spin"}
  PROVE  FlagInv'
<1>1. /\ \A s \in Threads : s # t => pc'[s] = pc[s]
      /\ pc'[t] # "picked"
  BY Zenon DEF Goto, Typed, PcOK
<1> QED BY <1>1, QuietFlag, Zenon DEF Threads

\* A return does not lead to the point where a task has been picked.
LEMMA ReturnGoto ==
  ASSUME Typed, NEW t \in Threads, Return(t)
  PROVE  \E l : l # "picked" /\ Goto(t, l)
  BY Zenon DEF Return, Goto, Typed, ArgOK, Arguments

\* cancelUploadTask: either the task in the handle is running, hence not in the queue, or the
\* caller resets the flag next.
LEMMA CancelUploadTaskFlag ==
  ASSUME Typed, TasksApart, FlagInv, NEW t \in Threads, NEW cancel, NEW clear \in ClearLabels, NEW next,
         cancel \notin Owning \cup {"idle", "st_spin"}, clear # "st_clear", next # "picked",
         CancelUploadTask(t, cancel, clear, next)
  PROVE  FlagInv'
<1>1. CASE /\ pc[t] = cancel
           /\ EraseScheduled
           /\ Goto(t, IF CancelFails(t) THEN next ELSE clear)
           /\ UNCHANGED <<m_isUploadScheduled, m_itemInProgress, system>>
  <2>1. CASE CancelFails(t)
    <3>1. queued' = queued  BY <1>1, <2>1, Zenon DEF CancelFails, EraseScheduled, TasksApart
    <3> QED BY <1>1, <2>1, <3>1, QuietGoto, Zenon
  <2>2. CASE ~CancelFails(t)
    <3>1. pc'[t] = clear /\ \A s \in Threads : s # t => pc'[s] = pc[s]
      BY <1>1, <2>2, Zenon DEF Goto, Typed, PcOK
    <3>2. ScheduledFlagHasTask'  BY <3>1, Zenon DEF ScheduledFlagHasTask
    <3>3. SkippedByStop'
      BY <1>1, <3>1, Zenon DEF FlagInv, SkippedByStop, Threads, ClearLabels, Owning
    <3> QED BY <3>2, <3>3, Zenon DEF FlagInv
  <2> QED BY <2>1, <2>2, Zenon
<1>2. CASE /\ pc[t] = clear
           /\ m_isUploadScheduled' = FALSE
           /\ Goto(t, next)
           /\ UNCHANGED <<m_itemInProgress, system>>
  <2>1. pc'[t] = next /\ \A s \in Threads : s # t => pc'[s] = pc[s]
    BY <1>2, Zenon DEF Goto, Typed, PcOK
  <2>2. SkippedByStop'
    BY <1>2, <2>1, Zenon DEF FlagInv, SkippedByStop, Threads, ClearLabels
  <2> QED BY <1>2, <2>2, Zenon DEF FlagInv, ScheduledFlagHasTask
<1> QED BY <1>1, <1>2, Zenon DEF CancelUploadTask, tpmVars, taskVars

\* scheduleUpload sets the flag only when it goes on to queue a task.
LEMMA ScheduleUploadFlag ==
  ASSUME Typed, TasksApart, FlagInv, NEW t \in Threads, ScheduleUpload(t)
  PROVE  FlagInv'
<1>1. CASE ScheduleUpload_Lock(t)
  <2>1. \E l : l # "picked" /\ Goto(t, l)  BY <1>1, ReturnGoto, Zenon DEF ScheduleUpload_Lock
  <2> QED BY <1>1, <2>1, QuietGoto, Zenon DEF ScheduleUpload_Lock, Owning, ClearLabels, taskVars
<1>2. CASE ScheduleUpload_Timers(t)
  <2>1. \E l : l # "picked" /\ Goto(t, l)
    BY <1>2, ReturnGoto, Zenon DEF ScheduleUpload_Timers, ReleaseAndReturn
  <2> QED BY <1>2, <2>1, QuietGoto, Zenon DEF ScheduleUpload_Timers, Owning, ClearLabels, taskVars
<1>3. CASE CancelUploadTask(t, "su_cancel", "su_clear", "su_exchange")
  BY <1>3, CancelUploadTaskFlag, Zenon DEF Owning, ClearLabels
<1>4. CASE ScheduleUpload_Exchange(t)
  <2>1. CASE m_isUploadScheduled
    <3>1. \E l : l # "picked" /\ Goto(t, l)
      BY <1>4, <2>1, ReturnGoto, Zenon DEF ScheduleUpload_Exchange, ReleaseAndReturn
    <3>2. m_isUploadScheduled' = m_isUploadScheduled
      BY <1>4, <2>1, Zenon DEF ScheduleUpload_Exchange, Typed, FlatOK
    <3> QED BY <1>4, <3>1, <3>2, QuietGoto, Zenon DEF ScheduleUpload_Exchange, Owning, ClearLabels, taskVars
  <2>2. CASE ~m_isUploadScheduled
    <3>1. /\ pc[t] = "su_exchange"
          /\ pc'[t] = "su_queue"
          /\ \A s \in Threads : s # t => pc'[s] = pc[s]
      BY <1>4, <2>2, Zenon DEF ScheduleUpload_Exchange, Goto, Typed, PcOK
    <3>2. ScheduledFlagHasTask'  BY <3>1, Zenon DEF ScheduledFlagHasTask
    <3>3. SkippedByStop'
      BY <1>4, <3>1, Zenon DEF ScheduleUpload_Exchange, FlagInv, SkippedByStop, Threads, taskVars
    <3> QED BY <3>2, <3>3, Zenon DEF FlagInv
  <2> QED BY <2>1, <2>2, Zenon
<1>5. CASE ScheduleUpload_Queue(t)
  <2>1. /\ pc[t] = "su_queue"
        /\ pc'[t] = "su_handle"
        /\ \A s \in Threads : s # t => pc'[s] = pc[s]
    BY <1>5, Zenon DEF ScheduleUpload_Queue, Goto, Typed, PcOK
  <2>2. queued' # {}  BY <1>5, Zenon DEF ScheduleUpload_Queue
  <2>3. SkippedByStop'
    BY <1>5, <2>1, Zenon DEF ScheduleUpload_Queue, FlagInv, SkippedByStop, Threads
  <2> QED BY <2>2, <2>3, Zenon DEF FlagInv, ScheduledFlagHasTask
<1>6. CASE ScheduleUpload_Handle(t)
  <2>1. \E l : l # "picked" /\ Goto(t, l)
    BY <1>6, ReturnGoto, Zenon DEF ScheduleUpload_Handle, ReleaseAndReturn
  <2> QED BY <1>6, <2>1, QuietGoto, Zenon DEF ScheduleUpload_Handle, Owning, ClearLabels, taskVars
<1> QED BY <1>1, <1>2, <1>3, <1>4, <1>5, <1>6, Zenon DEF ScheduleUpload

\* Retrieval, sending and finishUpload leave the flag and its owner alone.
LEMMA UploadFlag ==
  ASSUME Typed, FlagInv, NEW t \in Threads, Upload(t)
  PROVE  FlagInv'
<1>1. \E l : l # "picked" /\ Goto(t, l)
  BY ReturnGoto, Zenon
     DEF Upload, HandleNothingToUpload, HandlePackagingFailed, HandleSendRequest, FinishUpload,
         CalculateNewPriority, CallFinish, CallSchedule
<1>2. pc[t] \in {"retrieve", "finish", "priority"}
  BY Zenon DEF Upload, HandleNothingToUpload, HandlePackagingFailed, HandleSendRequest, FinishUpload,
         CalculateNewPriority
<1>3. UNCHANGED <<m_isUploadScheduled, queued, m_itemInProgress, system>>
  BY Zenon DEF Upload, HandleNothingToUpload, HandlePackagingFailed, HandleSendRequest, FinishUpload,
         CalculateNewPriority, tpmVars, taskVars
<1> QED BY <1>1, <1>2, <1>3, QuietGoto, Zenon DEF Owning, ClearLabels

\* handleEventArrived reads the flag only.
LEMMA HandleEventArrivedFlag ==
  ASSUME Typed, FlagInv, NEW t \in Threads, HandleEventArrived(t)
  PROVE  FlagInv'
<1>1. \E l : l # "picked" /\ Goto(t, l)
  BY ReturnGoto, Zenon
     DEF HandleEventArrived, HandleEventArrived_Check, HandleEventArrived_Upload,
         HandleEventArrived_Schedule, AddUpload, CallSchedule
<1>2. pc[t] \in {"ev_arrived", "ev_upload", "ev_schedule"}
  BY Zenon DEF HandleEventArrived, HandleEventArrived_Check, HandleEventArrived_Upload,
         HandleEventArrived_Schedule
<1>3. UNCHANGED <<m_isUploadScheduled, queued, m_itemInProgress, system>>
  BY Zenon DEF HandleEventArrived, HandleEventArrived_Check, HandleEventArrived_Upload,
         HandleEventArrived_Schedule, tpmVars, taskVars
<1> QED BY <1>1, <1>2, <1>3, QuietGoto, Zenon DEF Owning, ClearLabels

\* Storing an event leaves the flag and its owner alone.
LEMMA LogEventFlag ==
  ASSUME Typed, FlagInv, NEW t \in Threads, NEW e \in Events, LogEvent(t, e)
  PROVE  FlagInv'
<1>1. /\ pc[t] = "idle"
      /\ pc'[t] = "ev_arrived"
      /\ \A s \in Threads : s # t => pc'[s] = pc[s]
  BY Zenon DEF LogEvent, Goto, Typed, PcOK
<1>2. UNCHANGED <<m_isUploadScheduled, queued, m_itemInProgress, system>>
  BY Zenon DEF LogEvent, tpmVars, taskVars
<1>3. t = "user" => system # "stopped"  BY Zenon DEF LogEvent
<1> QED BY <1>1, <1>2, <1>3, QuietFlag, Zenon DEF Owning, ClearLabels, Threads

\* The task itself resets the flag, unless handleStop has dropped it and resets the flag.
LEMMA UploadAsyncFlag ==
  ASSUME Typed, TasksApart, FlagInv, UploadAsync
  PROVE  FlagInv'
<1>w. "worker" \in Threads /\ "user" \in Threads  BY Zenon DEF Threads
<1>1. ASSUME NEW a \in Tasks, UploadAsync_Pick(a) PROVE FlagInv'
  <2>1. pc'["worker"] = "picked"  BY <1>1, <1>w, Zenon DEF UploadAsync_Pick, Goto, Typed, PcOK
  <2>2. m_itemInProgress' # NoTask  BY <1>1, ConstantsOK, Zenon DEF UploadAsync_Pick, ConstantsOK
  <2> QED BY <2>1, <2>2, Zenon DEF FlagInv, ScheduledFlagHasTask, SkippedByStop
<1>2. CASE UploadAsync_Start
  <2>1. /\ pc["worker"] = "picked"
        /\ pc'["user"] = pc["user"]
        /\ pc'["worker"] = IF m_itemInProgress = NoTask THEN "idle" ELSE "ua_lock"
        /\ UNCHANGED <<m_isUploadScheduled, m_itemInProgress, queued>>
    BY <1>2, <1>w, Zenon DEF UploadAsync_Start, Goto, Typed, PcOK, taskVars
  <2>2. ScheduledFlagHasTask'
    BY <2>1, <1>w, Zenon DEF FlagInv, ScheduledFlagHasTask, SkippedByStop, ClearLabels
  <2>3. SkippedByStop'  BY <2>1, Zenon DEF SkippedByStop
  <2> QED BY <2>2, <2>3, Zenon DEF FlagInv
<1>3. CASE UploadAsync_Lock
  <2>1. m_isUploadScheduled' = FALSE /\ pc'["worker"] # "picked"
    BY <1>3, <1>w, Zenon DEF UploadAsync_Lock, Goto, Typed, PcOK
  <2> QED BY <2>1, Zenon DEF FlagInv, ScheduledFlagHasTask, SkippedByStop
<1>4. CASE CancelUploadTask("worker", "ua_cancel", "ua_clear", "ua_return")
  BY <1>4, <1>w, CancelUploadTaskFlag, Zenon DEF Owning, ClearLabels
<1>5. CASE UploadAsync_Return
  <2>1. \E l : l # "picked" /\ Goto("worker", l)
    BY <1>5, <1>w, ReturnGoto, Zenon DEF UploadAsync_Return, ReleaseAndReturn
  <2> QED BY <1>5, <2>1, <1>w, QuietGoto, Zenon DEF UploadAsync_Return, Owning, ClearLabels, taskVars
<1>6. CASE UploadAsync_Add
  BY <1>6, <1>w, QuietGoto, Zenon DEF UploadAsync_Add, AddUpload, Owning, ClearLabels, taskVars
<1> QED BY <1>1, <1>2, <1>3, <1>4, <1>5, <1>6, Zenon DEF UploadAsync

\* The end of one task and the start of a response task.
LEMMA WorkerFlag ==
  ASSUME Typed, FlagInv, EndOfTask \/ \E c \in Uploads : OnHttpResponse(c) \/ HandleResponse(c)
  PROVE  FlagInv'
<1>1. ASSUME NEW c \in Uploads, OnHttpResponse(c) PROVE FlagInv'
  BY <1>1, Zenon DEF OnHttpResponse, FlagInv, ScheduledFlagHasTask, SkippedByStop, tpmVars, taskVars
<1>2. ASSUME pc["worker"] \in {"idle", "w_end"},
             \E l : l # "picked" /\ Goto("worker", l),
             UNCHANGED <<m_isUploadScheduled, queued, system>>
      PROVE  FlagInv'
  <2>1. /\ \A s \in Threads : s # "worker" => pc'[s] = pc[s]
        /\ pc'["worker"] # "picked"
    BY <1>2, Zenon DEF Goto, Typed, PcOK, Threads
  <2> QED BY <1>2, <2>1, QuietFlag, Zenon DEF Owning, ClearLabels, Threads
<1>3. ASSUME NEW c \in Uploads, HandleResponse(c) PROVE FlagInv'
  BY <1>2, <1>3, Zenon DEF HandleResponse, CallFinish, tpmVars
<1>4. CASE EndOfTask  BY <1>2, <1>4, Zenon DEF EndOfTask, tpmVars
<1> QED BY <1>1, <1>3, <1>4, Zenon

\* The user thread enters the library.
LEMMA EnterFlag ==
  ASSUME Typed, FlagInv, pc["user"] = "idle", system # "stopped",
         \E l : Goto("user", l), UNCHANGED <<m_isUploadScheduled, queued, m_itemInProgress>>
  PROVE  FlagInv'
<1>1. \A s \in Threads : s # "user" => pc'[s] = pc[s]  BY Zenon DEF Goto, Typed, PcOK
<1> QED BY <1>1, QuietFlag, Zenon DEF Owning, ClearLabels, Threads

\* cancelAllRequests leaves the flag and its owner alone.
LEMMA CancelAllRequestsFlag ==
  ASSUME Typed, FlagInv, NEW cancel, NEW wait, NEW next,
         cancel \notin Owning \cup {"idle", "st_spin"}, wait \notin Owning \cup {"idle", "st_spin"},
         next # "picked", CancelAllRequests(cancel, wait, next)
  PROVE  FlagInv'
<1>1. pc["user"] \in {cancel, wait} /\ \E l : l # "picked" /\ Goto("user", l)
  BY Zenon DEF CancelAllRequests, Owning
<1>2. UNCHANGED <<m_isUploadScheduled, queued, m_itemInProgress, system>>
  BY Zenon DEF CancelAllRequests, tpmVars, taskVars
<1> QED BY <1>1, <1>2, QuietGoto, Zenon DEF Threads

\* Start, UploadNow, pause and cleanup never orphan the flag.
LEMMA ApiFlag ==
  ASSUME Typed, TasksApart, FlagInv, Start \/ UploadNow \/ PauseTransmission \/ DeleteData
  PROVE  FlagInv'
<1>u. "user" \in Threads  BY Zenon DEF Threads
<1>1. CASE Start  BY <1>1, EnterFlag, Zenon DEF Start, taskVars
<1>2. CASE UploadNow  BY <1>2, EnterFlag, Zenon DEF UploadNow, CallSchedule, tpmVars, taskVars
<1>3. CASE PauseTransmission
  <2>1. CASE pc["user"] = "idle" /\ system = "started" /\ PauseAllUploads("pa_cancel")
    BY <2>1, EnterFlag, Zenon DEF PauseAllUploads, taskVars
  <2>2. CASE CancelUploadTask("user", "pa_cancel", "pa_clear", "pa_http")
    BY <2>2, <1>u, CancelUploadTaskFlag, Zenon DEF Owning, ClearLabels
  <2>3. CASE CancelAllRequests("pa_http", "pa_wait", "idle")
    BY <2>3, CancelAllRequestsFlag, Zenon DEF Owning, ClearLabels
  <2> QED BY <1>3, <2>1, <2>2, <2>3, Zenon DEF PauseTransmission
<1>4. CASE DeleteData
  <2>1. CASE /\ pc["user"] = "idle"
             /\ system \in {"started", "paused"}
             /\ Goto("user", "cl_http")
             /\ UNCHANGED <<tpmVars, taskVars>>
    BY <2>1, EnterFlag, Zenon DEF tpmVars, taskVars
  <2>2. CASE CancelAllRequests("cl_http", "cl_wait", "cl_cancel")
    BY <2>2, CancelAllRequestsFlag, Zenon DEF Owning, ClearLabels
  <2>3. CASE CancelUploadTask("user", "cl_cancel", "cl_clear", "cl_spin")
    BY <2>3, <1>u, CancelUploadTaskFlag, Zenon DEF Owning, ClearLabels
  <2>4. CASE /\ pc["user"] \in {"cl_spin", "cl_delete"}
             /\ \E l : l # "picked" /\ Goto("user", l)
             /\ UNCHANGED <<tpmVars, taskVars, system>>
    BY <2>4, <1>u, QuietGoto, Zenon DEF tpmVars, taskVars, Owning, ClearLabels
  <2> QED BY <1>4, <2>1, <2>2, <2>3, <2>4, Zenon DEF DeleteData
<1> QED BY <1>1, <1>2, <1>3, <1>4, Zenon

\* handleStop: the flag is reset after the wait; after a wait that timed out the running task
\* is still there to reset it.
LEMMA StopFlag ==
  ASSUME Typed, TasksApart, FlagInv, Stop
  PROVE  FlagInv'
<1>u. "user" \in Threads /\ "worker" \in Threads /\ "user" # "worker"  BY Zenon DEF Threads
<1>1. CASE Stop_Begin  BY <1>1, EnterFlag, Zenon DEF Stop_Begin, tpmVars, taskVars
<1>2. CASE Stop_Pause \/ Stop_Abort \/ Stop_WaitTimedOut
  <2>1. /\ pc["user"] \in {"st_drain", "st_lock", "st_wait"}
        /\ \E l : l # "picked" /\ Goto("user", l)
        /\ UNCHANGED <<m_isUploadScheduled, queued, m_itemInProgress, system>>
    BY <1>2, Zenon DEF Stop_Pause, PauseAllUploads, Stop_Abort, Stop_WaitTimedOut, taskVars
  <2> QED BY <2>1, <1>u, QuietGoto, Zenon DEF Owning, ClearLabels
<1>3. CASE CancelUploadTask("user", "sp_cancel", "sp_clear", "sp_http")
  BY <1>3, <1>u, CancelUploadTaskFlag, Zenon DEF Owning, ClearLabels
<1>4. CASE CancelAllRequests("sp_http", "sp_wait", "fa_http")
  BY <1>4, CancelAllRequestsFlag, Zenon DEF Owning, ClearLabels
<1>5. CASE Stop_FinishAllUploads
  BY <1>5, <1>u, CancelAllRequestsFlag, CancelUploadTaskFlag, Zenon
     DEF Stop_FinishAllUploads, Owning, ClearLabels
<1>6. CASE Stop_Cancel
  <2>1. CASE CancelFails("user")
    BY <1>6, <2>1, <1>u, QuietGoto, Zenon DEF Stop_Cancel, tpmVars, Owning, ClearLabels
  <2>2. CASE ~CancelFails("user")
    <3>1. pc'["user"] = "st_clear"  BY <1>6, <2>2, <1>u, Zenon DEF Stop_Cancel, Goto, Typed, PcOK
    <3> QED BY <3>1, <1>u, Zenon DEF FlagInv, ScheduledFlagHasTask, SkippedByStop, ClearLabels
  <2> QED BY <2>1, <2>2, Zenon
<1>7. CASE Stop_Wait
  <2>1. pc'["user"] = "st_clear"  BY <1>7, <1>u, Zenon DEF Stop_Wait, Goto, Typed, PcOK
  <2> QED BY <2>1, <1>u, Zenon DEF FlagInv, ScheduledFlagHasTask, SkippedByStop, ClearLabels
<1>8. CASE Stop_Clear
  <2>1. m_isUploadScheduled' = FALSE /\ pc'["user"] = "st_spin"
    BY <1>8, <1>u, Zenon DEF Stop_Clear, Goto, Typed, PcOK
  <2> QED BY <2>1, Zenon DEF FlagInv, ScheduledFlagHasTask, SkippedByStop
<1>9. CASE Stop_Spin
  <2>1. /\ pc["user"] = "st_spin" /\ pc'["user"] = "idle" /\ pc'["worker"] = pc["worker"]
        /\ system' = "stopped"
        /\ UNCHANGED <<m_isUploadScheduled, queued, m_itemInProgress>>
    BY <1>9, <1>u, Zenon DEF Stop_Spin, Goto, Typed, PcOK, tpmVars, taskVars
  <2>2. ScheduledFlagHasTask'
    BY <2>1, <1>u, Zenon DEF FlagInv, ScheduledFlagHasTask, ClearLabels, Threads
  <2>3. SkippedByStop'  BY <2>1, Zenon DEF FlagInv, SkippedByStop
  <2> QED BY <2>2, <2>3, Zenon DEF FlagInv
<1> QED BY <1>1, <1>2, <1>3, <1>4, <1>5, <1>6, <1>7, <1>8, <1>9, Zenon DEF Stop

\* Every step leaves the flag with an owner.
LEMMA FlagInvStep ==
  ASSUME Typed, TasksApart, FlagInv, [Next]_vars
  PROVE  FlagInv'
<1>1. CASE UNCHANGED vars
  BY <1>1, Zenon DEF vars, tpmVars, taskVars, FlagInv, ScheduledFlagHasTask, SkippedByStop
<1>2. ASSUME NEW p \in Profiles, SetProfile(p) PROVE FlagInv'
  BY <1>2, Zenon DEF SetProfile, tpmVars, taskVars, FlagInv, ScheduledFlagHasTask, SkippedByStop
<1>3. CASE Next
  BY <1>1, <1>2, <1>3, ScheduleUploadFlag, UploadFlag, HandleEventArrivedFlag, LogEventFlag,
     UploadAsyncFlag, WorkerFlag, ApiFlag, StopFlag, Zenon
     DEF Next, ThreadStep, Terminated
<1> QED BY <1>1, <1>3, Zenon

-----------------------------------------------------------------------------
(* The theorems. *)

\* The constructor establishes the invariant.
LEMMA InitInv == Init => Inv
<1> SUFFICES ASSUME Init PROVE Inv
  BY Zenon
<1>1. FlatOK
  <2>1. m_isPaused \in BOOLEAN /\ m_isUploadScheduled \in BOOLEAN
        /\ m_scheduledUploadAborted \in BOOLEAN /\ isTimerUpdated \in BOOLEAN
    BY Zenon DEF Init
  <2>2. m_runningLatency \in Latencies /\ taskLatency \in [Tasks -> Latencies]
    BY LatencyTypes, Zenon DEF Init
  <2>3. m_timerdelay \in Int  BY DEF Init, InitialTimerDelay
  <2>4. m_timers \in Profiles /\ profile \in Profiles  BY Zenon DEF Init
  <2>5. /\ m_activeUploads \subseteq Uploads /\ queued \subseteq Tasks
        /\ stored \subseteq Events /\ m_httpCallbacks \subseteq Uploads
    BY Zenon DEF Init
  <2>6. /\ m_scheduledUpload \in Tasks \cup {NoTask} /\ m_itemInProgress \in Tasks \cup {NoTask}
        /\ responding \in Uploads \cup {NoUpload}
    BY Zenon DEF Init
  <2>7. mutex \in Threads \cup {"none"} /\ system \in {"new", "started", "paused", "stopping", "stopped"}
    BY Zenon DEF Init
  <2> QED BY <2>1, <2>2, <2>3, <2>4, <2>5, <2>6, <2>7, Zenon DEF FlatOK
<1>2. UploadsOK /\ PcOK /\ ArgOK
  <2>1. UploadsOK  BY FreeUploadType, Zenon DEF Init, UploadsOK
  <2>2. PcOK  BY DEF Init, PcOK, Labels
  <2>3. ArgOK  BY NoArgType, Zenon DEF Init, ArgOK
  <2> QED BY <2>1, <2>2, <2>3, Zenon
<1>a. /\ \A t \in Threads : pc[t] = "idle"
      /\ \A c \in Uploads : uploads[c] = FreeUpload
  BY Zenon DEF Init
<1>b. FreeUpload.st = "free"  BY Zenon DEF FreeUpload
<1>3. UploadsInv
  BY <1>a, <1>b, Zenon DEF UploadsInv, InUseIsActive, FinishKnowsUpload, Threads
<1>4. TasksApart /\ FlagInv
  BY <1>a, Zenon DEF Init, TasksApart, FlagInv, ScheduledFlagHasTask, SkippedByStop, Threads
<1> QED BY <1>1, <1>2, <1>3, <1>4, Zenon DEF Inv, Typed

\* Every step preserves the invariant.
LEMMA InvStep == Inv /\ [Next]_vars => Inv'
  BY NextType, UploadsInvStep, TasksApartStep, FlagInvStep, Zenon DEF Inv, UploadsInv

\* The invariant implies the properties the runs check.
LEMMA InvProperties == Inv => TypeOK /\ FinishKnowsUpload /\ ScheduledFlagHasTask
  BY Zenon DEF Inv, Typed, FlatOK, UploadsOK, PcOK, ArgOK, TypeOK, UploadsInv, FlagInv

\* The conjunction is inductive.
THEOREM Invariance == Spec => []Inv
  BY InitInv, InvStep, PTL DEF Spec

\* Every member keeps its type, in every interleaving of the application and the worker thread.
THEOREM TypeCorrect == Spec => []TypeOK
  BY Invariance, InvProperties, PTL

\* finishUpload never meets a context it does not know, and a context is never handled twice:
\* however many uploads, tasks and events there are, and whether or not the heap reuses the
\* address of a finished task.
THEOREM FinishKnowsUploadHolds == Spec => []FinishKnowsUpload
  BY Invariance, InvProperties, PTL

\* m_isUploadScheduled always has an owner who will reset it: pause, cleanup and stop, which
\* cancel the task while it is being scheduled or run, never leave the flag set for good.
THEOREM ScheduledFlagHasTaskHolds == Spec => []ScheduledFlagHasTask
  BY Invariance, InvProperties, PTL

-----------------------------------------------------------------------------
(* MutexHeld: m_scheduledUploadMutex. *)

\* The control points of scheduleUpload under the mutex, before the task is queued and after.
Scheduling == {"su_timers", "su_cancel", "su_clear", "su_exchange", "su_queue"}
Locked == Scheduling \cup {"su_handle"}

\* uploadAsync holds the mutex when it returns early, handleStop while it cancels.
MutexLabels == Locked \cup {"ua_cancel", "ua_clear", "ua_return", "st_cancel", "st_wait", "st_clear"}
MutexHeld == \A t \in Threads : pc[t] \in MutexLabels => mutex = t

\* A step of thread t that neither takes nor releases the mutex, takes it, or releases it.
LEMMA MutexStep ==
  ASSUME Typed, MutexHeld, NEW t \in Threads, NEW l, Goto(t, l),
         \/ mutex' = mutex /\ (l \in MutexLabels => pc[t] \in MutexLabels)
         \/ mutex = "none" /\ mutex' = t
         \/ pc[t] \in MutexLabels /\ l \notin MutexLabels
  PROVE  MutexHeld'
<1>1. pc'[t] = l /\ \A s \in Threads : s # t => pc'[s] = pc[s]  BY Zenon DEF Goto, Typed, PcOK
<1>2. "none" \notin Threads  BY Zenon DEF Threads
<1>3. SUFFICES ASSUME NEW s \in Threads, pc'[s] \in MutexLabels PROVE mutex' = s
  BY Zenon DEF MutexHeld
<1>4. CASE s = t  BY <1>1, <1>3, <1>4, Zenon DEF MutexHeld
<1>5. CASE s # t
  <2>1. mutex = s  BY <1>1, <1>3, <1>5, Zenon DEF MutexHeld
  <2> QED BY <1>2, <1>5, <2>1, Zenon DEF MutexHeld
<1> QED BY <1>4, <1>5

\* A return ends outside the mutex.
LEMMA ReturnMutex ==
  ASSUME Typed, NEW t \in Threads, Return(t)
  PROVE  \E l : l \notin MutexLabels /\ Goto(t, l)
  BY Zenon DEF Return, Goto, Typed, ArgOK, Arguments, MutexLabels, Locked, Scheduling

\* cancelUploadTask is called with the mutex, or without it.
LEMMA CancelUploadTaskMutex ==
  ASSUME Typed, MutexHeld, NEW t \in Threads, NEW cancel, NEW clear, NEW next,
         \/ {cancel, clear, next} \subseteq MutexLabels
         \/ {cancel, clear, next} \cap MutexLabels = {}
         \/ {cancel, clear} \cap MutexLabels = {} /\ next \notin MutexLabels,
         CancelUploadTask(t, cancel, clear, next)
  PROVE  MutexHeld'
<1>1. /\ pc[t] \in {cancel, clear}
      /\ \E l \in {clear, next} : Goto(t, l)
      /\ mutex' = mutex
  BY Zenon DEF CancelUploadTask, tpmVars
<1> QED BY <1>1, MutexStep, Zenon

\* scheduleUpload returns without the mutex, and is otherwise at one of the points under it.
LEMMA ScheduleUploadMutex ==
  ASSUME Typed, MutexHeld, NEW t \in Threads, ScheduleUpload(t)
  PROVE  MutexHeld'
<1>1. CASE ScheduleUpload_Lock(t)
  BY <1>1, ReturnMutex, MutexStep, Zenon DEF ScheduleUpload_Lock
<1>2. CASE ScheduleUpload_Timers(t)
  <2>1. pc[t] \in MutexLabels  BY <1>2, Zenon DEF ScheduleUpload_Timers, MutexLabels, Locked, Scheduling
  <2> QED BY <1>2, <2>1, ReturnMutex, MutexStep, Zenon DEF ScheduleUpload_Timers, ReleaseAndReturn
<1>3. CASE CancelUploadTask(t, "su_cancel", "su_clear", "su_exchange")
  BY <1>3, CancelUploadTaskMutex, Zenon DEF MutexLabels, Locked, Scheduling
<1>4. CASE ScheduleUpload_Exchange(t)
  <2>1. pc[t] \in MutexLabels  BY <1>4, Zenon DEF ScheduleUpload_Exchange, MutexLabels, Locked, Scheduling
  <2> QED BY <1>4, <2>1, ReturnMutex, MutexStep, Zenon DEF ScheduleUpload_Exchange, ReleaseAndReturn
<1>5. CASE ScheduleUpload_Queue(t)
  <2>1. pc[t] \in MutexLabels  BY <1>5, Zenon DEF ScheduleUpload_Queue, MutexLabels, Locked, Scheduling
  <2> QED BY <1>5, <2>1, MutexStep, Zenon DEF ScheduleUpload_Queue, tpmVars
<1>6. CASE ScheduleUpload_Handle(t)
  <2>1. pc[t] \in MutexLabels  BY <1>6, Zenon DEF ScheduleUpload_Handle, MutexLabels, Locked
  <2> QED BY <1>6, <2>1, ReturnMutex, MutexStep, Zenon DEF ScheduleUpload_Handle, ReleaseAndReturn
<1> QED BY <1>1, <1>2, <1>3, <1>4, <1>5, <1>6, Zenon DEF ScheduleUpload

\* Uploads and events leave the mutex alone.
LEMMA UploadMutex ==
  ASSUME Typed, MutexHeld, NEW t \in Threads, Upload(t) \/ HandleEventArrived(t)
  PROVE  MutexHeld'
<1>1. CASE Upload(t)
  <2>1. mutex' = mutex
    BY <1>1, Zenon DEF Upload, HandleNothingToUpload, HandlePackagingFailed, HandleSendRequest,
       FinishUpload, CalculateNewPriority, tpmVars
  <2>2. \E l : l \notin MutexLabels /\ Goto(t, l)
    <3>1. Return(t) \/ \E l \in {"finish", "priority", "su_lock"} : Goto(t, l)
      BY <1>1, Zenon DEF Upload, HandleNothingToUpload, HandlePackagingFailed, HandleSendRequest,
         FinishUpload, CalculateNewPriority, CallFinish, CallSchedule
    <3> QED BY <3>1, ReturnMutex, Zenon DEF MutexLabels, Locked, Scheduling
  <2> QED BY <2>1, <2>2, MutexStep, Zenon
<1>2. CASE HandleEventArrived(t)
  <2>1. mutex' = mutex
    BY <1>2, Zenon DEF HandleEventArrived, HandleEventArrived_Check, HandleEventArrived_Upload,
       HandleEventArrived_Schedule, tpmVars
  <2>2. \E l : l \notin MutexLabels /\ Goto(t, l)
    <3>1. Return(t) \/ \E l \in {"ev_upload", "ev_schedule", "retrieve", "su_lock"} : Goto(t, l)
      BY <1>2, Zenon DEF HandleEventArrived, HandleEventArrived_Check, HandleEventArrived_Upload,
         HandleEventArrived_Schedule, AddUpload, CallSchedule
    <3> QED BY <3>1, ReturnMutex, Zenon DEF MutexLabels, Locked, Scheduling
  <2> QED BY <2>1, <2>2, MutexStep, Zenon
<1> QED BY <1>1, <1>2, Zenon

\* uploadAsync keeps the mutex on its early return only.
LEMMA UploadAsyncMutex ==
  ASSUME Typed, MutexHeld, UploadAsync
  PROVE  MutexHeld'
<1>w. "worker" \in Threads  BY Zenon DEF Threads
<1>1. ASSUME NEW a \in Tasks, UploadAsync_Pick(a) PROVE MutexHeld'
  BY <1>1, <1>w, MutexStep, Zenon DEF UploadAsync_Pick, tpmVars, MutexLabels, Locked, Scheduling
<1>2. CASE UploadAsync_Start
  BY <1>2, <1>w, MutexStep, Zenon DEF UploadAsync_Start, MutexLabels, Locked, Scheduling
<1>3. CASE UploadAsync_Lock
  BY <1>3, <1>w, MutexStep, Zenon DEF UploadAsync_Lock, MutexLabels, Locked, Scheduling
<1>4. CASE CancelUploadTask("worker", "ua_cancel", "ua_clear", "ua_return")
  BY <1>4, <1>w, CancelUploadTaskMutex, Zenon DEF MutexLabels
<1>5. CASE UploadAsync_Return
  <2>1. pc["worker"] \in MutexLabels  BY <1>5, Zenon DEF UploadAsync_Return, MutexLabels
  <2> QED BY <1>5, <1>w, <2>1, ReturnMutex, MutexStep, Zenon DEF UploadAsync_Return, ReleaseAndReturn
<1>6. CASE UploadAsync_Add
  BY <1>6, <1>w, MutexStep, Zenon DEF UploadAsync_Add, AddUpload, MutexLabels, Locked, Scheduling
<1> QED BY <1>1, <1>2, <1>3, <1>4, <1>5, <1>6, Zenon DEF UploadAsync

\* The API calls outside handleStop leave the mutex alone.
LEMMA ApiMutex ==
  ASSUME Typed, MutexHeld, Start \/ UploadNow \/ PauseTransmission \/ DeleteData
  PROVE  MutexHeld'
<1>u. "user" \in Threads  BY Zenon DEF Threads
<1>1. \E l \in {"priority", "su_lock", "idle", "pa_cancel", "pa_clear", "pa_http", "pa_wait",
                "cl_http", "cl_wait", "cl_cancel", "cl_clear", "cl_spin", "cl_delete"} : Goto("user", l)
  <2>1. CASE Start \/ UploadNow  BY <2>1, Zenon DEF Start, UploadNow, CallSchedule
  <2>2. CASE PauseTransmission
    BY <2>2, Zenon DEF PauseTransmission, PauseAllUploads, CancelUploadTask, CancelAllRequests
  <2>3. CASE DeleteData  BY <2>3, Zenon DEF DeleteData, CancelUploadTask, CancelAllRequests
  <2> QED BY <2>1, <2>2, <2>3, Zenon
<1>2. mutex' = mutex
  BY Zenon DEF Start, UploadNow, PauseTransmission, DeleteData, PauseAllUploads, CancelUploadTask,
     CancelAllRequests, tpmVars
<1> QED BY <1>1, <1>2, <1>u, MutexStep, Zenon DEF MutexLabels, Locked, Scheduling

\* handleStop holds the mutex while it cancels.
LEMMA StopMutex ==
  ASSUME Typed, MutexHeld, Stop
  PROVE  MutexHeld'
<1>u. "user" \in Threads  BY Zenon DEF Threads
<1>1. CASE Stop_Begin \/ Stop_Pause \/ CancelUploadTask("user", "sp_cancel", "sp_clear", "sp_http")
           \/ CancelAllRequests("sp_http", "sp_wait", "fa_http") \/ Stop_FinishAllUploads \/ Stop_Spin
  <2>1. \E l \in {"su_lock", "st_drain", "sp_cancel", "sp_clear", "sp_http", "sp_wait", "fa_http",
                  "fa_wait", "fa_cancel", "fa_clear", "st_lock", "idle"} : Goto("user", l)
    BY <1>1, Zenon DEF Stop_Begin, Stop_Pause, PauseAllUploads, CancelUploadTask, CancelAllRequests,
       Stop_FinishAllUploads, Stop_Spin
  <2>2. mutex' = mutex
    BY <1>1, Zenon DEF Stop_Begin, Stop_Pause, PauseAllUploads, CancelUploadTask, CancelAllRequests,
       Stop_FinishAllUploads, Stop_Spin, tpmVars
  <2> QED BY <2>1, <2>2, <1>u, MutexStep, Zenon DEF MutexLabels, Locked, Scheduling
<1>2. CASE Stop_Abort  BY <1>2, <1>u, MutexStep, Zenon DEF Stop_Abort
<1>3. CASE Stop_Cancel \/ Stop_Wait
  <2>1. /\ pc["user"] \in {"st_cancel", "st_wait"} /\ mutex' = mutex
        /\ \E l : Goto("user", l)
    BY <1>3, Zenon DEF Stop_Cancel, Stop_Wait, tpmVars
  <2> QED BY <2>1, <1>u, MutexStep, Zenon DEF MutexLabels
<1>4. CASE Stop_WaitTimedOut \/ Stop_Clear
  <2>1. pc["user"] \in {"st_wait", "st_clear"} /\ Goto("user", "st_spin")
    BY <1>4, Zenon DEF Stop_WaitTimedOut, Stop_Clear
  <2> QED BY <2>1, <1>u, MutexStep, Zenon DEF MutexLabels, Locked, Scheduling
<1> QED BY <1>1, <1>2, <1>3, <1>4, Zenon DEF Stop

\* Whoever is at a point under the mutex holds it.
LEMMA MutexHeldStep ==
  ASSUME Typed, MutexHeld, [Next]_vars
  PROVE  MutexHeld'
<1>1. ASSUME UNCHANGED <<pc, mutex>> PROVE MutexHeld'  BY <1>1, Zenon DEF MutexHeld
<1>2. CASE UNCHANGED vars  BY <1>1, <1>2, Zenon DEF vars, tpmVars
<1>3. ASSUME NEW p \in Profiles, SetProfile(p) PROVE MutexHeld'
  BY <1>1, <1>3, Zenon DEF SetProfile, tpmVars
<1>4. ASSUME NEW t \in Threads, NEW e \in Events, LogEvent(t, e) PROVE MutexHeld'
  BY <1>4, MutexStep, Zenon DEF LogEvent, tpmVars, MutexLabels, Locked, Scheduling
<1>5. ASSUME NEW c \in Uploads, OnHttpResponse(c) PROVE MutexHeld'
  BY <1>1, <1>5, Zenon DEF OnHttpResponse, tpmVars
<1>6. CASE EndOfTask \/ \E c \in Uploads : HandleResponse(c)
  <2>1. mutex' = mutex /\ \E l \in {"idle", "finish"} : Goto("worker", l)
    BY <1>6, Zenon DEF EndOfTask, HandleResponse, CallFinish, tpmVars
  <2> QED BY <2>1, MutexStep, Zenon DEF Threads, MutexLabels, Locked, Scheduling
<1>7. CASE Next
  BY <1>2, <1>3, <1>4, <1>5, <1>6, <1>7, ScheduleUploadMutex, UploadMutex, UploadAsyncMutex, ApiMutex,
     StopMutex, Zenon
     DEF Next, ThreadStep, Terminated
<1> QED BY <1>2, <1>7, Zenon

-----------------------------------------------------------------------------
(* SchedInv: without a pause or a cleanup, which cancel without the mutex, the flag, the *)
(* handle and the queue agree.                                                           *)

NoPauses == Ops \cap {"Pause", "DeleteData"} = {}

\* A pause or a cleanup is going on; the stop has set m_isPaused.
Pausing == {"pa_cancel", "pa_clear", "pa_http", "pa_wait",
            "cl_http", "cl_wait", "cl_cancel", "cl_clear", "cl_spin", "cl_delete"}
Halting == {"sp_cancel", "sp_clear", "sp_http", "sp_wait", "fa_http", "fa_wait", "fa_cancel", "fa_clear",
            "st_lock", "st_cancel", "st_wait", "st_clear", "st_spin"}

\* There is an upload task that has not yet reset the flag.
Picked == {"picked", "ua_lock"}
Busy == queued # {} \/ pc["worker"] \in Picked

\* Before the first start nothing happens.
NewIsQuiet ==
    system = "new" => /\ queued = {} /\ ~m_scheduledUploadAborted
                      /\ \A t \in Threads : pc[t] = "idle"
                      /\ \A c \in Uploads : uploads[c].st = "free"

\* Only a stop pauses, and nothing resumes after it.
UserPhase ==
    /\ pc["user"] \notin Pausing /\ system # "paused"
    /\ m_isPaused => pc["user"] \in Halting \/ (pc["user"] = "idle" /\ system \in {"new", "stopped"})
    /\ pc["user"] \in Halting => m_isPaused
    /\ m_scheduledUploadAborted => m_isPaused
    /\ pc["worker"] \in {"ua_cancel", "ua_clear"} => m_isPaused

\* The queued task is the one in the handle, or about to be assigned to it.
HandleKnowsTask ==
    /\ \A t \in Threads : pc[t] = "su_handle" => queued \subseteq {arg[t].task}
    /\ queued \subseteq {m_scheduledUpload} \/ \E t \in Threads : pc[t] = "su_handle"

\* So is the task the worker has picked, until handleStop drops it.
PickedKnown ==
    pc["worker"] \in Picked =>
        /\ queued = {}
        /\ \/ m_isPaused
           \/ /\ m_itemInProgress # NoTask
              /\ m_itemInProgress = IF pc["user"] = "su_handle" THEN arg["user"].task
                                    ELSE m_scheduledUpload

\* A task without the flag is left only by the stop's cancellation, and nobody schedules then.
FlagAgrees ==
    /\ Busy /\ ~m_isUploadScheduled => m_isPaused /\ \A t \in Threads : pc[t] \notin Scheduling
    /\ \A t \in Threads : pc[t] \in {"su_clear", "su_queue"} => ~Busy
    /\ \A t \in Threads : pc[t] = "su_queue" /\ ~m_isUploadScheduled => m_isPaused
    /\ pc["user"] \in {"sp_clear", "fa_clear"} /\ Busy => pc["worker"] \notin Scheduling

\* handleStop aborts under the mutex: from then on nothing is queued.
AbortedQuiet ==
    /\ m_scheduledUploadAborted => \A t \in Threads : pc[t] \notin Locked
    /\ pc["user"] \in {"st_cancel", "st_wait", "st_clear", "st_spin"} \/ system = "stopped" =>
          m_scheduledUploadAborted
    /\ pc["user"] \in {"st_wait", "st_clear", "st_spin"} \/ system = "stopped" => queued = {}

SchedInv == NewIsQuiet /\ UserPhase /\ HandleKnowsTask /\ PickedKnown /\ FlagAgrees /\ AbortedQuiet

\* What the scheduling state consists of, apart from the control.
schedVars == <<queued, m_isUploadScheduled, m_scheduledUpload, m_isPaused, m_scheduledUploadAborted>>

\* The control points SchedInv speaks about.
Sensitive == Locked \cup Picked \cup {"ua_cancel", "ua_clear"} \cup Halting \cup Pausing

\* Where thread t goes, and that the other one stays.
LEMMA GotoWhere ==
  ASSUME Typed, NEW t \in Threads, NEW l, Goto(t, l)
  PROVE  pc'[t] = l /\ \A s \in Threads : s # t => pc'[s] = pc[s]
  BY Zenon DEF Goto, Typed, PcOK

\* A thread that is inside the library runs after the first start; and unless it stops the
\* system, or before that, nothing is paused.
LEMMA Running ==
  ASSUME SchedInv, NEW t \in Threads, pc[t] # "idle"
  PROVE  system # "new" /\ (t = "user" /\ pc[t] \notin Halting => ~m_isPaused)
  BY Zenon DEF SchedInv, NewIsQuiet, UserPhase

\* A step that ends at no point SchedInv speaks about, and changes none of its state.
LEMMA QuietSched ==
  ASSUME Typed, SchedInv, NEW t \in Threads, NEW l, l \notin Sensitive, Goto(t, l),
         pc[t] # "su_handle", system # "new", t = "user" => ~m_isPaused,
         UNCHANGED schedVars, system' = system \/ (t = "user" /\ system' = "stopping"),
         t = "user" => UNCHANGED m_itemInProgress,
         \A s \in Threads : s # t => arg'[s] = arg[s]
  PROVE  SchedInv'
<1>1. pc'[t] = l /\ \A s \in Threads : s # t => pc'[s] = pc[s]  BY GotoWhere, Zenon
<1>2. UNCHANGED <<queued, m_isUploadScheduled, m_scheduledUpload, m_isPaused, m_scheduledUploadAborted>>
  BY Zenon DEF schedVars
<1>3. "user" \in Threads /\ "worker" \in Threads  BY Zenon DEF Threads
<1>4. NewIsQuiet'  BY Zenon DEF NewIsQuiet
<1>5. t = "user" \/ t = "worker"  BY Zenon DEF Threads
<1>6. UserPhase'
  <2>1. l \notin Pausing \cup Halting \cup {"ua_cancel", "ua_clear"}  BY Zenon DEF Sensitive
  <2>2. system' \in {"new", "stopped"} => system' = system  BY Zenon
  <2>3. system' # "paused"  BY Zenon DEF SchedInv, UserPhase
  <2>4. CASE t = "worker"
    <3>1. pc'["user"] = pc["user"] /\ pc'["worker"] = l  BY <1>1, <1>3, <2>4, Zenon
    <3>2. system' = system  BY <2>4, Zenon
    <3> QED BY <1>2, <2>1, <2>2, <2>3, <3>1, <3>2, Zenon DEF SchedInv, UserPhase
  <2>5. CASE t = "user"
    <3>1. pc'["worker"] = pc["worker"] /\ pc'["user"] = l /\ ~m_isPaused  BY <1>1, <1>3, <2>5, Zenon
    <3> QED BY <1>2, <2>1, <2>3, <3>1, Zenon DEF SchedInv, UserPhase
  <2> QED BY <1>5, <2>4, <2>5, Zenon
<1>7. \A s \in Threads : pc'[s] \in Sensitive => pc'[s] = pc[s] /\ s # t  BY <1>1, Zenon
<1>8. \A s \in Threads : s # t => arg'[s] = arg[s]  BY Zenon
<1>9. HandleKnowsTask'
  BY <1>1, <1>2, <1>7, <1>8, Zenon DEF SchedInv, HandleKnowsTask, Sensitive, Locked
<1>10. Busy' => Busy  BY <1>2, <1>3, <1>7, Zenon DEF Busy, Sensitive
<1>11. PickedKnown'
  <2>1. CASE t = "worker"  BY <1>1, <2>1, Zenon DEF PickedKnown, Sensitive
  <2>2. CASE t = "user"
    <3>1. pc'["user"] # "su_handle" /\ pc["user"] # "su_handle" /\ pc'["worker"] = pc["worker"]
      BY <1>1, <1>3, <2>2, Zenon DEF Sensitive, Locked
    <3> QED BY <1>2, <2>2, <3>1, Zenon DEF SchedInv, PickedKnown
  <2> QED BY <1>5, <2>1, <2>2, Zenon
<1>12. FlagAgrees'
  <2>1. \A s \in Threads : pc'[s] \in Scheduling => pc[s] \in Scheduling /\ pc'[s] = pc[s]
    BY <1>7, Zenon DEF Sensitive, Locked
  <2>2. pc'["user"] \in {"sp_clear", "fa_clear"} => pc'["user"] = pc["user"]
    BY <1>3, <1>7, Zenon DEF Sensitive, Halting
  <2> QED BY <1>2, <1>3, <1>10, <2>1, <2>2, Zenon DEF SchedInv, FlagAgrees, Scheduling
<1>13. AbortedQuiet'
  <2>1. \A s \in Threads : pc'[s] \in Locked => pc'[s] = pc[s]  BY <1>7, Zenon DEF Sensitive
  <2>2. pc'["user"] \in Halting => pc'["user"] = pc["user"]  BY <1>3, <1>7, Zenon DEF Sensitive
  <2>3. system' = "stopped" => system = "stopped"  BY Zenon
  <2> QED BY <1>2, <2>1, <2>2, <2>3, Zenon DEF SchedInv, AbortedQuiet, Halting
<1> QED BY <1>4, <1>6, <1>9, <1>11, <1>12, <1>13, Zenon DEF SchedInv

\* A return ends at no point SchedInv speaks about.
LEMMA ReturnQuiet ==
  ASSUME Typed, NEW t \in Threads, Return(t)
  PROVE  /\ \E l : l \notin Sensitive /\ Goto(t, l)
         /\ \A s \in Threads : s # t => arg'[s] = arg[s]
<1>1. \A s \in Threads : s # t => arg'[s] = arg[s]  BY Zenon DEF Return, Typed, ArgOK
<1>2. arg[t].cont \in {"idle", "st_drain", "w_end"}  BY Zenon DEF Typed, ArgOK, Arguments
<1>3. arg[t].cont \notin Sensitive
  BY <1>2, Zenon DEF Sensitive, Locked, Scheduling, Picked, Halting, Pausing
<1> QED BY <1>1, <1>3, Zenon DEF Return, Goto

\* Returning early from scheduleUpload.
LEMMA ScheduleReturnSched ==
  ASSUME Typed, SchedInv, NEW t \in Threads, Return(t), pc[t] \in {"su_lock", "su_timers", "su_exchange"},
         UNCHANGED <<schedVars, m_itemInProgress, system>>
  PROVE  SchedInv'
<1>1. system # "new" /\ (t = "user" => ~m_isPaused)  BY Running, Zenon DEF Halting
<1> QED BY <1>1, ReturnQuiet, QuietSched, Zenon

\* A thread that does not stop the system keeps the phase.
LEMMA PhaseKept ==
  ASSUME Typed, SchedInv, NEW t \in Threads, t = "user" => ~m_isPaused,
         NEW l, l \notin Pausing \cup Halting \cup {"ua_cancel", "ua_clear"}, Goto(t, l),
         UNCHANGED <<m_isPaused, m_scheduledUploadAborted, system>>
  PROVE  UserPhase'
<1>1. pc'[t] = l /\ \A s \in Threads : s # t => pc'[s] = pc[s]  BY GotoWhere, Zenon
<1>2. "user" \in Threads /\ "worker" \in Threads  BY Zenon DEF Threads
<1>3. CASE t = "user"  BY <1>1, <1>2, <1>3, Zenon DEF SchedInv, UserPhase
<1>4. CASE t = "worker"  BY <1>1, <1>2, <1>4, Zenon DEF SchedInv, UserPhase
<1> QED BY <1>3, <1>4, Zenon DEF Threads

\* A thread under the mutex in scheduleUpload runs before the abort.
LEMMA NotYetAborted ==
  ASSUME Typed, SchedInv, NEW t \in Threads, pc[t] \in Locked, NEW l, l \notin Halting, Goto(t, l),
         UNCHANGED <<m_scheduledUploadAborted, system>>
  PROVE  AbortedQuiet'
<1>1. pc'[t] = l /\ \A s \in Threads : s # t => pc'[s] = pc[s]  BY GotoWhere, Zenon
<1>2. "user" \in Threads  BY Zenon DEF Threads
<1>3. ~m_scheduledUploadAborted  BY Zenon DEF SchedInv, AbortedQuiet
<1>4. pc'["user"] \in Halting => pc["user"] = pc'["user"]  BY <1>1, <1>2, Zenon
<1> QED BY <1>3, <1>4, Zenon DEF SchedInv, AbortedQuiet, Halting

\* From one point of scheduleUpload to the next, with nothing changed.
LEMMA MoveSched ==
  ASSUME Typed, SchedInv, NEW t \in Threads, pc[t] \in Scheduling, NEW l \in {"su_cancel", "su_exchange"},
         Goto(t, l), UNCHANGED <<schedVars, m_itemInProgress, system>>,
         \A s \in Threads : s # t => arg'[s] = arg[s]
  PROVE  SchedInv'
<1>1. pc'[t] = l /\ \A s \in Threads : s # t => pc'[s] = pc[s]  BY GotoWhere, Zenon
<1>2. UNCHANGED <<queued, m_isUploadScheduled, m_scheduledUpload, m_isPaused, m_scheduledUploadAborted>>
  BY Zenon DEF schedVars
<1>3. "user" \in Threads /\ "worker" \in Threads  BY Zenon DEF Threads
<1>4. system # "new" /\ (t = "user" => ~m_isPaused)  BY Running, Zenon DEF Scheduling, Halting
<1>5. \A s \in Threads : pc'[s] \in Scheduling => pc[s] \in Scheduling  BY <1>1, Zenon
<1>6. /\ \A s \in Threads : pc'[s] = "su_handle" => pc[s] = "su_handle" /\ arg'[s] = arg[s]
      /\ \A s \in Threads : pc[s] = "su_handle" => pc'[s] = "su_handle"
      /\ \A s \in Threads : pc'[s] \in {"su_clear", "su_queue"} => pc'[s] = pc[s]
  BY <1>1, Zenon DEF Scheduling
<1>7. /\ pc'["worker"] \in Picked => pc["worker"] \in Picked
      /\ pc'["worker"] \in {"ua_cancel", "ua_clear"} => pc["worker"] \in {"ua_cancel", "ua_clear"}
  BY <1>1, <1>3, Zenon DEF Picked
<1>8. NewIsQuiet'  BY <1>4, Zenon DEF NewIsQuiet
<1>9. UserPhase'  BY <1>2, <1>4, PhaseKept, Zenon DEF Pausing, Halting
<1>10. HandleKnowsTask'  BY <1>2, <1>6, Zenon DEF SchedInv, HandleKnowsTask
<1>11. PickedKnown'  BY <1>2, <1>3, <1>6, <1>7, Zenon DEF SchedInv, PickedKnown
<1>12. Busy' => Busy  BY <1>2, <1>7, Zenon DEF Busy
<1>13. FlagAgrees'
  <2>1. pc'["user"] \in {"sp_clear", "fa_clear"} => pc["user"] = pc'["user"]
    BY <1>1, <1>3, Zenon
  <2> QED BY <1>2, <1>3, <1>5, <1>6, <1>12, <2>1, Zenon DEF SchedInv, FlagAgrees
<1>14. AbortedQuiet'  BY <1>2, NotYetAborted, Zenon DEF Locked, Halting
<1> QED BY <1>8, <1>9, <1>10, <1>11, <1>13, <1>14, Zenon DEF SchedInv

\* scheduleUpload starts only while nothing is paused or aborted.
LEMMA ScheduleLockSched ==
  ASSUME Typed, SchedInv, NEW t \in Threads, ScheduleUpload_Lock(t)
  PROVE  SchedInv'
<1>1. CASE Return(t)
  BY <1>1, ScheduleReturnSched, Zenon DEF ScheduleUpload_Lock, schedVars, taskVars
<1>2. CASE ~m_scheduledUploadAborted /\ ~m_isPaused /\ Goto(t, "su_timers") /\ UNCHANGED arg
  <2>1. pc'[t] = "su_timers" /\ \A s \in Threads : s # t => pc'[s] = pc[s]  BY <1>2, GotoWhere, Zenon
  <2>2. UNCHANGED <<queued, m_isUploadScheduled, m_scheduledUpload, m_isPaused, m_scheduledUploadAborted,
                    m_itemInProgress, system, arg>>
    BY <1>2, Zenon DEF ScheduleUpload_Lock, taskVars
  <2>3. "user" \in Threads /\ "worker" \in Threads  BY Zenon DEF Threads
  <2>4. system # "new" /\ pc[t] = "su_lock"  BY Running, Zenon DEF ScheduleUpload_Lock
  <2>5. NewIsQuiet'  BY <2>2, <2>4, Zenon DEF NewIsQuiet
  <2>6. UserPhase'
    BY <1>2, <2>1, <2>2, <2>3, Zenon DEF SchedInv, UserPhase, Pausing, Halting
  <2>7. \A s \in Threads : (pc'[s] = "su_handle") = (pc[s] = "su_handle")  BY <2>1, <2>4, Zenon
  <2>8. HandleKnowsTask'  BY <2>2, <2>7, Zenon DEF SchedInv, HandleKnowsTask
  <2>9. pc'["worker"] \in Picked => pc["worker"] \in Picked  BY <2>1, <2>3, Zenon DEF Picked
  <2>10. PickedKnown'  BY <2>2, <2>3, <2>7, <2>9, Zenon DEF SchedInv, PickedKnown
  <2>11. FlagAgrees'
    <3>1. \A s \in Threads : pc'[s] \in {"su_clear", "su_queue"} => pc'[s] = pc[s]  BY <2>1, Zenon
    <3>2. pc'["user"] \notin {"sp_clear", "fa_clear"}
      BY <1>2, <2>2, <2>6, Zenon DEF UserPhase, Halting
    <3>3. Busy' => Busy  BY <2>2, <2>9, Zenon DEF Busy
    <3> QED BY <1>2, <2>2, <3>1, <3>2, <3>3, Zenon DEF SchedInv, FlagAgrees
  <2>12. AbortedQuiet'
    <3>1. pc'["user"] \in {"st_cancel", "st_wait", "st_clear", "st_spin"} => pc["user"] = pc'["user"]
      BY <2>1, <2>3, Zenon
    <3> QED BY <1>2, <2>2, <3>1, Zenon DEF SchedInv, AbortedQuiet
  <2> QED BY <2>5, <2>6, <2>8, <2>10, <2>11, <2>12, Zenon DEF SchedInv
<1> QED BY <1>1, <1>2, Zenon DEF ScheduleUpload_Lock

\* No other thread is at a point under the mutex.
LEMMA OnlyOne ==
  ASSUME MutexHeld, NEW t \in Threads, pc[t] \in MutexLabels
  PROVE  \A s \in Threads : s # t => pc[s] \notin MutexLabels
  BY Zenon DEF MutexHeld

\* The refreshed timers do not touch the scheduling state.
LEMMA ScheduleTimersSched ==
  ASSUME Typed, SchedInv, NEW t \in Threads, ScheduleUpload_Timers(t)
  PROVE  SchedInv'
<1>1. UNCHANGED <<schedVars, m_itemInProgress, system>> /\ pc[t] = "su_timers"
  BY Zenon DEF ScheduleUpload_Timers, schedVars, taskVars
<1>2. CASE ReleaseAndReturn(t)  BY <1>1, <1>2, ScheduleReturnSched, Zenon DEF ReleaseAndReturn
<1>3. CASE /\ Goto(t, IF arg[t].force \/ arg[t].delay = 0 THEN "su_cancel" ELSE "su_exchange")
           /\ arg' = [arg EXCEPT ![t].lat = AllowedLatency(arg[t].lat)]
  <2>1. \A s \in Threads : s # t => arg'[s] = arg[s]  BY <1>3, Zenon DEF Typed, ArgOK
  <2>2. \E l \in {"su_cancel", "su_exchange"} : Goto(t, l)  BY <1>3, Zenon
  <2> QED BY <1>1, <2>1, <2>2, MoveSched, Zenon DEF Scheduling
<1> QED BY <1>2, <1>3, Zenon DEF ScheduleUpload_Timers

\* Under the mutex the cancellation succeeds only if no task is left.
LEMMA ScheduleCancelSched ==
  ASSUME Typed, TasksApart, MutexHeld, SchedInv, NEW t \in Threads,
         CancelUploadTask(t, "su_cancel", "su_clear", "su_exchange")
  PROVE  SchedInv'
<1>u. "user" \in Threads /\ "worker" \in Threads  BY Zenon DEF Threads
<1>a. pc[t] \in {"su_cancel", "su_clear"}  BY Zenon DEF CancelUploadTask
<1>b. \A s \in Threads : s # t => pc[s] \notin MutexLabels
  BY <1>a, OnlyOne, Zenon DEF MutexLabels, Locked, Scheduling
<1>c. system # "new" /\ (t = "user" => ~m_isPaused)  BY <1>a, Running, Zenon DEF Halting
<1>d. ~\E s \in Threads : pc[s] = "su_handle"  BY <1>a, <1>b, Zenon DEF MutexLabels, Locked
<1>1. CASE /\ pc[t] = "su_cancel"
           /\ EraseScheduled
           /\ CancelFails(t)
           /\ Goto(t, "su_exchange")
           /\ UNCHANGED <<tpmVars, m_itemInProgress, system, arg>>
  <2>1. queued' = queued  BY <1>1, Zenon DEF CancelFails, EraseScheduled, TasksApart
  <2> QED BY <1>1, <2>1, MoveSched, Zenon DEF schedVars, tpmVars, Scheduling
<1>2. CASE /\ pc[t] = "su_cancel"
           /\ EraseScheduled
           /\ ~CancelFails(t)
           /\ Goto(t, "su_clear")
           /\ UNCHANGED <<tpmVars, m_itemInProgress, system, arg>>
  <2>1. pc'[t] = "su_clear" /\ \A s \in Threads : s # t => pc'[s] = pc[s]  BY <1>2, GotoWhere, Zenon
  <2>2. UNCHANGED <<m_isUploadScheduled, m_scheduledUpload, m_isPaused, m_scheduledUploadAborted,
                    m_itemInProgress, system, arg>>
    BY <1>2, Zenon DEF tpmVars
  <2>3. queued' = {}  BY <1>2, <1>d, Zenon DEF EraseScheduled, SchedInv, HandleKnowsTask
  <2>4. pc'["worker"] \notin Picked
    <3>1. CASE t = "worker"  BY <2>1, <3>1, Zenon DEF Picked
    <3>2. CASE t = "user"
      BY <1>2, <1>c, <1>d, <1>u, <2>1, <3>2, Zenon DEF SchedInv, PickedKnown, CancelFails
    <3> QED BY <3>1, <3>2, Zenon DEF Threads
  <2>5. ~Busy'  BY <2>3, <2>4, Zenon DEF Busy
  <2>6. NewIsQuiet'  BY <1>c, <2>2, Zenon DEF NewIsQuiet
  <2>7. UserPhase'  BY <1>2, <1>c, <2>2, PhaseKept, Zenon DEF Pausing, Halting
  <2>8. HandleKnowsTask' /\ PickedKnown'  BY <2>3, <2>4, Zenon DEF HandleKnowsTask, PickedKnown
  <2>9. FlagAgrees'
    BY <1>b, <2>1, <2>5, Zenon DEF FlagAgrees, MutexLabels, Locked, Scheduling
  <2>10. AbortedQuiet'  BY <1>2, <2>2, NotYetAborted, Zenon DEF Locked, Scheduling, Halting
  <2> QED BY <2>6, <2>7, <2>8, <2>9, <2>10, Zenon DEF SchedInv
<1>3. CASE /\ pc[t] = "su_clear"
           /\ m_isUploadScheduled' = FALSE
           /\ Goto(t, "su_exchange")
           /\ UNCHANGED <<m_isPaused, m_scheduledUploadAborted, m_scheduledUpload, taskVars, system, arg>>
  <2>1. pc'[t] = "su_exchange" /\ \A s \in Threads : s # t => pc'[s] = pc[s]  BY <1>3, GotoWhere, Zenon
  <2>2. UNCHANGED <<queued, m_scheduledUpload, m_isPaused, m_scheduledUploadAborted,
                    m_itemInProgress, system, arg>>
    BY <1>3, Zenon DEF taskVars
  <2>3. ~Busy  BY <1>3, Zenon DEF SchedInv, FlagAgrees
  <2>4. pc'["worker"] \notin Picked /\ queued' = {}
    BY <1>u, <2>1, <2>2, <2>3, Zenon DEF Busy, Picked
  <2>5. NewIsQuiet'  BY <1>c, <2>2, Zenon DEF NewIsQuiet
  <2>6. UserPhase'  BY <1>3, <1>c, <2>2, PhaseKept, Zenon DEF Pausing, Halting
  <2>7. HandleKnowsTask' /\ PickedKnown'  BY <2>4, Zenon DEF HandleKnowsTask, PickedKnown
  <2>8. FlagAgrees'
    BY <1>b, <2>1, <2>4, Zenon DEF FlagAgrees, Busy, MutexLabels, Locked, Scheduling
  <2>9. AbortedQuiet'  BY <1>3, <2>2, NotYetAborted, Zenon DEF Locked, Scheduling, Halting
  <2> QED BY <2>5, <2>6, <2>7, <2>8, <2>9, Zenon DEF SchedInv
<1> QED BY <1>1, <1>2, <1>3, Zenon DEF CancelUploadTask

\* The exchange lets one caller through, and only when no task is left.
LEMMA ScheduleExchangeSched ==
  ASSUME Typed, MutexHeld, SchedInv, NEW t \in Threads, ScheduleUpload_Exchange(t)
  PROVE  SchedInv'
<1>u. "user" \in Threads /\ "worker" \in Threads  BY Zenon DEF Threads
<1>a. pc[t] = "su_exchange"  BY Zenon DEF ScheduleUpload_Exchange
<1>b. UNCHANGED <<queued, m_scheduledUpload, m_isPaused, m_scheduledUploadAborted, m_itemInProgress, system>>
  BY Zenon DEF ScheduleUpload_Exchange, taskVars
<1>c. m_isUploadScheduled' = TRUE  BY Zenon DEF ScheduleUpload_Exchange
<1>1. CASE m_isUploadScheduled
  <2>1. m_isUploadScheduled' = m_isUploadScheduled  BY <1>1, <1>c, Zenon DEF Typed, FlatOK
  <2>2. Return(t)  BY <1>1, Zenon DEF ScheduleUpload_Exchange, ReleaseAndReturn
  <2> QED BY <1>a, <1>b, <2>1, <2>2, ScheduleReturnSched, Zenon DEF schedVars
<1>2. CASE ~m_isUploadScheduled
  <2>1. Goto(t, "su_queue") /\ UNCHANGED arg  BY <1>2, Zenon DEF ScheduleUpload_Exchange
  <2>2. pc'[t] = "su_queue" /\ \A s \in Threads : s # t => pc'[s] = pc[s]  BY <2>1, GotoWhere, Zenon
  <2>3. system # "new" /\ (t = "user" => ~m_isPaused)  BY <1>a, Running, Zenon DEF Halting
  <2>4. ~Busy  BY <1>2, <1>a, Zenon DEF SchedInv, FlagAgrees, Scheduling
  <2>5. pc'["worker"] \notin Picked /\ queued' = {}
    BY <1>b, <1>u, <2>2, <2>4, Zenon DEF Busy, Picked
  <2>6. NewIsQuiet'  BY <1>b, <2>3, Zenon DEF NewIsQuiet
  <2>7. UserPhase'  BY <1>b, <2>1, <2>3, PhaseKept, Zenon DEF Pausing, Halting
  <2>8. HandleKnowsTask' /\ PickedKnown'  BY <2>5, Zenon DEF HandleKnowsTask, PickedKnown
  <2>9. FlagAgrees'  BY <1>c, <2>5, Zenon DEF FlagAgrees, Busy
  <2>10. AbortedQuiet'
    BY <1>a, <1>b, <2>1, NotYetAborted, Zenon DEF Locked, Scheduling, Halting
  <2> QED BY <2>6, <2>7, <2>8, <2>9, <2>10, Zenon DEF SchedInv
<1> QED BY <1>1, <1>2, Zenon

\* The queued task is the only one.
LEMMA ScheduleQueueSched ==
  ASSUME Typed, MutexHeld, SchedInv, NEW t \in Threads, ScheduleUpload_Queue(t)
  PROVE  SchedInv'
<1>u. "user" \in Threads /\ "worker" \in Threads  BY Zenon DEF Threads
<1>a. pc[t] = "su_queue" /\ Goto(t, "su_handle")  BY Zenon DEF ScheduleUpload_Queue
<1>b. UNCHANGED <<m_isUploadScheduled, m_scheduledUpload, m_isPaused, m_scheduledUploadAborted,
                  m_itemInProgress, system>>
  BY Zenon DEF ScheduleUpload_Queue, tpmVars
<1>1. PICK a \in Tasks : queued' = queued \cup {a} /\ arg' = [arg EXCEPT ![t].task = a]
  BY Zenon DEF ScheduleUpload_Queue
<1>2. pc'[t] = "su_handle" /\ \A s \in Threads : s # t => pc'[s] = pc[s]  BY <1>a, GotoWhere, Zenon
<1>3. \A s \in Threads : s # t => pc[s] \notin MutexLabels
  BY <1>a, OnlyOne, Zenon DEF MutexLabels, Locked, Scheduling
<1>4. system # "new" /\ (t = "user" => ~m_isPaused)  BY <1>a, Running, Zenon DEF Halting
<1>5. ~Busy  BY <1>a, Zenon DEF SchedInv, FlagAgrees
<1>6. queued' = {a} /\ pc'["worker"] \notin Picked
  BY <1>1, <1>2, <1>5, <1>u, Zenon DEF Busy, Picked
<1>7. arg'[t].task = a
  <2>1. arg[t] \in Arguments  BY Zenon DEF Typed, ArgOK
  <2>2. arg'[t] = [arg[t] EXCEPT !.task = a]  BY <1>1, Zenon DEF Typed, ArgOK
  <2> QED BY <2>1, <2>2, Zenon DEF Arguments
<1>8. NewIsQuiet'  BY <1>b, <1>4, Zenon DEF NewIsQuiet
<1>9. UserPhase'  BY <1>a, <1>b, <1>4, PhaseKept, Zenon DEF Pausing, Halting
<1>10. HandleKnowsTask'
  BY <1>2, <1>3, <1>6, <1>7, Zenon DEF HandleKnowsTask, MutexLabels, Locked
<1>11. PickedKnown'  BY <1>6, Zenon DEF PickedKnown
<1>12. FlagAgrees'
  <2>1. \A s \in Threads : pc'[s] \notin Scheduling  BY <1>2, <1>3, Zenon DEF MutexLabels, Locked, Scheduling
  <2>2. ~m_isUploadScheduled => m_isPaused  BY <1>a, Zenon DEF SchedInv, FlagAgrees
  <2> QED BY <1>b, <1>u, <2>1, <2>2, Zenon DEF FlagAgrees, Scheduling
<1>13. AbortedQuiet'
  BY <1>a, <1>b, NotYetAborted, Zenon DEF Locked, Scheduling, Halting
<1> QED BY <1>8, <1>9, <1>10, <1>11, <1>12, <1>13, Zenon DEF SchedInv

\* The handle gets the queued task, which the worker may have picked meanwhile.
LEMMA ScheduleHandleSched ==
  ASSUME Typed, MutexHeld, SchedInv, NEW t \in Threads, ScheduleUpload_Handle(t)
  PROVE  SchedInv'
<1>u. "user" \in Threads /\ "worker" \in Threads  BY Zenon DEF Threads
<1>a. pc[t] = "su_handle" /\ Return(t)  BY Zenon DEF ScheduleUpload_Handle, ReleaseAndReturn
<1>b. UNCHANGED <<queued, m_isUploadScheduled, m_isPaused, m_scheduledUploadAborted,
                  m_itemInProgress, system>>
  BY Zenon DEF ScheduleUpload_Handle, taskVars
<1>c. m_scheduledUpload' = arg[t].task  BY Zenon DEF ScheduleUpload_Handle
<1>1. PICK l : l \notin Sensitive /\ Goto(t, l)  BY <1>a, ReturnQuiet, Zenon
<1>2. pc'[t] = l /\ \A s \in Threads : s # t => pc'[s] = pc[s]  BY <1>1, GotoWhere, Zenon
<1>3. \A s \in Threads : s # t => pc[s] \notin MutexLabels
  BY <1>a, OnlyOne, Zenon DEF MutexLabels, Locked
<1>4. system # "new" /\ (t = "user" => ~m_isPaused)  BY <1>a, Running, Zenon DEF Halting
<1>5. \A s \in Threads : pc'[s] \notin Locked
  BY <1>1, <1>2, <1>3, Zenon DEF MutexLabels, Sensitive
<1>6. pc'["worker"] \in Picked => pc["worker"] \in Picked /\ t = "user"
  BY <1>1, <1>2, <1>u, Zenon DEF Sensitive, Threads
<1>7. NewIsQuiet'  BY <1>b, <1>4, Zenon DEF NewIsQuiet
<1>8. UserPhase'  BY <1>1, <1>b, <1>4, PhaseKept, Zenon DEF Sensitive
<1>9. HandleKnowsTask'  BY <1>5, <1>a, <1>b, <1>c, Zenon DEF SchedInv, HandleKnowsTask, Locked
<1>10. PickedKnown'
  BY <1>5, <1>6, <1>a, <1>b, <1>c, <1>u, Zenon DEF SchedInv, PickedKnown, Locked
<1>11. FlagAgrees'
  <2>1. Busy' => Busy  BY <1>6, <1>b, Zenon DEF Busy
  <2> QED BY <1>5, <1>b, <1>u, <2>1, Zenon DEF SchedInv, FlagAgrees, Locked, Scheduling
<1>12. AbortedQuiet'  BY <1>1, <1>a, <1>b, NotYetAborted, Zenon DEF Locked, Sensitive
<1> QED BY <1>7, <1>8, <1>9, <1>10, <1>11, <1>12, Zenon DEF SchedInv

\* Every step of scheduleUpload.
LEMMA ScheduleUploadSched ==
  ASSUME Typed, TasksApart, MutexHeld, SchedInv, NEW t \in Threads, ScheduleUpload(t)
  PROVE  SchedInv'
  BY ScheduleLockSched, ScheduleTimersSched, ScheduleCancelSched, ScheduleExchangeSched,
     ScheduleQueueSched, ScheduleHandleSched, Zenon
     DEF ScheduleUpload

\* Uploads and events do not touch the scheduling state.
LEMMA UploadSched ==
  ASSUME Typed, SchedInv, NEW t \in Threads, Upload(t) \/ HandleEventArrived(t)
  PROVE  SchedInv'
<1>1. pc[t] \in {"retrieve", "finish", "priority", "ev_arrived", "ev_upload", "ev_schedule"}
  BY Zenon DEF Upload, HandleNothingToUpload, HandlePackagingFailed, HandleSendRequest, FinishUpload,
     CalculateNewPriority, HandleEventArrived, HandleEventArrived_Check, HandleEventArrived_Upload,
     HandleEventArrived_Schedule
<1>2. UNCHANGED <<schedVars, m_itemInProgress, system>>
  <2>1. CASE Upload(t)
    BY <2>1, Zenon DEF Upload, HandleNothingToUpload, HandlePackagingFailed, HandleSendRequest, FinishUpload,
       CalculateNewPriority, schedVars, tpmVars, taskVars
  <2>2. CASE HandleEventArrived(t)
    BY <2>2, Zenon DEF HandleEventArrived, HandleEventArrived_Check, HandleEventArrived_Upload,
       HandleEventArrived_Schedule, schedVars, tpmVars, taskVars
  <2> QED BY <2>1, <2>2, Zenon
<1>3. \/ Return(t)
      \/ /\ \E l \in {"finish", "priority", "su_lock", "ev_upload", "ev_schedule", "retrieve"} : Goto(t, l)
         /\ \A s \in Threads : s # t => arg'[s] = arg[s]
  <2>1. CASE Upload(t)
    BY <2>1, Zenon DEF Upload, HandleNothingToUpload, HandlePackagingFailed, HandleSendRequest, FinishUpload,
       CalculateNewPriority, CallFinish, CallSchedule, Typed, ArgOK
  <2>2. CASE HandleEventArrived(t)
    BY <2>2, Zenon DEF HandleEventArrived, HandleEventArrived_Check, HandleEventArrived_Upload,
       HandleEventArrived_Schedule, AddUpload, CallSchedule, Typed, ArgOK
  <2> QED BY <2>1, <2>2, Zenon
<1>4. /\ \E l : l \notin Sensitive /\ Goto(t, l)
      /\ \A s \in Threads : s # t => arg'[s] = arg[s]
  BY <1>3, ReturnQuiet, Zenon DEF Sensitive, Locked, Scheduling, Picked, Halting, Pausing
<1>5. system # "new" /\ (t = "user" => ~m_isPaused)  BY <1>1, Running, Zenon DEF Halting
<1> QED BY <1>1, <1>2, <1>4, <1>5, QuietSched, Zenon

\* An event, a response and the end of a task do not touch the scheduling state.
LEMMA EventSched ==
  ASSUME Typed, SchedInv,
         \/ \E t \in Threads, e \in Events : LogEvent(t, e)
         \/ EndOfTask
         \/ \E c \in Uploads : HandleResponse(c)
  PROVE  SchedInv'
<1>w. "worker" \in Threads  BY Zenon DEF Threads
<1>1. ASSUME NEW t \in Threads, NEW e \in Events, LogEvent(t, e) PROVE SchedInv'
  <2>1. /\ pc[t] = "idle" /\ system # "new" /\ (t = "user" => system = "started")
        /\ Goto(t, "ev_arrived") /\ UNCHANGED <<schedVars, m_itemInProgress, system>>
    BY <1>1, Zenon DEF LogEvent, tpmVars, taskVars, schedVars, SchedInv, UserPhase
  <2>2. \A s \in Threads : s # t => arg'[s] = arg[s]  BY <1>1, Zenon DEF LogEvent, Typed, ArgOK
  <2>3. t = "user" => ~m_isPaused  BY <2>1, Zenon DEF SchedInv, UserPhase, Halting
  <2>4. "ev_arrived" \notin Sensitive
    BY Zenon DEF Sensitive, Locked, Scheduling, Picked, Halting, Pausing
  <2> QED BY <2>1, <2>2, <2>3, <2>4, QuietSched, Zenon
<1>2. ASSUME pc["worker"] \in {"idle", "w_end"}, system # "new",
             \E l \in {"idle", "finish"} : Goto("worker", l),
             UNCHANGED <<schedVars, system>>, \A s \in Threads : s # "worker" => arg'[s] = arg[s]
      PROVE  SchedInv'
  <2>1. \E l : l \notin Sensitive /\ Goto("worker", l)
    BY <1>2, Zenon DEF Sensitive, Locked, Scheduling, Picked, Halting, Pausing
  <2> QED BY <1>2, <1>w, <2>1, QuietSched, Zenon
<1>3. CASE EndOfTask
  <2>1. system # "new"  BY <1>3, <1>w, Running, Zenon DEF EndOfTask
  <2> QED BY <1>2, <1>3, <2>1, Zenon DEF EndOfTask, schedVars, tpmVars
<1>4. ASSUME NEW c \in Uploads, HandleResponse(c) PROVE SchedInv'
  <2>1. system # "new"  BY <1>4, Zenon DEF HandleResponse, SchedInv, NewIsQuiet
  <2>2. \A s \in Threads : s # "worker" => arg'[s] = arg[s]
    BY <1>4, Zenon DEF HandleResponse, CallFinish, Typed, ArgOK
  <2> QED BY <1>2, <1>4, <2>1, <2>2, Zenon DEF HandleResponse, CallFinish, schedVars, tpmVars
<1> QED BY <1>1, <1>3, <1>4, Zenon

\* The worker picks the queued task: the one in the handle, or about to be.
LEMMA PickSched ==
  ASSUME Typed, SchedInv, NEW a \in Tasks, UploadAsync_Pick(a)
  PROVE  SchedInv'
<1>u. "user" \in Threads /\ "worker" \in Threads /\ "user" # "worker"  BY Zenon DEF Threads
<1>1. pc["worker"] = "idle" /\ pc'["worker"] = "picked" /\ pc'["user"] = pc["user"]
  BY <1>u, GotoWhere, Zenon DEF UploadAsync_Pick
<1>2. UNCHANGED <<m_isUploadScheduled, m_scheduledUpload, m_isPaused, m_scheduledUploadAborted, system, arg>>
  BY Zenon DEF UploadAsync_Pick, tpmVars
<1>3. a \in queued /\ queued' = queued \ {a} /\ m_itemInProgress' = a  BY Zenon DEF UploadAsync_Pick
<1>4. /\ queued = {a}
      /\ a = IF pc["user"] = "su_handle" THEN arg["user"].task ELSE m_scheduledUpload
  BY <1>1, <1>3, <1>u, Zenon DEF SchedInv, HandleKnowsTask, Threads
<1>5. a # NoTask  BY ConstantsOK, Zenon DEF ConstantsOK
<1>6. system # "new"  BY <1>3, Zenon DEF SchedInv, NewIsQuiet
<1>7. NewIsQuiet'  BY <1>2, <1>6, Zenon DEF NewIsQuiet
<1>8. UserPhase'  BY <1>1, <1>2, Zenon DEF SchedInv, UserPhase
<1>9. HandleKnowsTask' /\ PickedKnown'
  BY <1>1, <1>2, <1>3, <1>4, <1>5, Zenon DEF HandleKnowsTask, PickedKnown
<1>10. FlagAgrees'
  <2>1. Busy  BY <1>3, Zenon DEF Busy
  <2> QED BY <1>1, <1>2, <1>u, <2>1, Zenon DEF SchedInv, FlagAgrees, Scheduling, Threads
<1>11. AbortedQuiet'
  BY <1>1, <1>2, <1>3, <1>u, Zenon DEF SchedInv, AbortedQuiet, Locked, Scheduling, Threads
<1> QED BY <1>7, <1>8, <1>9, <1>10, <1>11, Zenon DEF SchedInv

\* A task that was dropped is skipped; the others go for the mutex.
LEMMA StartTaskSched ==
  ASSUME Typed, SchedInv, UploadAsync_Start
  PROVE  SchedInv'
<1>u. "user" \in Threads /\ "worker" \in Threads /\ "user" # "worker"  BY Zenon DEF Threads
<1>1. pc["worker"] = "picked"  BY Zenon DEF UploadAsync_Start
<1>2. UNCHANGED <<queued, m_isUploadScheduled, m_scheduledUpload, m_isPaused, m_scheduledUploadAborted,
                  m_itemInProgress, system, arg>>
  BY Zenon DEF UploadAsync_Start, taskVars
<1>3. system # "new"  BY <1>1, <1>u, Running, Zenon
<1>4. CASE Goto("worker", "idle")
  <2>1. "idle" \notin Sensitive  BY Zenon DEF Sensitive, Locked, Scheduling, Picked, Halting, Pausing
  <2> QED BY <1>1, <1>2, <1>3, <1>4, <1>u, <2>1, QuietSched, Zenon DEF schedVars
<1>5. CASE Goto("worker", "ua_lock")
  <2>1. pc'["worker"] = "ua_lock" /\ pc'["user"] = pc["user"]  BY <1>5, <1>u, GotoWhere, Zenon
  <2>2. NewIsQuiet'  BY <1>2, <1>3, Zenon DEF NewIsQuiet
  <2>3. UserPhase'  BY <1>2, <2>1, Zenon DEF SchedInv, UserPhase
  <2>4. HandleKnowsTask'
    BY <1>1, <1>2, <1>u, <2>1, Zenon DEF SchedInv, HandleKnowsTask, Threads
  <2>5. PickedKnown'  BY <1>1, <1>2, <2>1, Zenon DEF SchedInv, PickedKnown, Picked
  <2>6. FlagAgrees'
    <3>1. Busy  BY <1>1, Zenon DEF Busy, Picked
    <3> QED BY <1>2, <1>u, <2>1, <3>1, Zenon DEF SchedInv, FlagAgrees, Scheduling, Threads
  <2>7. AbortedQuiet'
    BY <1>2, <1>u, <2>1, Zenon DEF SchedInv, AbortedQuiet, Locked, Scheduling, Threads
  <2> QED BY <2>2, <2>3, <2>4, <2>5, <2>6, <2>7, Zenon DEF SchedInv
<1> QED BY <1>4, <1>5, Zenon DEF UploadAsync_Start

\* The task resets the flag when nobody schedules and no other task is queued.
LEMMA LockTaskSched ==
  ASSUME Typed, MutexHeld, SchedInv, UploadAsync_Lock
  PROVE  SchedInv'
<1>u. "user" \in Threads /\ "worker" \in Threads /\ "user" # "worker"  BY Zenon DEF Threads
<1>1. pc["worker"] = "ua_lock" /\ mutex = "none"  BY Zenon DEF UploadAsync_Lock
<1>2. UNCHANGED <<queued, m_scheduledUpload, m_isPaused, m_scheduledUploadAborted,
                  m_itemInProgress, system, arg>>
  BY Zenon DEF UploadAsync_Lock, taskVars
<1>3. queued = {} /\ system # "new"
  BY <1>1, <1>u, Running, Zenon DEF SchedInv, PickedKnown, Picked
<1>4. \A s \in Threads : pc[s] \notin MutexLabels  BY <1>1, Zenon DEF MutexHeld, Threads
<1>5. /\ pc'["user"] = pc["user"]
      /\ pc'["worker"] = "ua_add" \/ (pc'["worker"] = "ua_cancel" /\ m_isPaused)
  <2>1. m_scheduledUploadAborted => m_isPaused  BY Zenon DEF SchedInv, UserPhase
  <2> QED BY <1>u, <2>1, GotoWhere, Zenon DEF UploadAsync_Lock
<1>6. ~Busy' /\ pc'["worker"] \notin Picked  BY <1>2, <1>3, <1>5, Zenon DEF Busy, Picked
<1>7. NewIsQuiet'  BY <1>2, <1>3, Zenon DEF NewIsQuiet
<1>8. UserPhase'  BY <1>2, <1>5, Zenon DEF SchedInv, UserPhase
<1>9. HandleKnowsTask' /\ PickedKnown'  BY <1>2, <1>3, <1>6, Zenon DEF HandleKnowsTask, PickedKnown
<1>10. \A s \in Threads : pc'[s] \notin Locked
  BY <1>4, <1>5, Zenon DEF Threads, MutexLabels, Locked, Scheduling
<1>11. FlagAgrees'  BY <1>6, <1>10, Zenon DEF FlagAgrees, Locked, Scheduling
<1>12. AbortedQuiet'  BY <1>2, <1>5, <1>10, Zenon DEF SchedInv, AbortedQuiet
<1> QED BY <1>7, <1>8, <1>9, <1>11, <1>12, Zenon DEF SchedInv

\* A paused task cancels whatever is queued, under the mutex.
LEMMA CancelTaskSched ==
  ASSUME Typed, MutexHeld, SchedInv, CancelUploadTask("worker", "ua_cancel", "ua_clear", "ua_return")
  PROVE  SchedInv'
<1>u. "user" \in Threads /\ "worker" \in Threads /\ "user" # "worker"  BY Zenon DEF Threads
<1>1. /\ pc["worker"] \in {"ua_cancel", "ua_clear"}
      /\ \E l \in {"ua_clear", "ua_return"} : Goto("worker", l)
  BY Zenon DEF CancelUploadTask
<1>2. pc'["user"] = pc["user"] /\ pc'["worker"] \in {"ua_clear", "ua_return"}
  BY <1>1, <1>u, GotoWhere, Zenon
<1>3. UNCHANGED <<m_scheduledUpload, m_isPaused, m_scheduledUploadAborted, m_itemInProgress, system, arg>>
  BY Zenon DEF CancelUploadTask, tpmVars, taskVars
<1>4. queued' \subseteq queued  BY Zenon DEF CancelUploadTask, EraseScheduled, taskVars
<1>5. m_isUploadScheduled' = m_isUploadScheduled \/ m_isUploadScheduled' = FALSE
  BY Zenon DEF CancelUploadTask, tpmVars
<1>6. m_isPaused /\ system # "new"  BY <1>1, <1>u, Running, Zenon DEF SchedInv, UserPhase
<1>7. pc["user"] \notin MutexLabels  BY <1>1, <1>u, OnlyOne, Zenon DEF MutexLabels
<1>8. \A s \in Threads : pc'[s] \notin Locked
  BY <1>2, <1>7, Zenon DEF Threads, MutexLabels, Locked, Scheduling
<1>9. NewIsQuiet'  BY <1>3, <1>6, Zenon DEF NewIsQuiet
<1>10. UserPhase'  BY <1>2, <1>3, <1>6, Zenon DEF SchedInv, UserPhase
<1>11. HandleKnowsTask'
  <2>1. queued \subseteq {m_scheduledUpload}
    BY <1>1, <1>7, Zenon DEF SchedInv, HandleKnowsTask, Threads, MutexLabels, Locked
  <2> QED BY <1>3, <1>4, <1>8, <2>1, Zenon DEF HandleKnowsTask, Locked
<1>12. PickedKnown'  BY <1>2, Zenon DEF PickedKnown, Picked
<1>13. FlagAgrees'  BY <1>3, <1>6, <1>8, <1>u, Zenon DEF FlagAgrees, Locked, Scheduling
<1>14. AbortedQuiet'  BY <1>2, <1>3, <1>4, <1>8, Zenon DEF SchedInv, AbortedQuiet
<1> QED BY <1>9, <1>10, <1>11, <1>12, <1>13, <1>14, Zenon DEF SchedInv

\* Every step of uploadAsync.
LEMMA UploadAsyncSched ==
  ASSUME Typed, MutexHeld, SchedInv, UploadAsync
  PROVE  SchedInv'
<1>w. "worker" \in Threads  BY Zenon DEF Threads
<1>1. CASE UploadAsync_Return \/ UploadAsync_Add
  <2>1. pc["worker"] \in {"ua_return", "ua_add"}  BY <1>1, Zenon DEF UploadAsync_Return, UploadAsync_Add
  <2>2. UNCHANGED <<schedVars, system>>
    BY <1>1, Zenon DEF UploadAsync_Return, UploadAsync_Add, schedVars, taskVars
  <2>3. /\ \E l : l \notin Sensitive /\ Goto("worker", l)
        /\ \A s \in Threads : s # "worker" => arg'[s] = arg[s]
    <3>1. CASE UploadAsync_Return
      BY <1>w, <3>1, ReturnQuiet, Zenon DEF UploadAsync_Return, ReleaseAndReturn
    <3>2. CASE UploadAsync_Add
      <4>1. "retrieve" \notin Sensitive
        BY Zenon DEF Sensitive, Locked, Scheduling, Picked, Halting, Pausing
      <4>2. Goto("worker", "retrieve") /\ \A s \in Threads : s # "worker" => arg'[s] = arg[s]
        BY <3>2, Zenon DEF UploadAsync_Add, AddUpload, Typed, ArgOK
      <4> QED BY <4>1, <4>2, Zenon
    <3> QED BY <1>1, <3>1, <3>2, Zenon
  <2>4. system # "new"  BY <1>w, <2>1, Running, Zenon
  <2> QED BY <1>w, <2>1, <2>2, <2>3, <2>4, QuietSched, Zenon
<1> QED BY <1>1, PickSched, StartTaskSched, LockTaskSched, CancelTaskSched, Zenon DEF UploadAsync

\* Start, the only time without pauses, and UploadNow.
LEMMA StartSched ==
  ASSUME Typed, SchedInv, Start \/ UploadNow
  PROVE  SchedInv'
<1>u. "user" \in Threads /\ "worker" \in Threads /\ "user" # "worker"  BY Zenon DEF Threads
<1>1. CASE Start
  <2>1. /\ system = "new" /\ system' = "started" /\ m_isPaused' = FALSE
        /\ UNCHANGED <<queued, m_scheduledUploadAborted>>
    BY <1>1, Zenon DEF Start, SchedInv, UserPhase, taskVars
  <2>2. pc'["user"] = "priority" /\ pc'["worker"] = "idle"
    BY <1>1, <1>u, <2>1, GotoWhere, Zenon DEF Start, SchedInv, NewIsQuiet
  <2>3. queued' = {} /\ ~m_scheduledUploadAborted'  BY <2>1, Zenon DEF SchedInv, NewIsQuiet
  <2>4. NewIsQuiet' /\ HandleKnowsTask' /\ PickedKnown'
    BY <2>1, <2>2, <2>3, Zenon DEF NewIsQuiet, HandleKnowsTask, PickedKnown, Picked, Threads
  <2>5. UserPhase'  BY <2>1, <2>2, <2>3, Zenon DEF UserPhase, Pausing, Halting
  <2>6. ~Busy'  BY <2>2, <2>3, Zenon DEF Busy, Picked
  <2>7. FlagAgrees' /\ AbortedQuiet'
    BY <2>1, <2>2, <2>3, <2>6, Zenon DEF FlagAgrees, AbortedQuiet, Threads
  <2> QED BY <2>4, <2>5, <2>7, Zenon DEF SchedInv
<1>2. CASE UploadNow
  <2>1. /\ pc["user"] = "idle" /\ system = "started"
        /\ Goto("user", "su_lock") /\ UNCHANGED <<schedVars, m_itemInProgress, system>>
    BY <1>2, Zenon DEF UploadNow, CallSchedule, tpmVars, taskVars, schedVars, SchedInv, UserPhase
  <2>2. \A s \in Threads : s # "user" => arg'[s] = arg[s]
    BY <1>2, Zenon DEF UploadNow, CallSchedule, Typed, ArgOK
  <2>3. ~m_isPaused  BY <2>1, Zenon DEF SchedInv, UserPhase, Halting
  <2>4. "su_lock" \notin Sensitive
    BY Zenon DEF Sensitive, Locked, Scheduling, Picked, Halting, Pausing
  <2> QED BY <1>u, <2>1, <2>2, <2>3, <2>4, QuietSched, Zenon
<1> QED BY <1>1, <1>2, Zenon

\* The stop goes on to a point where nothing is claimed, and leaves the queue and the flag alone.
LEMMA HaltSched ==
  ASSUME Typed, SchedInv, pc["user"] \in Halting \cup {"st_drain"},
         NEW l \in {"sp_cancel", "sp_http", "sp_wait", "fa_http", "fa_wait", "fa_cancel", "st_lock"},
         Goto("user", l), m_isPaused' = TRUE,
         UNCHANGED <<queued, m_isUploadScheduled, m_scheduledUpload, m_scheduledUploadAborted,
                     m_itemInProgress, system, arg>>
  PROVE  SchedInv'
<1>u. "user" \in Threads /\ "worker" \in Threads /\ "user" # "worker"  BY Zenon DEF Threads
<1>1. pc'["user"] = l /\ pc'["worker"] = pc["worker"]  BY <1>u, GotoWhere, Zenon
<1>2. system # "new"  BY <1>u, Running, Zenon DEF Halting
<1>3. l \notin Locked /\ l \in Halting /\ l \notin Pausing  BY Zenon DEF Locked, Scheduling, Halting, Pausing
<1>4. pc["user"] \notin Locked  BY Zenon DEF Locked, Scheduling, Halting
<1>5. NewIsQuiet'  BY <1>2, Zenon DEF NewIsQuiet
<1>6. UserPhase'  BY <1>1, <1>3, Zenon DEF SchedInv, UserPhase
<1>7. HandleKnowsTask'
  BY <1>1, <1>3, <1>4, <1>u, Zenon DEF SchedInv, HandleKnowsTask, Threads, Locked
<1>8. PickedKnown'  BY <1>1, <1>3, <1>4, Zenon DEF SchedInv, PickedKnown, Locked
<1>9. Busy' = Busy  BY <1>1, Zenon DEF Busy
<1>10. FlagAgrees'
  BY <1>1, <1>3, <1>9, <1>u, Zenon DEF SchedInv, FlagAgrees, Threads, Locked, Scheduling
<1>11. AbortedQuiet'
  BY <1>1, <1>3, <1>u, Zenon DEF SchedInv, AbortedQuiet, Threads
<1> QED BY <1>5, <1>6, <1>7, <1>8, <1>10, <1>11, Zenon DEF SchedInv

\* The stop's cancellations without the mutex: while somebody schedules, the handle is up to date.
LEMMA StopCancelSched ==
  ASSUME Typed, TasksApart, MutexHeld, SchedInv,
         NEW cancel, NEW clear, NEW next,
         \/ cancel = "sp_cancel" /\ clear = "sp_clear" /\ next = "sp_http"
         \/ cancel = "fa_cancel" /\ clear = "fa_clear" /\ next = "st_lock",
         CancelUploadTask("user", cancel, clear, next)
  PROVE  SchedInv'
<1>u. "user" \in Threads /\ "worker" \in Threads /\ "user" # "worker"  BY Zenon DEF Threads
<1>a. pc["user"] \in {cancel, clear} /\ {cancel, clear, next} \subseteq Halting
  BY Zenon DEF CancelUploadTask, Halting
<1>b. m_isPaused /\ m_isPaused' = TRUE /\ system # "new"
  <2>1. m_isPaused /\ system # "new"  BY <1>a, <1>u, Running, Zenon DEF SchedInv, UserPhase, Halting
  <2>2. m_isPaused' = m_isPaused  BY Zenon DEF CancelUploadTask, tpmVars
  <2> QED BY <2>1, <2>2, Zenon DEF Typed, FlatOK
<1>c. UNCHANGED <<m_scheduledUpload, m_scheduledUploadAborted, m_itemInProgress, system, arg>>
  BY Zenon DEF CancelUploadTask, tpmVars, taskVars
<1>d. cancel \notin MutexLabels /\ clear \notin MutexLabels /\ next \notin MutexLabels
  BY Zenon DEF MutexLabels, Locked, Scheduling
<1>e. {cancel, clear, next} \cap (Pausing \cup {"st_cancel", "st_wait", "st_clear", "st_spin"}) = {}
  BY Zenon DEF Pausing
<1>1. CASE EraseScheduled /\ CancelFails("user") /\ Goto("user", next) /\ UNCHANGED m_isUploadScheduled
  <2>1. queued' = queued  BY <1>1, Zenon DEF CancelFails, EraseScheduled, TasksApart
  <2> QED BY <1>1, <1>a, <1>b, <1>c, <2>1, HaltSched, Zenon
<1>2. CASE EraseScheduled /\ Goto("user", clear) /\ UNCHANGED m_isUploadScheduled
  <2>1. pc'["user"] = clear /\ pc'["worker"] = pc["worker"]  BY <1>2, <1>u, GotoWhere, Zenon
  <2>2. queued' = queued \ {m_scheduledUpload}  BY <1>2, Zenon DEF EraseScheduled
  <2>3. NewIsQuiet'  BY <1>b, <1>c, Zenon DEF NewIsQuiet
  <2>4. UserPhase'  BY <1>a, <1>b, <1>c, <1>e, <2>1, Zenon DEF SchedInv, UserPhase
  <2>5. pc["user"] \notin Locked /\ clear \notin Locked  BY <1>a, <1>d, Zenon DEF MutexLabels
  <2>6. HandleKnowsTask'
    BY <1>c, <1>u, <2>1, <2>2, <2>5, Zenon DEF SchedInv, HandleKnowsTask, Threads, Locked
  <2>7. PickedKnown'  BY <1>b, <2>1, <2>2, Zenon DEF SchedInv, PickedKnown
  <2>8. Busy' => Busy  BY <2>1, <2>2, Zenon DEF Busy
  <2>9. Busy' => pc["worker"] \notin Scheduling
    <3> SUFFICES ASSUME pc["worker"] \in Scheduling PROVE ~Busy'
      BY Zenon
    <3>1. pc["worker"] # "su_handle" /\ pc["worker"] \notin Picked  BY Zenon DEF Scheduling, Picked
    <3>2. queued' = {}
      BY <2>2, <2>5, <3>1, Zenon DEF SchedInv, HandleKnowsTask, Threads, Locked
    <3> QED BY <2>1, <3>1, <3>2, Zenon DEF Busy
  <2>10. FlagAgrees'
    BY <1>2, <1>b, <1>u, <2>1, <2>5, <2>8, <2>9, Zenon
       DEF SchedInv, FlagAgrees, Threads, Locked, Scheduling
  <2>11. AbortedQuiet'
    BY <1>c, <1>e, <1>u, <2>1, <2>2, <2>5, Zenon DEF SchedInv, AbortedQuiet, Threads
  <2> QED BY <2>3, <2>4, <2>6, <2>7, <2>10, <2>11, Zenon DEF SchedInv
<1>3. CASE pc["user"] = clear /\ m_isUploadScheduled' = FALSE /\ Goto("user", next) /\ UNCHANGED queued
  <2>1. pc'["user"] = next /\ pc'["worker"] = pc["worker"]  BY <1>3, <1>u, GotoWhere, Zenon
  <2>2. NewIsQuiet'  BY <1>b, <1>c, Zenon DEF NewIsQuiet
  <2>3. UserPhase'  BY <1>a, <1>b, <1>c, <1>e, <2>1, Zenon DEF SchedInv, UserPhase
  <2>4. pc["user"] \notin Locked /\ next \notin Locked  BY <1>a, <1>d, Zenon DEF MutexLabels
  <2>5. HandleKnowsTask'
    BY <1>3, <1>c, <1>u, <2>1, <2>4, Zenon DEF SchedInv, HandleKnowsTask, Threads, Locked
  <2>6. PickedKnown'  BY <1>3, <1>b, <2>1, Zenon DEF SchedInv, PickedKnown
  <2>7. Busy' = Busy  BY <1>3, <2>1, Zenon DEF Busy
  <2>8. Busy => pc["worker"] \notin Scheduling
    BY <1>3, Zenon DEF SchedInv, FlagAgrees
  <2>9. FlagAgrees'
    BY <1>b, <1>u, <2>1, <2>4, <2>7, <2>8, Zenon DEF SchedInv, FlagAgrees, Threads, Locked, Scheduling
  <2>10. AbortedQuiet'
    BY <1>3, <1>c, <1>e, <1>u, <2>1, <2>4, Zenon DEF SchedInv, AbortedQuiet, Threads
  <2> QED BY <2>2, <2>3, <2>5, <2>6, <2>9, <2>10, Zenon DEF SchedInv
<1> QED BY <1>1, <1>2, <1>3, Zenon DEF CancelUploadTask, tpmVars, taskVars

\* Once handleStop has aborted, nobody schedules any more; what it cancels is gone.
LEMMA HandleStopSched ==
  ASSUME Typed, SchedInv, pc["user"] \in {"st_lock", "st_cancel", "st_wait", "st_clear", "st_spin"},
         \A t \in Threads : pc[t] \notin Locked,
         NEW l \in {"st_cancel", "st_wait", "st_clear", "st_spin", "idle"}, Goto("user", l),
         UNCHANGED <<m_isPaused, m_scheduledUpload>>, m_scheduledUploadAborted' = TRUE,
         queued' \subseteq queued, l # "st_cancel" => queued' = {},
         system' = IF l = "idle" THEN "stopped" ELSE system
  PROVE  SchedInv'
<1>u. "user" \in Threads /\ "worker" \in Threads /\ "user" # "worker"  BY Zenon DEF Threads
<1>1. pc'["user"] = l /\ pc'["worker"] = pc["worker"]  BY <1>u, GotoWhere, Zenon
<1>2. system # "new" /\ m_isPaused  BY <1>u, Running, Zenon DEF SchedInv, UserPhase, Halting
<1>3. \A t \in Threads : pc'[t] \notin Locked  BY <1>1, <1>u, Zenon DEF Threads, Locked, Scheduling
<1>4. NewIsQuiet'  BY <1>2, Zenon DEF NewIsQuiet
<1>5. UserPhase'
  <2>1. l \notin Pausing  BY Zenon DEF Pausing
  <2>2. l \in Halting \/ l = "idle"  BY Zenon DEF Halting
  <2>3. system' # "paused"  BY Zenon DEF SchedInv, UserPhase
  <2> QED BY <1>1, <1>2, <2>1, <2>2, <2>3, Zenon DEF UserPhase
<1>6. HandleKnowsTask'
  <2>1. queued \subseteq {m_scheduledUpload}  BY Zenon DEF SchedInv, HandleKnowsTask, Locked
  <2> QED BY <1>3, <2>1, Zenon DEF HandleKnowsTask, Locked
<1>7. PickedKnown'  BY <1>1, <1>2, Zenon DEF SchedInv, PickedKnown
<1>8. FlagAgrees'  BY <1>2, <1>3, <1>u, Zenon DEF FlagAgrees, Locked, Scheduling
<1>9. AbortedQuiet'
  <2>1. system' = "stopped" => queued' = {}
    <3>1. CASE l = "idle"  BY <3>1, Zenon
    <3>2. CASE l # "idle"
      <4>1. system' = system  BY <3>2, Zenon
      <4>2. system = "stopped" => queued = {}  BY Zenon DEF SchedInv, AbortedQuiet
      <4> QED BY <4>1, <4>2, Zenon
    <3> QED BY <3>1, <3>2, Zenon
  <2> QED BY <1>1, <1>3, <2>1, Zenon DEF AbortedQuiet
<1> QED BY <1>4, <1>5, <1>6, <1>7, <1>8, <1>9, Zenon DEF SchedInv

\* Every step of onStop.
LEMMA StopSched ==
  ASSUME Typed, TasksApart, MutexHeld, SchedInv, Stop
  PROVE  SchedInv'
<1>u. "user" \in Threads /\ "worker" \in Threads /\ "user" # "worker"  BY Zenon DEF Threads
<1>1. CASE Stop_Begin
  <2>1. /\ pc["user"] = "idle" /\ system = "started" /\ system' = "stopping"
        /\ \E l \in {"su_lock", "st_drain"} : Goto("user", l)
        /\ UNCHANGED <<schedVars, m_itemInProgress>>
    BY <1>1, Zenon DEF Stop_Begin, tpmVars, taskVars, schedVars, SchedInv, UserPhase
  <2>2. \A s \in Threads : s # "user" => arg'[s] = arg[s]
    BY <1>1, Zenon DEF Stop_Begin, Typed, ArgOK
  <2>3. ~m_isPaused  BY <2>1, Zenon DEF SchedInv, UserPhase, Halting
  <2>4. "su_lock" \notin Sensitive /\ "st_drain" \notin Sensitive
    BY Zenon DEF Sensitive, Locked, Scheduling, Picked, Halting, Pausing
  <2> QED BY <1>u, <2>1, <2>2, <2>3, <2>4, QuietSched, Zenon
<1>2. CASE Stop_Pause
  BY <1>2, HaltSched, Zenon DEF Stop_Pause, PauseAllUploads, taskVars
<1>3. CASE CancelAllRequests("sp_http", "sp_wait", "fa_http") \/ CancelAllRequests("fa_http", "fa_wait", "fa_cancel")
  <2>1. /\ pc["user"] \in {"sp_http", "sp_wait", "fa_http", "fa_wait"}
        /\ \E l \in {"sp_wait", "fa_http", "fa_wait", "fa_cancel"} : Goto("user", l)
        /\ UNCHANGED <<queued, m_isUploadScheduled, m_scheduledUpload, m_isPaused, m_scheduledUploadAborted,
                       m_itemInProgress, system, arg>>
    BY <1>3, Zenon DEF CancelAllRequests, tpmVars, taskVars
  <2>2. m_isPaused' = TRUE  BY <2>1, Zenon DEF SchedInv, UserPhase, Halting, Typed, FlatOK
  <2> QED BY <2>1, <2>2, HaltSched, Zenon DEF Halting
<1>4. CASE \/ CancelUploadTask("user", "sp_cancel", "sp_clear", "sp_http")
           \/ CancelUploadTask("user", "fa_cancel", "fa_clear", "st_lock")
  BY <1>4, StopCancelSched, Zenon
<1>5. CASE Stop_Abort
  <2>1. \A t \in Threads : pc[t] \notin Locked
    BY <1>5, Zenon DEF Stop_Abort, MutexHeld, MutexLabels, Threads
  <2> QED BY <1>5, <2>1, HandleStopSched, Zenon DEF Stop_Abort, taskVars
<1>6. CASE Stop_Cancel \/ Stop_Wait \/ Stop_WaitTimedOut \/ Stop_Clear \/ Stop_Spin
  <2>1. /\ pc["user"] \in {"st_cancel", "st_wait", "st_clear", "st_spin"}
        /\ UNCHANGED <<m_isPaused, m_scheduledUpload, m_scheduledUploadAborted>>
    BY <1>6, Zenon DEF Stop_Cancel, Stop_Wait, Stop_WaitTimedOut, Stop_Clear, Stop_Spin, tpmVars
  <2>2. m_scheduledUploadAborted' = TRUE /\ \A t \in Threads : pc[t] \notin Locked
    BY <2>1, Zenon DEF SchedInv, AbortedQuiet, Typed, FlatOK
  <2>3. PICK l \in {"st_wait", "st_clear", "st_spin", "idle"} :
          Goto("user", l) /\ system' = IF l = "idle" THEN "stopped" ELSE system
    BY <1>6, Zenon DEF Stop_Cancel, Stop_Wait, Stop_WaitTimedOut, Stop_Clear, Stop_Spin
  <2>4. queued' = {}
    <3>1. CASE Stop_Cancel
      <4>1. queued \subseteq {m_scheduledUpload}  BY <2>2, Zenon DEF SchedInv, HandleKnowsTask, Locked
      <4>2. CASE CancelFails("user")
        BY <3>1, <4>1, <4>2, Zenon DEF Stop_Cancel, CancelFails, TasksApart
      <4>3. CASE EraseScheduled  BY <4>1, <4>3, Zenon DEF EraseScheduled
      <4> QED BY <3>1, <4>2, <4>3, Zenon DEF Stop_Cancel
    <3>2. CASE Stop_Wait \/ Stop_WaitTimedOut \/ Stop_Clear \/ Stop_Spin
      <4>1. UNCHANGED queued /\ pc["user"] \in {"st_wait", "st_clear", "st_spin"}
        BY <3>2, Zenon DEF Stop_Wait, Stop_WaitTimedOut, Stop_Clear, Stop_Spin, taskVars
      <4> QED BY <4>1, Zenon DEF SchedInv, AbortedQuiet
    <3> QED BY <1>6, <3>1, <3>2, Zenon
  <2> QED BY <2>1, <2>2, <2>3, <2>4, HandleStopSched, Zenon
<1> QED BY <1>1, <1>2, <1>3, <1>4, <1>5, <1>6, Zenon DEF Stop, Stop_FinishAllUploads

\* Without pauses and cleanups every step keeps flag, handle and queue in agreement.
LEMMA SchedInvStep ==
  ASSUME NoPauses, Typed, TasksApart, MutexHeld, SchedInv, [Next]_vars
  PROVE  SchedInv'
<1>1. ASSUME UNCHANGED <<schedVars, m_itemInProgress, system, pc, arg>>,
             \A c \in Uploads : uploads[c].st = "free" => uploads'[c].st = "free"
      PROVE  SchedInv'
  BY <1>1, Zenon DEF schedVars, SchedInv, NewIsQuiet, UserPhase, HandleKnowsTask, PickedKnown, FlagAgrees,
     AbortedQuiet, Busy
<1>2. CASE UNCHANGED vars  BY <1>1, <1>2, Zenon DEF vars, schedVars, tpmVars, taskVars
<1>3. ASSUME NEW p \in Profiles, SetProfile(p) PROVE SchedInv'
  BY <1>1, <1>3, Zenon DEF SetProfile, schedVars, tpmVars, taskVars
<1>4. ASSUME NEW c \in Uploads, OnHttpResponse(c) PROVE SchedInv'
  <2>1. \A u \in Uploads : uploads[u].st = "free" => uploads'[u] = uploads[u]
    BY <1>4, Zenon DEF OnHttpResponse, AwaitsResponse, Typed, UploadsOK
  <2> QED BY <1>1, <1>4, <2>1, Zenon DEF OnHttpResponse, schedVars, tpmVars, taskVars
<1>5. ~PauseTransmission /\ ~DeleteData
  <2>1. pc["user"] \notin Pausing  BY Zenon DEF SchedInv, UserPhase
  <2> QED BY <2>1, Zenon DEF NoPauses, PauseTransmission, DeleteData, CancelUploadTask, CancelAllRequests, Pausing
<1>6. CASE Next
  BY <1>2, <1>3, <1>4, <1>5, <1>6, ScheduleUploadSched, UploadSched, EventSched, UploadAsyncSched,
     StartSched, StopSched, Zenon
     DEF Next, ThreadStep, Terminated
<1> QED BY <1>2, <1>6, Zenon

-----------------------------------------------------------------------------
(* What a step may do to tasks, latencies and upload contexts. *)

\* The points that carry a task or a latency towards an upload.
Watched == Locked \cup Picked \cup {"ua_add", "ev_upload"}

\* No thread gets to such a point, and no task or latency is created.
Calm ==
    /\ queued' \subseteq queued
    /\ UNCHANGED <<taskLatency, m_runningLatency>>
    /\ \A s \in Threads : pc'[s] \in Watched => pc'[s] = pc[s] /\ arg'[s] = arg[s]
    /\ pc'["worker"] \in Picked => m_itemInProgress' \in {m_itemInProgress, NoTask}

\* A step of thread t to any other point.
LEMMA CalmGoto ==
  ASSUME Typed, NEW t \in Threads, NEW l, l \notin Watched, Goto(t, l),
         \A s \in Threads : s # t => arg'[s] = arg[s],
         queued' \subseteq queued, UNCHANGED <<taskLatency, m_runningLatency>>,
         t = "user" => m_itemInProgress' \in {m_itemInProgress, NoTask}
  PROVE  Calm
<1>1. pc'[t] = l /\ \A s \in Threads : s # t => pc'[s] = pc[s]  BY GotoWhere, Zenon
<1>2. pc'["worker"] \in Picked => t = "user"  BY <1>1, Zenon DEF Watched, Threads
<1> QED BY <1>1, <1>2, Zenon DEF Calm

\* A return leads to no such point.
LEMMA ReturnCalm ==
  ASSUME Typed, NEW t \in Threads, Return(t)
  PROVE  /\ \E l : l \notin Watched /\ Goto(t, l)
         /\ \A s \in Threads : s # t => arg'[s] = arg[s]
<1>1. \A s \in Threads : s # t => arg'[s] = arg[s]  BY Zenon DEF Return, Typed, ArgOK
<1>2. arg[t].cont \in {"idle", "st_drain", "w_end"}  BY Zenon DEF Typed, ArgOK, Arguments
<1>3. arg[t].cont \notin Watched  BY <1>2, Zenon DEF Watched, Locked, Scheduling, Picked
<1> QED BY <1>1, <1>3, Zenon DEF Return, Goto

\* Uploads, and events once their latency has been looked at.
LEMMA UploadCalm ==
  ASSUME Typed, NEW t \in Threads,
         Upload(t) \/ HandleEventArrived_Upload(t) \/ HandleEventArrived_Schedule(t)
  PROVE  Calm
<1>1. UNCHANGED <<queued, taskLatency, m_itemInProgress, m_runningLatency>>
  <2>1. CASE Upload(t)
    BY <2>1, Zenon DEF Upload, HandleNothingToUpload, HandlePackagingFailed, HandleSendRequest, FinishUpload,
       CalculateNewPriority, tpmVars, taskVars
  <2>2. CASE HandleEventArrived_Upload(t) \/ HandleEventArrived_Schedule(t)
    BY <2>2, Zenon DEF HandleEventArrived_Upload, HandleEventArrived_Schedule, taskVars
  <2> QED BY <2>1, <2>2, Zenon
<1>2. \/ Return(t)
      \/ /\ \E l \in {"finish", "priority", "su_lock", "retrieve"} : Goto(t, l)
         /\ \A s \in Threads : s # t => arg'[s] = arg[s]
  <2>1. CASE Upload(t)
    BY <2>1, Zenon DEF Upload, HandleNothingToUpload, HandlePackagingFailed, HandleSendRequest, FinishUpload,
       CalculateNewPriority, CallFinish, CallSchedule, Typed, ArgOK
  <2>2. CASE HandleEventArrived_Upload(t) \/ HandleEventArrived_Schedule(t)
    BY <2>2, Zenon DEF HandleEventArrived_Upload, HandleEventArrived_Schedule, AddUpload, CallSchedule,
       Typed, ArgOK
  <2> QED BY <2>1, <2>2, Zenon
<1>3. /\ \E l : l \notin Watched /\ Goto(t, l)
      /\ \A s \in Threads : s # t => arg'[s] = arg[s]
  BY <1>2, ReturnCalm, Zenon DEF Watched, Locked, Scheduling, Picked
<1> QED BY <1>1, <1>3, CalmGoto, Zenon

\* cancelUploadTask only takes tasks away.
LEMMA CancelUploadTaskCalm ==
  ASSUME Typed, NEW t \in Threads, NEW cancel, NEW clear, NEW next,
         clear \notin Watched, next \notin Watched, CancelUploadTask(t, cancel, clear, next)
  PROVE  Calm
<1>1. /\ \E l \in {clear, next} : Goto(t, l)
      /\ UNCHANGED <<taskLatency, m_runningLatency, m_itemInProgress, arg>>
      /\ queued' \subseteq queued
  BY Zenon DEF CancelUploadTask, EraseScheduled, tpmVars, taskVars
<1> QED BY <1>1, CalmGoto, Zenon

\* Responses and the ends of tasks.
LEMMA WorkerCalm ==
  ASSUME Typed,
         \/ UploadAsync_Return \/ UploadAsync_Add \/ EndOfTask
         \/ CancelUploadTask("worker", "ua_cancel", "ua_clear", "ua_return")
         \/ \E c \in Uploads : HandleResponse(c)
  PROVE  Calm
<1>w. "worker" \in Threads /\ "worker" # "user"  BY Zenon DEF Threads
<1>1. CASE UploadAsync_Return
  BY <1>1, <1>w, ReturnCalm, CalmGoto, Zenon DEF UploadAsync_Return, ReleaseAndReturn, taskVars
<1>2. CASE UploadAsync_Add
  <2>1. Goto("worker", "retrieve") /\ \A s \in Threads : s # "worker" => arg'[s] = arg[s]
    BY <1>2, Zenon DEF UploadAsync_Add, AddUpload, Typed, ArgOK
  <2>2. "retrieve" \notin Watched  BY Zenon DEF Watched, Locked, Scheduling, Picked
  <2> QED BY <1>2, <1>w, <2>1, <2>2, CalmGoto, Zenon DEF UploadAsync_Add, taskVars
<1>3. CASE EndOfTask
  <2>1. "idle" \notin Watched  BY Zenon DEF Watched, Locked, Scheduling, Picked
  <2> QED BY <1>3, <1>w, <2>1, CalmGoto, Zenon DEF EndOfTask, tpmVars
<1>4. CASE CancelUploadTask("worker", "ua_cancel", "ua_clear", "ua_return")
  <2>1. "ua_clear" \notin Watched /\ "ua_return" \notin Watched
    BY Zenon DEF Watched, Locked, Scheduling, Picked
  <2> QED BY <1>4, <1>w, <2>1, CancelUploadTaskCalm, Zenon
<1>5. ASSUME NEW c \in Uploads, HandleResponse(c) PROVE Calm
  <2>1. Goto("worker", "finish") /\ \A s \in Threads : s # "worker" => arg'[s] = arg[s]
    BY <1>5, Zenon DEF HandleResponse, CallFinish, Typed, ArgOK
  <2>2. "finish" \notin Watched  BY Zenon DEF Watched, Locked, Scheduling, Picked
  <2> QED BY <1>5, <1>w, <2>1, <2>2, CalmGoto, Zenon DEF HandleResponse, tpmVars
<1> QED BY <1>1, <1>2, <1>3, <1>4, <1>5, Zenon

\* The API calls.
LEMMA ApiCalm ==
  ASSUME Typed, Start \/ UploadNow \/ PauseTransmission \/ DeleteData \/ Stop
  PROVE  Calm
<1>u. "user" \in Threads  BY Zenon DEF Threads
<1>1. CASE Start \/ UploadNow \/ Stop_Begin
  <2>1. /\ \E l \in {"priority", "su_lock", "st_drain"} : Goto("user", l)
        /\ UNCHANGED <<queued, taskLatency, m_runningLatency, m_itemInProgress>>
    BY <1>1, Zenon DEF Start, UploadNow, Stop_Begin, CallSchedule, tpmVars, taskVars
  <2>2. \A s \in Threads : s # "user" => arg'[s] = arg[s]
    BY <1>1, Zenon DEF Start, UploadNow, Stop_Begin, CallSchedule, Typed, ArgOK
  <2> QED BY <1>u, <2>1, <2>2, CalmGoto, Zenon DEF Watched, Locked, Scheduling, Picked
<1>2. ASSUME NEW l \in Pausing \cup Halting \cup {"idle"}, Goto("user", l),
             UNCHANGED <<taskLatency, m_runningLatency, arg>>,
             queued' \subseteq queued, m_itemInProgress' \in {m_itemInProgress, NoTask}
      PROVE  Calm
  <2>1. l \notin Watched  BY <1>2, Zenon DEF Watched, Locked, Scheduling, Picked, Pausing, Halting
  <2> QED BY <1>2, <1>u, <2>1, CalmGoto, Zenon
<1>3. CASE PauseTransmission
  <2>1. CASE PauseAllUploads("pa_cancel")
    BY <1>2, <2>1, Zenon DEF PauseAllUploads, taskVars, Pausing
  <2>2. CASE CancelUploadTask("user", "pa_cancel", "pa_clear", "pa_http")
    BY <1>2, <2>2, Zenon DEF CancelUploadTask, EraseScheduled, tpmVars, taskVars, Pausing
  <2>3. CASE CancelAllRequests("pa_http", "pa_wait", "idle")
    BY <1>2, <2>3, Zenon DEF CancelAllRequests, tpmVars, taskVars, Pausing
  <2> QED BY <1>3, <2>1, <2>2, <2>3, Zenon DEF PauseTransmission
<1>4. CASE DeleteData
  <2>1. CASE CancelUploadTask("user", "cl_cancel", "cl_clear", "cl_spin")
    BY <1>2, <2>1, Zenon DEF CancelUploadTask, EraseScheduled, tpmVars, taskVars, Pausing
  <2>2. CASE CancelAllRequests("cl_http", "cl_wait", "cl_cancel")
    BY <1>2, <2>2, Zenon DEF CancelAllRequests, tpmVars, taskVars, Pausing
  <2> QED BY <1>2, <1>4, <2>1, <2>2, Zenon DEF DeleteData, tpmVars, taskVars, Pausing
<1>5. CASE Stop /\ ~Stop_Begin
  <2>1. CASE \/ CancelUploadTask("user", "sp_cancel", "sp_clear", "sp_http")
             \/ CancelUploadTask("user", "fa_cancel", "fa_clear", "st_lock")
    BY <1>2, <2>1, Zenon DEF CancelUploadTask, EraseScheduled, tpmVars, taskVars, Halting
  <2>2. CASE \/ CancelAllRequests("sp_http", "sp_wait", "fa_http")
             \/ CancelAllRequests("fa_http", "fa_wait", "fa_cancel")
    BY <1>2, <2>2, Zenon DEF CancelAllRequests, tpmVars, taskVars, Halting
  <2>3. CASE Stop_Pause  BY <1>2, <2>3, Zenon DEF Stop_Pause, PauseAllUploads, taskVars, Halting
  <2>4. CASE Stop_Cancel
    BY <1>2, <2>4, Zenon DEF Stop_Cancel, EraseScheduled, tpmVars, Halting
  <2>5. CASE Stop_Abort \/ Stop_Wait \/ Stop_WaitTimedOut \/ Stop_Clear \/ Stop_Spin
    BY <1>2, <2>5, Zenon
       DEF Stop_Abort, Stop_Wait, Stop_WaitTimedOut, Stop_Clear, Stop_Spin, tpmVars, taskVars, Halting
  <2> QED BY <1>5, <2>1, <2>2, <2>3, <2>4, <2>5, Zenon DEF Stop, Stop_FinishAllUploads
<1> QED BY <1>1, <1>3, <1>4, <1>5, Zenon

\* Every other step is calm.
LEMMA CalmStep ==
  ASSUME Typed, [Next]_vars
  PROVE  \/ Calm
         \/ \E t \in Threads : ScheduleUpload(t) \/ HandleEventArrived_Check(t)
         \/ \E a \in Tasks : UploadAsync_Pick(a)
         \/ UploadAsync_Start
         \/ UploadAsync_Lock
<1>1. ASSUME UNCHANGED <<pc, arg, taskVars, m_runningLatency>> PROVE Calm
  BY <1>1, Zenon DEF Calm, taskVars
<1>2. CASE UNCHANGED vars  BY <1>1, <1>2, Zenon DEF vars, tpmVars
<1>3. ASSUME NEW p \in Profiles, SetProfile(p) PROVE Calm  BY <1>1, <1>3, Zenon DEF SetProfile, tpmVars
<1>4. ASSUME NEW c \in Uploads, OnHttpResponse(c) PROVE Calm
  BY <1>1, <1>4, Zenon DEF OnHttpResponse, tpmVars
<1>5. ASSUME NEW t \in Threads, NEW e \in Events, LogEvent(t, e) PROVE Calm
  <2>1. "ev_arrived" \notin Watched  BY Zenon DEF Watched, Locked, Scheduling, Picked
  <2>2. \A s \in Threads : s # t => arg'[s] = arg[s]  BY <1>5, Zenon DEF LogEvent, Typed, ArgOK
  <2> QED BY <1>5, <2>1, <2>2, CalmGoto, Zenon DEF LogEvent, tpmVars, taskVars
<1>6. CASE Next
  BY <1>2, <1>3, <1>4, <1>5, <1>6, UploadCalm, WorkerCalm, ApiCalm, Zenon
     DEF Next, ThreadStep, HandleEventArrived, UploadAsync, Terminated
<1> QED BY <1>2, <1>6, Zenon

\* Only the latencies above RealTime are uploaded right away.
UrgentIsMax == \A t \in Threads : pc[t] = "ev_upload" => arg[t].lat = EventLatency_Max

\* Every step keeps that.
LEMMA UrgentIsMaxStep ==
  ASSUME Typed, UrgentIsMax, [Next]_vars
  PROVE  UrgentIsMax'
<1>1. CASE Calm  BY <1>1, Zenon DEF Calm, UrgentIsMax, Watched
<1>2. ASSUME NEW t \in Threads, NEW l, l # "ev_upload", Goto(t, l),
             \A s \in Threads : s # t => arg'[s] = arg[s]
      PROVE  UrgentIsMax'
  <2>1. pc'[t] = l /\ \A s \in Threads : s # t => pc'[s] = pc[s]  BY <1>2, GotoWhere, Zenon
  <2>2. SUFFICES ASSUME NEW s \in Threads, pc'[s] = "ev_upload" PROVE arg'[s].lat = EventLatency_Max
    BY Zenon DEF UrgentIsMax
  <2>3. s # t  BY <1>2, <2>1, <2>2, Zenon
  <2>4. pc[s] = "ev_upload" /\ arg'[s] = arg[s]  BY <1>2, <2>1, <2>2, <2>3, Zenon
  <2> QED BY <2>4, Zenon DEF UrgentIsMax
<1>3. ASSUME NEW t \in Threads, HandleEventArrived_Check(t) PROVE UrgentIsMax'
  <2>1. CASE Return(t)  BY <1>2, <2>1, ReturnCalm, Zenon DEF Watched
  <2>2. CASE /\ Goto(t, IF arg[t].lat > EventLatency_RealTime THEN "ev_upload" ELSE "ev_schedule")
             /\ UNCHANGED arg
    <3>1. arg[t].lat \in Latencies  BY Zenon DEF Typed, ArgOK, Arguments
    <3>2. arg[t].lat > EventLatency_RealTime => arg[t].lat = EventLatency_Max
      BY <3>1 DEF Latencies, EventLatency_Normal, EventLatency_RealTime, EventLatency_Max
    <3> QED BY <2>2, <3>2, GotoWhere, Zenon DEF UrgentIsMax
  <2> QED BY <1>3, <2>1, <2>2, Zenon DEF HandleEventArrived_Check
<1>4. ASSUME NEW t \in Threads, ScheduleUpload(t) PROVE UrgentIsMax'
  <2>1. \/ Return(t)
        \/ /\ \E l \in Locked : Goto(t, l)
           /\ \A s \in Threads : s # t => arg'[s] = arg[s]
    <3>1. CASE ScheduleUpload_Lock(t) \/ ScheduleUpload_Exchange(t) \/ ScheduleUpload_Handle(t)
      BY <3>1, Zenon DEF ScheduleUpload_Lock, ScheduleUpload_Exchange, ScheduleUpload_Handle,
         ReleaseAndReturn, Locked, Scheduling
    <3>2. CASE ScheduleUpload_Timers(t)
      BY <3>2, Zenon DEF ScheduleUpload_Timers, ReleaseAndReturn, Locked, Scheduling, Typed, ArgOK
    <3>3. CASE CancelUploadTask(t, "su_cancel", "su_clear", "su_exchange")
      BY <3>3, Zenon DEF CancelUploadTask, Locked, Scheduling
    <3>4. CASE ScheduleUpload_Queue(t)
      BY <3>4, Zenon DEF ScheduleUpload_Queue, Locked, Typed, ArgOK
    <3> QED BY <1>4, <3>1, <3>2, <3>3, <3>4, Zenon DEF ScheduleUpload
  <2>2. "ev_upload" \notin Locked  BY Zenon DEF Locked, Scheduling
  <2> QED BY <1>2, <2>1, <2>2, ReturnCalm, Zenon DEF Watched
<1>5. CASE UploadAsync_Start \/ UploadAsync_Lock \/ \E a \in Tasks : UploadAsync_Pick(a)
  <2>1. UNCHANGED arg /\ \E l \in {"picked", "idle", "ua_lock", "ua_cancel", "ua_add"} : Goto("worker", l)
    BY <1>5, Zenon DEF UploadAsync_Start, UploadAsync_Lock, UploadAsync_Pick
  <2> QED BY <1>2, <2>1, Zenon DEF Threads
<1> QED BY <1>1, <1>3, <1>4, <1>5, CalmStep, Zenon

\* A context changes its latency only when an upload is added or finished.
MinKept ==
    /\ UNCHANGED m_activeUploads
    /\ \A c \in Uploads : /\ uploads'[c].min = uploads[c].min
                          /\ uploads'[c].st # "free" => uploads[c].st # "free"

\* Erasing a response task keeps it.
LEMMA EraseScheduledMin ==
  ASSUME Typed, EraseScheduled, UNCHANGED m_activeUploads
  PROVE  MinKept
<1> SUFFICES ASSUME NEW c \in Uploads
             PROVE  /\ uploads'[c].min = uploads[c].min
                    /\ uploads'[c].st # "free" => uploads[c].st # "free"
  BY Zenon DEF MinKept
<1>1. uploads[c] \in UploadContexts  BY Zenon DEF Typed, UploadsOK
<1>2. [uploads[c] EXCEPT !.st = "lost", !.task = NoTask].min = uploads[c].min
  BY <1>1, Zenon DEF UploadContexts
<1>3. uploads'[c] = uploads[c] \/ (uploads[c].st = "answered" /\ uploads'[c].min = uploads[c].min)
  BY <1>2, Zenon DEF EraseScheduled
<1> QED BY <1>3, Zenon

\* cancelUploadTask keeps it.
LEMMA CancelUploadTaskMin ==
  ASSUME Typed, NEW t, NEW cancel, NEW clear, NEW next, CancelUploadTask(t, cancel, clear, next)
  PROVE  MinKept
<1>1. CASE EraseScheduled /\ UNCHANGED m_activeUploads  BY <1>1, EraseScheduledMin, Zenon
<1>2. CASE UNCHANGED <<uploads, m_activeUploads>>  BY <1>2, Zenon DEF MinKept
<1> QED BY <1>1, <1>2, Zenon DEF CancelUploadTask, tpmVars

\* cancelAllRequests keeps it.
LEMMA CancelAllRequestsMin ==
  ASSUME Typed, NEW cancel, NEW wait, NEW next, CancelAllRequests(cancel, wait, next)
  PROVE  MinKept
<1>1. \A c \in Uploads : uploads[c] \in UploadContexts  BY Zenon DEF Typed, UploadsOK
<1>2. \A c \in Uploads : LET u == [uploads[c] EXCEPT !.res = "cancelled"]
                         IN  u.min = uploads[c].min /\ u.st = uploads[c].st
  BY <1>1, Zenon DEF UploadContexts
<1>3. \A c \in Uploads : uploads'[c].min = uploads[c].min /\ uploads'[c].st = uploads[c].st
  BY <1>2, Zenon DEF CancelAllRequests
<1> QED BY <1>3, Zenon DEF MinKept, CancelAllRequests, tpmVars

\* Sending a request, its response and its handling keep it.
LEMMA RequestMin ==
  ASSUME Typed, UploadsInv,
         \/ \E t \in Threads : HandleSendRequest(t)
         \/ \E c \in Uploads : OnHttpResponse(c) \/ HandleResponse(c)
  PROVE  MinKept
<1>1. ASSUME NEW c \in Uploads, NEW u, uploads' = [uploads EXCEPT ![c] = u],
             u.min = uploads[c].min, uploads[c].st # "free", UNCHANGED m_activeUploads
      PROVE  MinKept
  BY <1>1, Zenon DEF MinKept, Typed, UploadsOK
<1>2. ASSUME NEW t \in Threads, HandleSendRequest(t) PROVE MinKept
  <2>1. arg[t].ctx \in Uploads /\ uploads[arg[t].ctx].st = "open"
    BY <1>2, HandledContext, Zenon DEF HandleSendRequest, Handling
  <2>2. uploads[arg[t].ctx] \in UploadContexts  BY <2>1, Zenon DEF Typed, UploadsOK
  <2>3. PICK b : uploads' = [uploads EXCEPT ![arg[t].ctx] = [@ EXCEPT !.st = "sent", !.events = b]]
    BY <1>2, Zenon DEF HandleSendRequest
  <2>4. [uploads[arg[t].ctx] EXCEPT !.st = "sent", !.events = b].min = uploads[arg[t].ctx].min
    BY <2>2, Zenon DEF UploadContexts
  <2> QED BY <1>1, <1>2, <2>1, <2>3, <2>4, Zenon DEF HandleSendRequest, tpmVars
<1>3. ASSUME NEW c \in Uploads, OnHttpResponse(c) PROVE MinKept
  <2>1. uploads[c] \in UploadContexts  BY Zenon DEF Typed, UploadsOK
  <2>2. PICK r, a : uploads' = [uploads EXCEPT ![c] = [@ EXCEPT !.st = "answered", !.res = r, !.task = a]]
    BY <1>3, Zenon DEF OnHttpResponse
  <2>3. [uploads[c] EXCEPT !.st = "answered", !.res = r, !.task = a].min = uploads[c].min
    BY <2>1, Zenon DEF UploadContexts
  <2> QED BY <1>1, <1>3, <2>2, <2>3, Zenon DEF OnHttpResponse, AwaitsResponse, tpmVars
<1>4. ASSUME NEW c \in Uploads, HandleResponse(c) PROVE MinKept
  <2>1. uploads[c] \in UploadContexts  BY Zenon DEF Typed, UploadsOK
  <2>2. [uploads[c] EXCEPT !.st = "open", !.events = {}, !.task = NoTask].min = uploads[c].min
    BY <2>1, Zenon DEF UploadContexts
  <2> QED BY <1>1, <1>4, <2>2, Zenon DEF HandleResponse, tpmVars
<1> QED BY <1>2, <1>3, <1>4, Zenon

\* Every other step keeps it.
LEMMA MinStep ==
  ASSUME Typed, UploadsInv, [Next]_vars
  PROVE  \/ MinKept
         \/ \E t \in Threads : FinishUpload(t) \/ HandleEventArrived_Upload(t)
         \/ UploadAsync_Add
<1>1. ASSUME UNCHANGED <<uploads, m_activeUploads>> PROVE MinKept  BY <1>1, Zenon DEF MinKept
<1>2. ASSUME NEW t \in Threads, ThreadStep(t)
      PROVE  MinKept \/ FinishUpload(t) \/ HandleEventArrived_Upload(t)
  <2>1. CASE ScheduleUpload(t)
    BY <1>1, <2>1, CancelUploadTaskMin, Zenon DEF ScheduleUpload, ScheduleUpload_Lock,
       ScheduleUpload_Timers, ScheduleUpload_Exchange, ScheduleUpload_Queue, ScheduleUpload_Handle, tpmVars
  <2>2. CASE Upload(t)
    BY <1>1, <2>2, RequestMin, Zenon DEF Upload, HandleNothingToUpload, HandlePackagingFailed,
       CalculateNewPriority, tpmVars
  <2>3. CASE HandleEventArrived(t)
    BY <1>1, <2>3, Zenon DEF HandleEventArrived, HandleEventArrived_Check, HandleEventArrived_Schedule, tpmVars
  <2> QED BY <1>2, <2>1, <2>2, <2>3, Zenon DEF ThreadStep
<1>3. CASE UploadAsync
  BY <1>1, <1>3, CancelUploadTaskMin, Zenon DEF UploadAsync, UploadAsync_Pick, UploadAsync_Start,
     UploadAsync_Lock, UploadAsync_Return, tpmVars
<1>4. CASE PauseTransmission \/ DeleteData
  <2>1. CASE uploads' = [c \in Uploads |-> [uploads[c] EXCEPT !.events = {}]] /\ UNCHANGED m_activeUploads
    <3>1. \A c \in Uploads : uploads[c] \in UploadContexts  BY Zenon DEF Typed, UploadsOK
    <3>2. \A c \in Uploads : uploads'[c].min = uploads[c].min /\ uploads'[c].st = uploads[c].st
      BY <2>1, <3>1, Zenon DEF UploadContexts
    <3> QED BY <2>1, <3>2, Zenon DEF MinKept
  <2> QED BY <1>1, <1>4, <2>1, CancelUploadTaskMin, CancelAllRequestsMin, Zenon
          DEF PauseTransmission, DeleteData, PauseAllUploads, tpmVars
<1>5. CASE Stop
  <2>1. CASE Stop_Cancel  BY <1>1, <2>1, EraseScheduledMin, Zenon DEF Stop_Cancel, tpmVars
  <2> QED BY <1>1, <1>5, <2>1, CancelUploadTaskMin, CancelAllRequestsMin, Zenon
          DEF Stop, Stop_Begin, Stop_Pause, PauseAllUploads, Stop_FinishAllUploads, Stop_Abort, Stop_Wait,
              Stop_WaitTimedOut, Stop_Clear, Stop_Spin, tpmVars
<1>6. ASSUME \/ \E t \in Threads, e \in Events : LogEvent(t, e)
             \/ EndOfTask \/ Start \/ UploadNow
             \/ \E p \in Profiles : SetProfile(p)
             \/ UNCHANGED vars
      PROVE  MinKept
  BY <1>1, <1>6, Zenon DEF LogEvent, EndOfTask, Start, UploadNow, SetProfile, vars, tpmVars
<1>7. CASE Next
  BY <1>2, <1>3, <1>4, <1>5, <1>6, <1>7, RequestMin, Zenon DEF Next, Terminated
<1> QED BY <1>6, <1>7, Zenon

-----------------------------------------------------------------------------
(* NormalInv: with negative first timers, no Normal latency gets near an upload. *)

NoNormal == \A p \in Profiles : p[1] < 0

\* Past the correction of the latency in scheduleUpload.
Corrected == Locked \ {"su_timers"}

\* The latencies of tasks and of calls that carry one to a task, and those of contexts.
TasksNotNormal ==
    /\ m_runningLatency # EventLatency_Normal
    /\ \A a \in queued : taskLatency[a] # EventLatency_Normal
    /\ pc["worker"] = "picked" /\ m_itemInProgress # NoTask =>
          taskLatency[m_itemInProgress] # EventLatency_Normal
    /\ \A t \in Threads : pc[t] \in Corrected => arg[t].lat # EventLatency_Normal
UploadsNotNormal ==
    \A c \in Uploads : uploads[c].st # "free" => uploads[c].min # EventLatency_Normal
NormalInv == TasksNotNormal /\ UploadsNotNormal

\* The correction.
LEMMA AllowedNotNormal ==
  ASSUME Typed, NoNormal, NEW l \in Latencies
  PROVE  AllowedLatency(l) # EventLatency_Normal
<1>1. UpdatedTimers[1] < 0  BY TimersType, Zenon DEF Typed, NoNormal
<1>2. l = EventLatency_Normal => l < EventLatency_RealTime  BY DEF EventLatency_Normal, EventLatency_RealTime
<1>3. EventLatency_RealTime # EventLatency_Normal  BY DEF EventLatency_Normal, EventLatency_RealTime
<1> QED BY <1>1, <1>2, <1>3, Zenon DEF AllowedLatency

\* A step that keeps tasks and latencies, and takes no thread past the correction.
LEMMA TasksNotNormalKept ==
  ASSUME Typed, TasksNotNormal, NEW t \in Threads, NEW l, Goto(t, l), l # "picked",
         queued' \subseteq queued, UNCHANGED <<taskLatency, m_itemInProgress>>,
         m_runningLatency' # EventLatency_Normal,
         l \in Corrected => arg'[t].lat # EventLatency_Normal,
         \A s \in Threads : s # t => arg'[s] = arg[s]
  PROVE  TasksNotNormal'
<1>1. pc'[t] = l /\ \A s \in Threads : s # t => pc'[s] = pc[s]  BY GotoWhere, Zenon
<1>2. "worker" \in Threads  BY Zenon DEF Threads
<1>3. pc'["worker"] = "picked" => pc["worker"] = "picked"  BY <1>1, <1>2, Zenon
<1>4. \A s \in Threads : pc'[s] \in Corrected => arg'[s].lat # EventLatency_Normal
  BY <1>1, Zenon DEF TasksNotNormal
<1> QED BY <1>3, <1>4, Zenon DEF TasksNotNormal

\* scheduleUpload.
LEMMA ScheduleNotNormal ==
  ASSUME Typed, NoNormal, TasksNotNormal, NEW t \in Threads, ScheduleUpload(t)
  PROVE  TasksNotNormal'
<1>0. "picked" \notin Corrected /\ "su_timers" \notin Corrected  BY Zenon DEF Corrected, Locked, Scheduling
<1>1. ASSUME Return(t), queued' = queued, UNCHANGED <<taskLatency, m_itemInProgress>>,
             m_runningLatency' # EventLatency_Normal
      PROVE  TasksNotNormal'
  <2>1. PICK l : l \notin Watched /\ Goto(t, l)  BY <1>1, ReturnCalm, Zenon
  <2>2. l \notin Corrected /\ l # "picked"  BY <2>1, Zenon DEF Watched, Corrected, Picked
  <2> QED BY <1>1, <2>1, <2>2, ReturnCalm, TasksNotNormalKept, Zenon
<1>2. CASE ScheduleUpload_Lock(t)
  <2>1. /\ UNCHANGED <<queued, taskLatency, m_itemInProgress>>
        /\ m_runningLatency' # EventLatency_Normal
    BY <1>2, Zenon DEF ScheduleUpload_Lock, taskVars, TasksNotNormal
  <2>2. CASE Goto(t, "su_timers") /\ UNCHANGED arg
    BY <1>0, <2>1, <2>2, TasksNotNormalKept, Zenon
  <2> QED BY <1>1, <1>2, <2>1, <2>2, Zenon DEF ScheduleUpload_Lock
<1>3. CASE ScheduleUpload_Timers(t)
  <2> DEFINE lat == AllowedLatency(arg[t].lat)
  <2>1. arg[t].lat \in Latencies  BY Zenon DEF Typed, ArgOK, Arguments
  <2>2. lat # EventLatency_Normal  BY <2>1, AllowedNotNormal, Zenon
  <2>3. UNCHANGED <<queued, taskLatency, m_itemInProgress>>
    BY <1>3, Zenon DEF ScheduleUpload_Timers, taskVars
  <2>4. m_runningLatency' \in {lat, m_runningLatency}  BY <1>3, Zenon DEF ScheduleUpload_Timers
  <2>5. \/ Return(t)
        \/ /\ Goto(t, IF arg[t].force \/ arg[t].delay = 0 THEN "su_cancel" ELSE "su_exchange")
           /\ arg' = [arg EXCEPT ![t].lat = lat]
    BY <1>3, Zenon DEF ScheduleUpload_Timers, ReleaseAndReturn
  <2> HIDE DEF lat
  <2>6. m_runningLatency' # EventLatency_Normal  BY <2>2, <2>4, Zenon DEF TasksNotNormal
  <2>7. CASE /\ Goto(t, IF arg[t].force \/ arg[t].delay = 0 THEN "su_cancel" ELSE "su_exchange")
             /\ arg' = [arg EXCEPT ![t].lat = lat]
    <3>1. arg[t] \in Arguments  BY Zenon DEF Typed, ArgOK
    <3>2. [arg[t] EXCEPT !.lat = lat].lat = lat  BY <3>1, Zenon DEF Arguments
    <3>3. arg'[t].lat = lat /\ \A s \in Threads : s # t => arg'[s] = arg[s]
      BY <2>7, <3>2, Zenon DEF Typed, ArgOK
    <3>4. PICK l \in {"su_cancel", "su_exchange"} : Goto(t, l)  BY <2>7, Zenon
    <3>5. l # "picked"  BY <3>4, Zenon
    <3> QED BY <2>2, <2>3, <2>6, <3>3, <3>4, <3>5, TasksNotNormalKept, Zenon
  <2> QED BY <1>1, <2>3, <2>5, <2>6, <2>7, Zenon
<1>4. CASE CancelUploadTask(t, "su_cancel", "su_clear", "su_exchange")
  <2>1. /\ pc[t] \in {"su_cancel", "su_clear"}
        /\ \E l \in {"su_clear", "su_exchange"} : Goto(t, l)
        /\ queued' \subseteq queued
        /\ UNCHANGED <<taskLatency, m_itemInProgress, m_runningLatency, arg>>
    BY <1>4, Zenon DEF CancelUploadTask, EraseScheduled, tpmVars, taskVars
  <2>2. arg[t].lat # EventLatency_Normal
    BY <2>1, Zenon DEF TasksNotNormal, Corrected, Locked, Scheduling
  <2>3. m_runningLatency' # EventLatency_Normal  BY <2>1, Zenon DEF TasksNotNormal
  <2>4. PICK l \in {"su_clear", "su_exchange"} : Goto(t, l)  BY <2>1, Zenon
  <2>5. l # "picked"  BY <2>4, Zenon
  <2> QED BY <2>1, <2>2, <2>3, <2>4, <2>5, TasksNotNormalKept, Zenon
<1>5. CASE ScheduleUpload_Exchange(t)
  <2>1. UNCHANGED <<queued, taskLatency, m_itemInProgress>>
    BY <1>5, Zenon DEF ScheduleUpload_Exchange, taskVars
  <2>2. arg[t].lat # EventLatency_Normal
    BY <1>5, Zenon DEF ScheduleUpload_Exchange, TasksNotNormal, Corrected, Locked, Scheduling
  <2>3. m_runningLatency' # EventLatency_Normal
    BY <1>5, <2>2, Zenon DEF ScheduleUpload_Exchange, TasksNotNormal
  <2>4. CASE Goto(t, "su_queue") /\ UNCHANGED arg
    BY <2>1, <2>2, <2>3, <2>4, TasksNotNormalKept, Zenon
  <2> QED BY <1>1, <1>5, <2>1, <2>3, <2>4, Zenon DEF ScheduleUpload_Exchange, ReleaseAndReturn
<1>6. CASE ScheduleUpload_Queue(t)
  <2>1. PICK a \in Tasks \ LiveTasks : /\ queued' = queued \cup {a}
                                       /\ taskLatency' = [taskLatency EXCEPT ![a] = arg[t].lat]
                                       /\ arg' = [arg EXCEPT ![t].task = a]
    BY <1>6, Zenon DEF ScheduleUpload_Queue
  <2>2. UNCHANGED <<m_itemInProgress, m_runningLatency>> /\ Goto(t, "su_handle")
    BY <1>6, Zenon DEF ScheduleUpload_Queue, tpmVars
  <2>3. a \notin queued /\ a # m_itemInProgress  BY <2>1, Zenon DEF LiveTasks
  <2>4. arg[t].lat # EventLatency_Normal
    BY <1>6, Zenon DEF ScheduleUpload_Queue, TasksNotNormal, Corrected, Locked, Scheduling
  <2>5. /\ taskLatency'[a] = arg[t].lat
        /\ \A b \in Tasks : b # a => taskLatency'[b] = taskLatency[b]
    BY <2>1, Zenon DEF Typed, FlatOK
  <2>6. queued \subseteq Tasks /\ (m_itemInProgress # NoTask => m_itemInProgress \in Tasks)
    BY Zenon DEF Typed, FlatOK
  <2>7. \A b \in queued' : taskLatency'[b] # EventLatency_Normal
    BY <2>1, <2>4, <2>5, <2>6, Zenon DEF TasksNotNormal
  <2>8. pc'[t] = "su_handle" /\ \A s \in Threads : s # t => pc'[s] = pc[s]  BY <2>2, GotoWhere, Zenon
  <2>9. pc'["worker"] = "picked" => pc["worker"] = "picked"  BY <2>8, Zenon DEF Threads
  <2>10. pc'["worker"] = "picked" /\ m_itemInProgress' # NoTask =>
            taskLatency'[m_itemInProgress'] # EventLatency_Normal
    BY <2>2, <2>3, <2>5, <2>6, <2>9, Zenon DEF TasksNotNormal
  <2>11. arg[t] \in Arguments  BY Zenon DEF Typed, ArgOK
  <2>12. [arg[t] EXCEPT !.task = a].lat = arg[t].lat  BY <2>11, Zenon DEF Arguments
  <2>13. arg'[t].lat = arg[t].lat /\ \A s \in Threads : s # t => arg'[s] = arg[s]
    BY <2>1, <2>12, Zenon DEF Typed, ArgOK
  <2>14. \A s \in Threads : pc'[s] \in Corrected => arg'[s].lat # EventLatency_Normal
    BY <2>4, <2>8, <2>13, Zenon DEF TasksNotNormal
  <2> QED BY <2>2, <2>7, <2>10, <2>14, Zenon DEF TasksNotNormal
<1>7. CASE ScheduleUpload_Handle(t)
  BY <1>1, <1>7, Zenon DEF ScheduleUpload_Handle, ReleaseAndReturn, taskVars, TasksNotNormal
<1> QED BY <1>2, <1>3, <1>4, <1>5, <1>6, <1>7, Zenon DEF ScheduleUpload

\* Every step, for the tasks.
LEMMA TasksNotNormalStep ==
  ASSUME Typed, NoNormal, TasksNotNormal, [Next]_vars
  PROVE  TasksNotNormal'
<1>0. "worker" \in Threads  BY Zenon DEF Threads
<1>1. CASE Calm
  <2>1. pc'["worker"] = "picked" =>
           pc["worker"] = "picked" /\ m_itemInProgress' \in {m_itemInProgress, NoTask}
    BY <1>0, <1>1, Zenon DEF Calm, Watched, Picked
  <2>2. \A t \in Threads : pc'[t] \in Corrected => pc'[t] = pc[t] /\ arg'[t] = arg[t]
    BY <1>1, Zenon DEF Calm, Watched, Corrected
  <2> QED BY <1>1, <2>1, <2>2, Zenon DEF Calm, TasksNotNormal
<1>2. ASSUME NEW t \in Threads, ScheduleUpload(t) PROVE TasksNotNormal'
  BY <1>2, ScheduleNotNormal, Zenon
<1>3. ASSUME NEW t \in Threads, HandleEventArrived_Check(t) PROVE TasksNotNormal'
  <2>1. /\ UNCHANGED <<queued, taskLatency, m_itemInProgress>>
        /\ m_runningLatency' # EventLatency_Normal
    BY <1>3, Zenon DEF HandleEventArrived_Check, taskVars, tpmVars, TasksNotNormal
  <2>2. /\ \E l : l \notin Corrected \cup {"picked"} /\ Goto(t, l)
        /\ \A s \in Threads : s # t => arg'[s] = arg[s]
    BY <1>3, ReturnCalm, Zenon DEF HandleEventArrived_Check, Watched, Corrected, Locked, Scheduling, Picked
  <2>3. PICK l : l \notin Corrected \cup {"picked"} /\ Goto(t, l)  BY <2>2, Zenon
  <2> QED BY <2>1, <2>2, <2>3, TasksNotNormalKept, Zenon
<1>4. ASSUME NEW a \in Tasks, UploadAsync_Pick(a) PROVE TasksNotNormal'
  <2>1. /\ a \in queued /\ queued' \subseteq queued /\ m_itemInProgress' = a /\ Goto("worker", "picked")
        /\ UNCHANGED <<taskLatency, m_runningLatency, arg>>
    BY <1>4, Zenon DEF UploadAsync_Pick, tpmVars
  <2>2. \A s \in Threads : pc'[s] \in Corrected => pc'[s] = pc[s]
    BY <1>0, <2>1, GotoWhere, Zenon DEF Corrected, Locked, Scheduling
  <2> QED BY <2>1, <2>2, Zenon DEF TasksNotNormal
<1>5. CASE UploadAsync_Start \/ UploadAsync_Lock
  <2>1. UNCHANGED <<queued, taskLatency, m_itemInProgress, arg>>
    BY <1>5, Zenon DEF UploadAsync_Start, UploadAsync_Lock, taskVars
  <2>2. m_runningLatency' # EventLatency_Normal
    BY <1>5, Zenon DEF UploadAsync_Start, UploadAsync_Lock, TasksNotNormal
  <2>3. \E l \in {"idle", "ua_lock", "ua_cancel", "ua_add"} : Goto("worker", l)
    BY <1>5, Zenon DEF UploadAsync_Start, UploadAsync_Lock
  <2>4. PICK l : l \notin Corrected \cup {"picked"} /\ Goto("worker", l)
    BY <2>3, Zenon DEF Corrected, Locked, Scheduling
  <2> QED BY <1>0, <2>1, <2>2, <2>4, TasksNotNormalKept, Zenon
<1> QED BY <1>1, <1>2, <1>3, <1>4, <1>5, CalmStep, Zenon

\* Every step, for the contexts.
LEMMA UploadsNotNormalStep ==
  ASSUME Typed, UploadsInv, UrgentIsMax, m_runningLatency # EventLatency_Normal, UploadsNotNormal, [Next]_vars
  PROVE  UploadsNotNormal'
<1>1. CASE MinKept  BY <1>1, Zenon DEF MinKept, UploadsNotNormal
<1>2. ASSUME NEW t \in Threads, FinishUpload(t) PROVE UploadsNotNormal'
  <2>1. \A d \in Uploads : uploads'[d] = uploads[d] \/ uploads'[d] = FreeUpload
    BY <1>2, Zenon DEF FinishUpload, Typed, UploadsOK
  <2>2. FreeUpload.st = "free"  BY Zenon DEF FreeUpload
  <2> QED BY <2>1, <2>2, Zenon DEF UploadsNotNormal
<1>3. ASSUME NEW t \in Threads, NEW min \in Latencies, min # EventLatency_Normal, AddUpload(t, min)
      PROVE  UploadsNotNormal'
  <2> DEFINE c == CHOOSE u \in UnusedUploads : TRUE
             u == [FreeUpload EXCEPT !.st = "open", !.min = min]
  <2>1. uploads' = [uploads EXCEPT ![c] = u]  BY <1>3, Zenon DEF AddUpload
  <2>2. u.min = min  BY FreeUploadType, Zenon DEF UploadContexts
  <2> HIDE DEF c, u
  <2>3. \A d \in Uploads : uploads'[d] = uploads[d] \/ uploads'[d] = u
    BY <2>1, Zenon DEF Typed, UploadsOK
  <2> QED BY <1>3, <2>2, <2>3, Zenon DEF UploadsNotNormal
<1>4. ASSUME NEW t \in Threads, HandleEventArrived_Upload(t) PROVE UploadsNotNormal'
  <2>1. EventLatency_Max # EventLatency_Normal  BY DEF EventLatency_Max, EventLatency_Normal
  <2> QED BY <1>3, <1>4, <2>1, LatencyTypes, Zenon DEF HandleEventArrived_Upload, UrgentIsMax
<1>5. CASE UploadAsync_Add
  BY <1>3, <1>5, Zenon DEF UploadAsync_Add, Typed, FlatOK, Threads
<1> QED BY <1>1, <1>2, <1>4, <1>5, MinStep, Zenon

-----------------------------------------------------------------------------
(* Finite sets.  The library's facts are instantiated here, and not extended above, because *)
(* only what follows needs them and every proof step carries all that precedes it.          *)

Finite == INSTANCE FiniteSetTheorems

\* The instance has its own copy of the definitions of FiniteSets.
LEMMA SameCardinality == ASSUME NEW S PROVE Finite!Cardinality(S) = Cardinality(S)
  BY Zenon DEF Finite!Cardinality, Cardinality

\* The same for finiteness.
LEMMA SameFinite == ASSUME NEW S PROVE Finite!IsFiniteSet(S) <=> IsFiniteSet(S)
  BY Zenon DEF Finite!IsFiniteSet, IsFiniteSet

\* The cardinality of a finite set is a number.
LEMMA CardinalityType == ASSUME NEW S, IsFiniteSet(S) PROVE Cardinality(S) \in Nat
  BY Finite!FS_CardinalityType, SameCardinality, SameFinite, Zenon

\* A subset of a finite set is finite, and no larger.
LEMMA FiniteSubset ==
  ASSUME NEW S, IsFiniteSet(S), NEW T \in SUBSET S
  PROVE  IsFiniteSet(T) /\ Cardinality(T) <= Cardinality(S)
  BY Finite!FS_Subset, SameCardinality, SameFinite, Zenon

\* One element more makes a finite set larger by at most one.
LEMMA FiniteAdd ==
  ASSUME NEW S, NEW x, IsFiniteSet(S)
  PROVE  /\ IsFiniteSet(S \cup {x})
         /\ Cardinality(S \cup {x}) = Cardinality(S) \/ Cardinality(S \cup {x}) = Cardinality(S) + 1
  BY Finite!FS_AddElement, SameCardinality, SameFinite, Zenon

\* Sets with no and with one element.
LEMMA SmallSets ==
  /\ IsFiniteSet({}) /\ Cardinality({}) = 0
  /\ \A x : Cardinality({x}) = 1
  BY Finite!FS_EmptySet, Finite!FS_Singleton, SameCardinality, SameFinite, Zenon

-----------------------------------------------------------------------------
(* PendingInv: what the check against the maximum bounds. *)

\* The uploads that count, a claim to start one more, and the worker about to start one.
Pending == {c \in m_activeUploads : uploads[c].min # EventLatency_Max}
Token == Busy \/ \E t \in Threads : pc[t] \in Locked
Adding == pc["worker"] = "ua_add"

\* The claim is checked before the upload it follows is added: each of the two, when it is
\* there, still has its place below the bound.
PendingInv ==
    /\ IsFiniteSet(m_activeUploads)
    /\ Cardinality(Pending) <= MaxPendingReq + 1
    /\ Adding \/ Token => Cardinality(Pending) <= MaxPendingReq
    /\ Adding /\ Token => Cardinality(Pending) < MaxPendingReq

\* The uploads that count are finitely many.
LEMMA PendingFinite ==
  ASSUME IsFiniteSet(m_activeUploads)
  PROVE  /\ IsFiniteSet(Pending) /\ Cardinality(Pending) \in Nat
         /\ Cardinality(m_activeUploads) \in Nat
         /\ Cardinality(Pending) <= Cardinality(m_activeUploads)
<1>1. Pending \subseteq m_activeUploads  BY Zenon DEF Pending
<1>2. IsFiniteSet(Pending) /\ Cardinality(Pending) <= Cardinality(m_activeUploads)
  BY <1>1, FiniteSubset, Zenon
<1> QED BY <1>2, CardinalityType, Zenon

\* A step without a new claim, a new addition or a new upload that counts.
LEMMA PendingShrinks ==
  ASSUME PendingInv, IsFiniteSet(m_activeUploads'), Pending' \subseteq Pending,
         Token' => Token, Adding' => Adding
  PROVE  PendingInv'
<1> DEFINE n == Cardinality(Pending)
           m == Cardinality(Pending')
<1>1. IsFiniteSet(Pending) /\ n \in Nat  BY PendingFinite, Zenon DEF PendingInv
<1>2. IsFiniteSet(Pending') /\ m <= n  BY <1>1, FiniteSubset, Zenon
<1>3. m \in Nat  BY <1>2, CardinalityType, Zenon
<1>4. /\ n <= MaxPendingReq + 1
      /\ Adding \/ Token => n <= MaxPendingReq
      /\ Adding /\ Token => n < MaxPendingReq
  BY Zenon DEF PendingInv
<1>5. MaxPendingReq \in Nat  BY ConstantsOK, Zenon
<1> HIDE DEF n, m
<1>6. m <= MaxPendingReq + 1  BY <1>1, <1>2, <1>3, <1>4, <1>5, SMT
<1>7. n <= MaxPendingReq => m <= MaxPendingReq  BY <1>1, <1>2, <1>3, <1>5, SMT
<1>8. n < MaxPendingReq => m < MaxPendingReq  BY <1>1, <1>2, <1>3, <1>5, SMT
<1> QED BY <1>4, <1>6, <1>7, <1>8, Zenon DEF PendingInv, n, m

\* Only scheduleUpload makes a claim, and only a claim becomes an addition.
LEMMA TokenStep ==
  ASSUME Typed, [Next]_vars
  PROVE  \/ (Token' => Token) /\ (Adding' => Adding)
         \/ \E t \in Threads : ScheduleUpload_Lock(t)
         \/ UploadAsync_Lock
<1>0. "worker" \in Threads  BY Zenon DEF Threads
<1>1. CASE Calm
  <2>1. Busy' => Busy  BY <1>0, <1>1, Zenon DEF Calm, Busy, Watched
  <2>2. \A t \in Threads : pc'[t] \in Locked => pc[t] \in Locked  BY <1>1, Zenon DEF Calm, Watched
  <2> QED BY <1>0, <1>1, <2>1, <2>2, Zenon DEF Token, Adding, Calm, Watched
<1>2. ASSUME NEW t \in Threads, NEW l, Goto(t, l), l # "ua_add", Token
      PROVE  (Token' => Token) /\ (Adding' => Adding)
  BY <1>0, <1>2, GotoWhere, Zenon DEF Adding
<1>3. ASSUME NEW t \in Threads, ScheduleUpload(t), ~ScheduleUpload_Lock(t)
      PROVE  (Token' => Token) /\ (Adding' => Adding)
  <2>1. pc[t] \in Locked
    BY <1>3, Zenon DEF ScheduleUpload, ScheduleUpload_Timers, CancelUploadTask, ScheduleUpload_Exchange,
       ScheduleUpload_Queue, ScheduleUpload_Handle, Locked, Scheduling
  <2>2. Return(t) \/ \E l \in Locked : Goto(t, l)
    BY <1>3, Zenon DEF ScheduleUpload, ScheduleUpload_Timers, CancelUploadTask, ScheduleUpload_Exchange,
       ScheduleUpload_Queue, ScheduleUpload_Handle, ReleaseAndReturn, Locked, Scheduling
  <2>3. "ua_add" \notin Locked  BY Zenon DEF Locked, Scheduling
  <2> QED BY <1>2, <2>1, <2>2, <2>3, ReturnCalm, Zenon DEF Token, Watched
<1>4. ASSUME NEW t \in Threads, HandleEventArrived_Check(t)
      PROVE  (Token' => Token) /\ (Adding' => Adding)
  <2>1. \E l : l \notin Locked \cup Picked \cup {"ua_add"} /\ Goto(t, l)
    BY <1>4, ReturnCalm, Zenon DEF HandleEventArrived_Check, Watched, Locked, Scheduling, Picked
  <2>2. queued' = queued  BY <1>4, Zenon DEF HandleEventArrived_Check, taskVars
  <2>3. \A s \in Threads : pc'[s] \in Locked \cup Picked \cup {"ua_add"} => pc'[s] = pc[s]
    BY <2>1, GotoWhere, Zenon
  <2> QED BY <1>0, <2>2, <2>3, Zenon DEF Token, Busy, Adding
<1>5. CASE UploadAsync_Start \/ \E a \in Tasks : UploadAsync_Pick(a)
  <2>1. Token  BY <1>5, Zenon DEF UploadAsync_Start, UploadAsync_Pick, Token, Busy, Picked
  <2>2. \E l \in {"picked", "idle", "ua_lock"} : Goto("worker", l)
    BY <1>5, Zenon DEF UploadAsync_Start, UploadAsync_Pick
  <2> QED BY <1>0, <1>2, <2>1, <2>2, Zenon
<1> QED BY <1>1, <1>3, <1>4, <1>5, CalmStep, Zenon

\* The context that addUpload takes is new, and nothing happens to the others.
LEMMA AddUploadPending ==
  ASSUME Typed, NEW t \in Threads, NEW min \in Latencies, AddUpload(t, min), IsFiniteSet(m_activeUploads)
  PROVE  \E c \in Uploads : /\ m_activeUploads' = m_activeUploads \cup {c}
                            /\ IsFiniteSet(m_activeUploads')
                            /\ uploads'[c].min = min
                            /\ \A d \in Uploads : d # c => uploads'[d] = uploads[d]
                            /\ Pending' \subseteq Pending \cup {c}
                            /\ min = EventLatency_Max => Pending' \subseteq Pending
<1> DEFINE c == CHOOSE u \in UnusedUploads : TRUE
<1>1. c \in Uploads  BY Zenon DEF AddUpload, UnusedUploads
<1>2. /\ uploads' = [uploads EXCEPT ![c] = [FreeUpload EXCEPT !.st = "open", !.min = min]]
      /\ m_activeUploads' = m_activeUploads \cup {c}
  BY Zenon DEF AddUpload
<1> HIDE DEF c
<1>3. [FreeUpload EXCEPT !.st = "open", !.min = min].min = min
  BY FreeUploadType, Zenon DEF UploadContexts
<1>4. uploads'[c].min = min /\ \A d \in Uploads : d # c => uploads'[d] = uploads[d]
  BY <1>1, <1>2, <1>3, Zenon DEF Typed, UploadsOK
<1>5. IsFiniteSet(m_activeUploads')  BY <1>2, FiniteAdd, Zenon
<1>6. m_activeUploads \subseteq Uploads  BY Zenon DEF Typed, FlatOK
<1>7. Pending' \subseteq Pending \cup {c}  BY <1>2, <1>4, <1>6, Zenon DEF Pending
<1>8. min = EventLatency_Max => Pending' \subseteq Pending
  BY <1>4, <1>7, Zenon DEF Pending
<1> QED BY <1>1, <1>2, <1>4, <1>5, <1>7, <1>8, Zenon

\* scheduleUpload's check.
LEMMA ScheduleLockPending ==
  ASSUME Typed, PendingInv, NEW t \in Threads, ScheduleUpload_Lock(t)
  PROVE  PendingInv'
<1>1. UNCHANGED <<queued, uploads, m_activeUploads>>  BY Zenon DEF ScheduleUpload_Lock, taskVars
<1>2. Pending' = Pending  BY <1>1, Zenon DEF Pending
<1>3. "worker" \in Threads  BY Zenon DEF Threads
<1>4. IsFiniteSet(m_activeUploads')  BY <1>1, Zenon DEF PendingInv
<1>5. CASE Return(t)
  <2>1. PICK l : l \notin Watched /\ Goto(t, l)  BY <1>5, ReturnCalm, Zenon
  <2>2. \A s \in Threads : pc'[s] \in Watched => pc'[s] = pc[s]  BY <2>1, GotoWhere, Zenon
  <2>3. (Token' => Token) /\ (Adding' => Adding)
    BY <1>1, <1>3, <2>2, Zenon DEF Token, Busy, Adding, Watched
  <2> QED BY <1>2, <1>4, <2>3, PendingShrinks, Zenon
<1>6. CASE ~AtPendingLimit /\ Goto(t, "su_timers")
  <2>1. /\ Cardinality(Pending) \in Nat /\ Cardinality(m_activeUploads) \in Nat
        /\ Cardinality(Pending) <= Cardinality(m_activeUploads)
    BY PendingFinite, Zenon DEF PendingInv
  <2>2. MaxPendingReq \in Nat  BY ConstantsOK, Zenon
  <2>3. /\ Cardinality(Pending) < MaxPendingReq /\ Cardinality(Pending) <= MaxPendingReq
        /\ Cardinality(Pending) <= MaxPendingReq + 1
    BY <1>6, <2>1, <2>2, SMT DEF AtPendingLimit
  <2> QED BY <1>2, <1>4, <2>3, Zenon DEF PendingInv
<1> QED BY <1>5, <1>6, Zenon DEF ScheduleUpload_Lock

\* uploadAsync under the mutex: its claim becomes an addition, and there is no other claim.
LEMMA AsyncLockPending ==
  ASSUME Typed, MutexHeld, SchedInv, PendingInv, UploadAsync_Lock
  PROVE  PendingInv'
<1>1. UNCHANGED <<queued, uploads, m_activeUploads>>  BY Zenon DEF UploadAsync_Lock, taskVars
<1>2. Pending' = Pending  BY <1>1, Zenon DEF Pending
<1>3. "worker" \in Threads /\ "none" \notin Threads  BY Zenon DEF Threads
<1>4. pc["worker"] \in Picked /\ Token  BY Zenon DEF UploadAsync_Lock, Token, Busy, Picked
<1>5. queued' = {}  BY <1>1, <1>4, Zenon DEF SchedInv, PickedKnown
<1>6. \A s \in Threads : pc[s] \notin Locked
  BY <1>3, Zenon DEF MutexHeld, MutexLabels, UploadAsync_Lock
<1>7. PICK l \in {"ua_cancel", "ua_add"} : Goto("worker", l)  BY Zenon DEF UploadAsync_Lock
<1>8. pc'["worker"] = l /\ \A s \in Threads : s # "worker" => pc'[s] = pc[s]
  BY <1>3, <1>7, GotoWhere, Zenon
<1>9. l \notin Locked \cup Picked  BY <1>7, Zenon DEF Locked, Scheduling, Picked
<1>10. ~Token'  BY <1>5, <1>6, <1>8, <1>9, Zenon DEF Token, Busy
<1> QED BY <1>1, <1>2, <1>4, <1>10, Zenon DEF PendingInv

\* uploadAsync adds its upload.
LEMMA AsyncAddPending ==
  ASSUME Typed, PendingInv, UploadAsync_Add, Token' => Token
  PROVE  PendingInv'
<1>1. "worker" \in Threads  BY Zenon DEF Threads
<1>2. AddUpload("worker", m_runningLatency) /\ m_runningLatency \in Latencies /\ Adding
  BY Zenon DEF UploadAsync_Add, Typed, FlatOK, Adding
<1>3. PICK c \in Uploads : IsFiniteSet(m_activeUploads') /\ Pending' \subseteq Pending \cup {c}
  BY <1>1, <1>2, AddUploadPending, Zenon DEF PendingInv
<1>4. ~Adding'
  <2>1. Goto("worker", "retrieve")  BY <1>2, Zenon DEF AddUpload
  <2>2. pc'["worker"] = "retrieve"  BY <1>1, <2>1, GotoWhere, Zenon
  <2> QED BY <2>2 DEF Adding
<1> DEFINE n == Cardinality(Pending)
           k == Cardinality(Pending \cup {c})
           m == Cardinality(Pending')
<1>5. IsFiniteSet(Pending) /\ n \in Nat  BY PendingFinite, Zenon DEF PendingInv
<1>6. IsFiniteSet(Pending \cup {c}) /\ (k = n \/ k = n + 1)  BY <1>5, FiniteAdd, Zenon
<1>7. m <= k /\ IsFiniteSet(Pending')  BY <1>3, <1>6, FiniteSubset, Zenon
<1>8. m \in Nat /\ k \in Nat  BY <1>6, <1>7, CardinalityType, Zenon
<1>9. n <= MaxPendingReq /\ (Token => n < MaxPendingReq)  BY <1>2, Zenon DEF PendingInv
<1>10. MaxPendingReq \in Nat  BY ConstantsOK, Zenon
<1> HIDE DEF n, k, m
<1>11. m <= MaxPendingReq + 1  BY <1>5, <1>6, <1>7, <1>8, <1>9, <1>10, SMT
<1>12. n < MaxPendingReq => m <= MaxPendingReq  BY <1>5, <1>6, <1>7, <1>8, <1>10, SMT
<1> QED BY <1>3, <1>4, <1>9, <1>11, <1>12, Zenon DEF PendingInv, m, n

\* Every step.
LEMMA PendingInvStep ==
  ASSUME Typed, UploadsInv, MutexHeld, SchedInv, UrgentIsMax, PendingInv, [Next]_vars
  PROVE  PendingInv'
<1>1. ASSUME NEW t \in Threads, ScheduleUpload_Lock(t) PROVE PendingInv'
  BY <1>1, ScheduleLockPending, Zenon
<1>2. CASE UploadAsync_Lock  BY <1>2, AsyncLockPending, Zenon
<1>3. CASE (Token' => Token) /\ (Adding' => Adding)
  <2>1. CASE MinKept
    <3>1. m_activeUploads \subseteq Uploads  BY Zenon DEF Typed, FlatOK
    <3>2. Pending' \subseteq Pending  BY <2>1, <3>1, Zenon DEF Pending, MinKept
    <3>3. IsFiniteSet(m_activeUploads')  BY <2>1, Zenon DEF MinKept, PendingInv
    <3> QED BY <1>3, <3>2, <3>3, PendingShrinks, Zenon
  <2>2. ASSUME NEW t \in Threads, FinishUpload(t) PROVE PendingInv'
    <3>1. m_activeUploads' = m_activeUploads \ {arg[t].ctx}  BY <2>2, Zenon DEF FinishUpload, RemoveUpload
    <3>2. m_activeUploads \subseteq Uploads  BY Zenon DEF Typed, FlatOK
    <3>3. \A d \in Uploads : d # arg[t].ctx => uploads'[d] = uploads[d]
      BY <2>2, Zenon DEF FinishUpload, Typed, UploadsOK
    <3>4. Pending' \subseteq Pending  BY <3>1, <3>2, <3>3, Zenon DEF Pending
    <3>5. m_activeUploads' \subseteq m_activeUploads  BY <3>1, Zenon
    <3>6. IsFiniteSet(m_activeUploads')  BY <3>5, FiniteSubset, Zenon DEF PendingInv
    <3> QED BY <1>3, <3>4, <3>6, PendingShrinks, Zenon
  <2>3. ASSUME NEW t \in Threads, HandleEventArrived_Upload(t) PROVE PendingInv'
    <3>1. AddUpload(t, arg[t].lat) /\ arg[t].lat = EventLatency_Max
      BY <2>3, Zenon DEF HandleEventArrived_Upload, UrgentIsMax
    <3>2. IsFiniteSet(m_activeUploads') /\ Pending' \subseteq Pending
      BY <3>1, AddUploadPending, LatencyTypes, Zenon DEF PendingInv
    <3> QED BY <1>3, <3>2, PendingShrinks, Zenon
  <2>4. CASE UploadAsync_Add  BY <1>3, <2>4, AsyncAddPending, Zenon
  <2> QED BY <2>1, <2>2, <2>3, <2>4, MinStep, Zenon
<1> QED BY <1>1, <1>2, <1>3, TokenStep, Zenon

-----------------------------------------------------------------------------
(* The theorems about scheduling. *)

SchedulingInv ==
    /\ MutexHeld
    /\ UrgentIsMax
    /\ NoPauses => SchedInv /\ PendingInv
    /\ NoNormal => NormalInv

\* The constructor establishes it.
LEMMA InitScheduling == Init => SchedulingInv
<1> SUFFICES ASSUME Init PROVE SchedulingInv
  BY Zenon
<1>1. /\ \A t \in Threads : pc[t] = "idle"
      /\ \A c \in Uploads : uploads[c] = FreeUpload
      /\ pc["user"] = "idle" /\ pc["worker"] = "idle"
  BY Zenon DEF Init, Threads
<1>2. FreeUpload.st = "free"  BY Zenon DEF FreeUpload
<1>3. "idle" \notin MutexLabels \cup Locked \cup Picked \cup Pausing \cup Halting
  BY Zenon DEF MutexLabels, Locked, Scheduling, Picked, Pausing, Halting
<1>4. MutexHeld /\ UrgentIsMax  BY <1>1, <1>3, Zenon DEF MutexHeld, UrgentIsMax
<1>5. ~Busy /\ ~Token /\ ~Adding  BY <1>1, <1>3, Zenon DEF Init, Busy, Token, Adding
<1>6. SchedInv
  <2>1. NewIsQuiet  BY <1>1, <1>2, Zenon DEF Init, NewIsQuiet
  <2>2. UserPhase  BY <1>1, <1>3, Zenon DEF Init, UserPhase
  <2>3. HandleKnowsTask  BY <1>1, Zenon DEF Init, HandleKnowsTask
  <2>4. PickedKnown  BY <1>1, <1>3, Zenon DEF PickedKnown
  <2>5. FlagAgrees  BY <1>1, <1>5, Zenon DEF FlagAgrees
  <2>6. AbortedQuiet  BY <1>1, Zenon DEF Init, AbortedQuiet
  <2> QED BY <2>1, <2>2, <2>3, <2>4, <2>5, <2>6, Zenon DEF SchedInv
<1>7. PendingInv
  <2>1. m_activeUploads = {} /\ Pending = {}  BY Zenon DEF Init, Pending
  <2>2. IsFiniteSet(m_activeUploads) /\ Cardinality(Pending) = 0  BY <2>1, SmallSets, Zenon
  <2>3. Cardinality(Pending) <= MaxPendingReq + 1  BY <2>2, ConstantsOK, SMT
  <2> QED BY <1>5, <2>2, <2>3, Zenon DEF PendingInv
<1>8. NormalInv
  <2>1. EventLatency_RealTime # EventLatency_Normal  BY DEF EventLatency_RealTime, EventLatency_Normal
  <2>2. TasksNotNormal  BY <1>1, <1>3, <2>1, Zenon DEF Init, TasksNotNormal, Corrected
  <2>3. UploadsNotNormal  BY <1>1, <1>2, Zenon DEF UploadsNotNormal
  <2> QED BY <2>2, <2>3, Zenon DEF NormalInv
<1> QED BY <1>4, <1>6, <1>7, <1>8, Zenon DEF SchedulingInv

\* Every step preserves it.
LEMMA SchedulingStep == Inv /\ SchedulingInv /\ [Next]_vars => SchedulingInv'
<1> SUFFICES ASSUME Inv, SchedulingInv, [Next]_vars PROVE SchedulingInv'
  BY Zenon
<1>1. Typed /\ UploadsInv /\ TasksApart /\ MutexHeld /\ UrgentIsMax  BY Zenon DEF Inv, SchedulingInv
<1>2. MutexHeld' /\ UrgentIsMax'  BY <1>1, MutexHeldStep, UrgentIsMaxStep, Zenon
<1>3. NoPauses => SchedInv' /\ PendingInv'
  BY <1>1, SchedInvStep, PendingInvStep, Zenon DEF SchedulingInv
<1>4. NoNormal => NormalInv'
  BY <1>1, TasksNotNormalStep, UploadsNotNormalStep, Zenon DEF SchedulingInv, NormalInv, TasksNotNormal
<1> QED BY <1>2, <1>3, <1>4, Zenon DEF SchedulingInv, NoPauses, NoNormal

\* It implies the properties the runs check.
LEMMA SchedulingProperties ==
  ASSUME SchedulingInv
  PROVE  /\ AtMostOneUploadTask
         /\ PendingUploadsBounded
         /\ NegativeFirstTimerStopsNormal
         /\ StopLeavesNoScheduledUploads
<1>1. AtMostOneUploadTask
  <2> SUFFICES ASSUME NoPauses PROVE Cardinality(queued) <= 1
    BY Zenon DEF AtMostOneUploadTask, NoPauses
  <2>1. PICK a : queued \subseteq {a}  BY Zenon DEF SchedulingInv, SchedInv, HandleKnowsTask
  <2>2. queued = {} \/ queued = {a}  BY <2>1, Zenon
  <2>3. Cardinality(queued) = 0 \/ Cardinality(queued) = 1  BY <2>2, SmallSets, Zenon
  <2> QED BY <2>3, SMT
<1>2. PendingUploadsBounded
  BY Zenon DEF PendingUploadsBounded, SchedulingInv, NoPauses, PendingInv, Pending
<1>3. NegativeFirstTimerStopsNormal
  BY Zenon DEF NegativeFirstTimerStopsNormal, SchedulingInv, NoNormal, NormalInv, UploadsNotNormal
<1>4. StopLeavesNoScheduledUploads
  BY Zenon DEF StopLeavesNoScheduledUploads, SchedulingInv, NoPauses, SchedInv, AbortedQuiet
<1> QED BY <1>1, <1>2, <1>3, <1>4, Zenon

\* The whole is inductive, on top of Inv.
THEOREM SchedulingInvariance == Spec => []SchedulingInv
  BY Invariance, InitScheduling, SchedulingStep, PTL DEF Spec

\* The mutex, m_isUploadScheduled and the handle keep scheduleUpload, called from both threads
\* and racing the task it replaces, from ever having two upload tasks in the queue.
THEOREM OneUploadTask == Spec => []AtMostOneUploadTask
  BY SchedulingInvariance, SchedulingProperties, PTL

\* The check of CFG_INT_MAX_PENDING_REQ in scheduleUpload, made long before the upload is
\* added, bounds the uploads in flight for every configured maximum.
THEOREM PendingBounded == Spec => []PendingUploadsBounded
  BY SchedulingInvariance, SchedulingProperties, PTL

\* With negative first timers no Normal upload is started, whichever thread refreshed m_timers
\* and whichever path (a new task, the latency of a task already scheduled) the latency took.
THEOREM NormalStopped == Spec => []NegativeFirstTimerStopsNormal
  BY SchedulingInvariance, SchedulingProperties, PTL

\* After handleStop no upload task is queued, whatever the worker was scheduling or running.
THEOREM StopLeavesNothing == Spec => []StopLeavesNoScheduledUploads
  BY SchedulingInvariance, SchedulingProperties, PTL

=============================================================================
