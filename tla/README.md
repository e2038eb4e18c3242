# A TLA+ model of the 1DS C++ telemetry client

This directory models the event pipeline of the 1DS C/C++ SDK (`src/lib`): an
application logs events, the SDK stores them, and a background thread uploads
them in batches over HTTP, retries what fails, and stops cleanly when the
application shuts down. The models are written in TLA+, checked with TLC on
small instances, and every safety invariant of a passing run is proved with TLAPS
for all values of the constants, with the refinement that shows the worker thread
to be a task dispatcher. `PROJECT.json` maps every definition to
the source lines it stands for.

## 1. The system

### 1.1 Parts and how they interact

| Part | Source (under `src/lib`) | Role |
| --- | --- | --- |
| Logger | `api/Logger.cpp` | Decorates an event and hands it to the log manager. Counts the calls in progress so that shutdown can wait for them. |
| LogManagerImpl | `api/LogManagerImpl.cpp` | Owns all parts. One recursive lock, `m_lock`, serialises the API. |
| LogManagerFactory, C API | `api/LogManagerFactory.cpp`, `api/capi.cpp` | Share instances between clients by name, host and guest; map C handles to instances. |
| TelemetrySystem | `system/TelemetrySystem.cpp`, `TelemetrySystemBase.hpp` | Wires the routes between the parts; start, stop, pause, resume, upload, cleanup. |
| TransmissionPolicyManager | `tpm/TransmissionPolicyManager.cpp` | Decides when to upload and at which priority. |
| TransmitProfiles, DeviceStateHandler | `tpm/` | Upload timers by network cost and power source. |
| Backoff | `backoff/` | Delay after a rejected or failed upload. |
| OfflineStorageHandler | `offline/OfflineStorageHandler.cpp` | A memory cache in front of the disk storage. |
| MemoryStorage, OfflineStorage_SQLite, OfflineStorage_Room | `offline/` | Records, reserved for an upload; on disk for a limited time. |
| StorageObserver | `offline/StorageObserver.cpp` | Connects storage with the routes. |
| KillSwitchManager, ClockSkewManager | `offline/KillSwitchManager.hpp`, `offline/ClockSkewManager.hpp` | Per-tenant shutdown and time correction the collector asks for. |
| Packager, compression, encoder, decoder | `packager/`, `compression/`, `http/HttpRequestEncoder.cpp`, `http/HttpResponseDecoder.cpp` | From records to a request and from a response to an outcome. |
| HttpClientManager | `http/HttpClientManager.cpp` | The requests in flight and the hand-over of responses to the worker. |
| HTTP clients | `http/HttpClient_*.cpp` | Curl, WinInet, WinRT, Apple, Android, C callbacks. |
| WorkerThread, task dispatcher | `pal/WorkerThread.cpp`, `pal/TaskDispatcher.hpp` | Timed tasks on one thread, with cancellation. |
| Statistics | `stats/` | Counts what happens and logs it as an event. |
| Debug events, viewers, filters, levels, tokens | `callbacks/`, `api/DataViewerCollection.cpp`, `filter/`, ... | Guarded collections of what the application registers. |
| Contexts, decorators, serialisation | `api/ContextFieldsProvider.cpp`, `decorators/`, `bond/` | The content of an event. |
| Platform layer, JNI, wrappers | `pal/`, `jni/`, `shared/` | Operating system and language bindings. |

### 1.2 Threads and locks

Application threads enter through `Logger` and `LogManagerImpl`. Almost every
call takes `LogManagerImpl::m_lock` before it reaches the pipeline, so that at
most one application thread is inside the scheduler and the storage at a time;
`LogManagerImpl::Flush` is the exception. The dispatcher's worker thread runs
scheduled uploads, flushes, the statistics event and the responses that
`HttpClientManager` queues for it. The HTTP client calls back on a thread of its
own, which only queues a task. Below `m_lock` there are
`m_scheduledUploadMutex` and `m_activeUploads_lock` (scheduler), `m_flushLock`
(storage handler), two locks of the memory storage, the database's lock, and
`m_lock` and `m_execution_mutex` of the worker thread. Several members are
shared without a lock: the scheduler's atomics and task handle, and the storage
handler's `m_readFromMemory` and `m_lastReadCount`.

The life of an event: `LogEvent` -> `sendEvent` -> store in memory (flushed to
disk when the queue is full) -> `handleEventArrived` schedules a task -> the
worker retrieves and reserves a batch, packages and sends it -> the response is
decoded and the batch is deleted (accepted or rejected) or released (to be
retried), and the next upload is scheduled.

## 2. Modules

| Module | Models | Instances |
| --- | --- | --- |
| `TransmissionPolicyManager` | the scheduler, composed with the system's start/stop/pause/cleanup, the HTTP manager and the task queue | `MCTransmissionPolicyManager`, `tpm_*.cfg` |
| `OfflineStorage` | the storage handler over memory and disk, with uploads, responses, kill switch, shutdown, crash | `MCOfflineStorage`, `os_*.cfg` |
| `TaskDispatcher` | what `ITaskDispatcher` promises: the abstract specification | by `WorkerThread` |
| `WorkerThread` | the dispatcher's thread, queues, locks and sleeps | `MCWorkerThread`, `wt_tasks.cfg` |
| `LogManagerImpl` | loggers, their active calls, and the teardown | `MCLogManagerImpl`, `lm_*.cfg` |
| `LogManagerFactory` | hosts and guests, leases and releases, C handles | `MCLogManagerFactory`, `lmf_*.cfg` |
| `Statistics` | when the SDK's own statistics are sent | `MCStatistics`, `stats_send.cfg` |
| `TransmitProfiles` | the profiles, the selected rule, and who learns of a change | by `DeviceStateHandler` |
| `DeviceStateHandler` | the providers' callbacks and the handlers of several policy managers, composed with the profiles | `MCDeviceStateHandler`, `tp_device.cfg` |
| `TransmissionPolicyManager_proofs`, `WorkerThread_proofs`, `LogManagerImpl_proofs`, `LogManagerFactory_proofs`, `Statistics_proofs`, `DeviceStateHandler_proofs` | theorems about the module of that name | |
| `OfflineStorageSteps_proofs`, `OfflineStorage_proofs` | `OfflineStorage`: the inductive invariant and one lemma per action; the theorems | |

Each module keeps the members' names (`m_isUploadScheduled`, `m_flushPending`,
`m_itemInProgress`, ...). Control inside a function is a label in `pc`, and a
step is what happens between two points at which another thread can interfere:
one critical section, or one access to unprotected shared state. A definition
`Function_Part` is the named part of `Function`.

Definitions whose comment begins with "Mutant:" are faulty variants of the
definition that follows. They are part of no specification; each shows that the
property paired with it in `PROJECT.json` notices that fault.

### 2.1 TransmissionPolicyManager

Two threads: `"user"` (whoever holds `LogManagerImpl::m_lock`) and `"worker"`.
State: the scheduler's members, the upload tasks in the dispatcher's queue and
the one in progress, the upload contexts with their events and outcome, the HTTP
callbacks, the system's state, and the profile with its update flag. Actions:

- `ScheduleUpload` (`scheduleUpload`, five steps under the mutex), `UploadAsync`
  (`uploadAsync`), `Upload` (retrieval, sending, `finishUpload`),
  `HandleEventArrived`, `HandleResponse` (the response task and the outcome
  handlers), `LogEvent`, `EndOfTask`;
- the API calls `Start`, `UploadNow`, `PauseTransmission` (with resume),
  `DeleteData`, `Stop`, each with the whole sequence `TelemetrySystem` runs,
  including `cancelAllRequests` and its spin on the callbacks;
- `SetProfile`, and `OnHttpResponse` for the thread of the HTTP client, which answers
  each request once (`HttpClient_Curl::SendRequestAsync`).

`LogEvent` on the worker is the statistics event. `Statistics` sends it without
`LogManagerImpl::m_lock`, so that it may come while the user's thread stops the
system, and after. `handleCleanup` ends with `allUploadsFinished`, which changes
nothing here: it stops the statistics, and is modelled in `Statistics` (`Cleanup`).

Delays keep only their sign and whether they are zero, because the code
branches on nothing else; a queued task may come due at any moment. The
dispatcher is reduced to what the scheduler uses: a set of queued tasks, the one
in progress, `Cancel` with its wait and time-out.

### 2.2 OfflineStorage

Threads `"user"`, `"worker"` and `"app"` (an application thread in `Flush`). A
record is in `memory`, `reserved`, `buffer` (the local vector of a flush) or
`disk`; `leased` and `retryCount` are columns of the table. Actions follow the
handler's functions: `StoreRecord`, `Flush`, `GetAndReserveRecords`
(`Retrieve_*`), the response handlers (`HandleResponse`, `Scrub_*`,
`DeleteRecords`, `ReleaseRecords`), `DeleteAllRecords_*`, `Shutdown_*`, and
`Restart` (crash at any time, or a new start after a shutdown). `fate` is a
history variable that says what became of a record.

`m_db` says whether the database is open. `Shutdown` closes it, and a later insert
stores nothing, while `StoreRecord` reports success; records taken after shutdown
has started are "late" (`fate`). Trimming is a step after the insert (`DiskResize`),
in its own transaction, only if the application enables it; opening the database trims without
being asked (`Restart`). Which rows go depends on the bytes of the file and is a
free choice. `m_tokenTime` and `m_isRetryAfterActive` are the kill switch's: a
Retry-After holds for all tenants, but `isKilled` asks for it only while some
tenant is killed.

Latency and package size are a free choice of the batch, since the properties do
not depend on which records are eligible. A lease or a kill may have expired
whenever it is looked at. `Applications` lists sets of operations, each standing
for an application that uses just those; this keeps instances small without
leaving an operation out.

### 2.3 WorkerThread

`Queue`, `Cancel`, `Join` and `threadFunc`. Times are relative: `TargetTime[a]`
is the time left, and `Tick` lets the clock move. A running task may itself call
the dispatcher. `m_lock` is a variable only because `Cancel` keeps it while it
waits for `m_execution_mutex`; every other critical section is one step.

`TaskDispatcher` says what is behind all this: a task is new, queued, running, done
or cancelled, one runs at a time, and `Cancel` returns true only for a task that is
kept from running or has returned. `WorkerThread!Promise` instantiates it; `Status`
is the refinement mapping: a task counts as running from the moment the worker has
found it not cancelled (`Begin`), not from the moment it took it out of the queue.

### 2.4 LogManagerImpl

`GetLogger`, `LogEvent` with its nested `ActiveLoggerCall`s, the manager's own
calls, and `FlushAndTeardown` with `RecordShutdown` for each logger, the graveyard
`s_deadLoggers`, and the end of the system. The part of `sendEvent` below
`m_lock` is what the first two modules model.

### 2.5 LogManagerFactory

A module is a `LogManagerBase<Config>` (`Api` "base") or a user of
`LogManagerProvider` by id ("id"); a C client is a configuration, a token or a JSON
text. `Initialize`, `FlushAndTeardown`, `DestroyLogManager`, `MatOpen` and
`MatClose` are the calls; `Lease` and `Release` with their branches are the
factory's functions. Each call is one step: `shared`, `exclusive` and the insertions of
`mat_open_core` have no lock, so that calls made at once would be a data race, and
the model asks about their order. Names are numbers, because `std::map` orders its
pools and `lease` takes the first of them. `MatOpen` probes the handles after the
hash code of the token as the code does, and a token's name contains the handle it
probed, not its hash code. `Applications` are the sets of modules and clients of one
process. Names may be shared: the default configuration has the empty one, so that
all modules that do not name themselves have the same.

### 2.6 Statistics

Two actors: the caller, who holds `LogManagerImpl::m_lock`, and the worker.
`scheduleSend` and `send` are split between each access to `m_isStarted`, the
interval, `m_isScheduled` and the counters, since notifications arrive on both
threads. `Cleanup` (`DeleteData`) is included because it raises
`allUploadsFinished`, to which `Statistics::handleOnStop` is bound. `m_isScheduled`
has any value at first, as in the code. Of the counters only the number of received
events decides what is sent.

### 2.7 TransmitProfiles and DeviceStateHandler

The profiles are static: one set for all log managers of the process. Each call
of the application (`setProfile`, `load`, `parse`, `reset`) is one step per critical
section, a JSON text being abstracted to the profiles it yields and to whether it is
valid. `isTimerUpdateRequired` and `getTimers` are the two looks a policy manager
takes. `DeviceStateHandler` adds the two information providers with their vector of
callbacks, a reporting thread each, and `Start`, `Stop` and
`_UpdateDeviceCondition` of each manager's handler; the reporting thread copies the
vector and calls one handler after the other, while others register and stop.

## 3. Runs

`tlc -config <run>.cfg <module>`; every run ends within five minutes on two
workers.

| Run | Shows |
| --- | --- |
| `tpm_schedule` | With two deferred events and an immediate one and every outcome of an upload, there is at most one upload task (`AtMostOneUploadTask`); a limit of *n* pending requests is exceeded by one upload at most, immediate ones apart (`PendingUploadsBounded`; that it is exceeded is in section 6); a negative first timer keeps Normal events from being asked for. |
| `tpm_pause` | The scheduled flag always has a task behind it and `finishUpload` knows its upload (`ScheduledFlagHasTask`, `FinishKnowsUpload`), also with pause, resume, `DeleteData` and stop, which cancel the task without the mutex. |
| `tpm_live` | Stored events do not stay without an upload going out (`StoredIsUploaded`), every upload completes, every API call returns, and the stop leaves no upload task queued. |
| `tpm_limit` | `StoredIsUploaded` with two events and a limit of two pending requests, so that `scheduleUpload` returns at the limit and the completion of an upload has to come back. |
| `os_records` | Where each record is agrees with what became of it, with leases, kill switch, `DeleteData`, statistics, trimming, shutdown and crash: nothing acknowledged is kept, nothing stored is lost, a killed tenant's records are gone, a clean shutdown saves all. When a lease expires while its request is still running, the record is sent again, and the late answer to the first request releases what the second one leases: the record is still in at most one package more than leases have expired (`InFlightOncePerLease`). |
| `os_shutdown` | Concurrent flushes neither duplicate nor lose a record before the database is closed, a pending flush always has a task, and `Shutdown` ends. |
| `wt_tasks` | A cancelled task is not run, the worker never sleeps past a task, no task starts early, `Join` runs what is due, and `Cancel` and `Join` return; `Dispatches`: the thread implements `TaskDispatcher`, its liveness included, so that every queued task runs or is cancelled. |
| `lm_teardown` | A logger's count of calls is exact, no call meets a manager that was taken apart, and no logger in use is destroyed. |
| `lm_teardown_hangs` | *violation*: `FlushAndTeardown` and a concurrent `LogEvent` wait for each other for ever. |
| `lmf_leases` | Every log manager is in exactly one pool and no pool is empty (`RegistryIsExact`); the pool of guests without a host is there only while there is no host (`AnyHostIsAlone`); where every module has a name of its own and its release finds its lease, an instance lives exactly as long as somebody holds it, and the names in its pool are those of its holders (`OwnersCounted`). |
| `stats_send` | While the system runs no second send task is made (`AtMostOneSend`) and the flag is not left set without one (`FlagHasTask`); what is counted is sent (`CountedIsSent`); after the stop a missed task runs, and no other follows (`StopIsFinal`). |
| `tp_device` | The selected rule is the one the selected profile has for the known state of the device (`RuleFitsDevice`); the manager that consumed the update flag has the timers of that rule (`ReadTimersAreCurrent`); a stop ends the callbacks of this handler and of no other (`StopEndsItsCallbacks`). |

The violation is a behaviour of the code that contradicts a sentence in the
repository; `PROJECT.json` quotes it under "findings". TLC prints a lasso that ends
in both threads waiting. Section 6 lists the other statements that do not hold.

### 3.1 Bounds

- Scheduler: one to three events, two to four task addresses, two to four upload
  contexts. A task or a context is reused once it is finished, so these bound how
  many exist at once, not how many there are in a behaviour. Two uploads and two
  tasks are enough for each pair of conflicting steps; four leave room for the
  orphan tasks that pause creates. `MaxQueued` keeps a pause from beginning while
  more than that many upload tasks are queued; without it orphans accumulate
  without limit. With 0, an orphan can still be created by the pause itself.
  `tpm_limit` has timers that are equal, so that every upload asks for the events
  there are, and three contexts for a limit of two.
- Storage: two records of different tenants and one lease expiry. `MemoryLimit` 0
  makes every second store ask for a flush. A retry limit of 1 is reached. `os_records`
  has three upload contexts: one whose lease has expired, one that took the record
  after it, and one that must not. `os_shutdown`, which is about flushes, has one.
- Worker: three tasks, delays on both sides of the clamp `MAX_FUTURE_DELTA_MS`,
  and one tick between the look at the queue and the wait (`MaxDrift`).
- Teardown: three threads and two loggers, so that one thread tears down, one is
  between two calls, and one gets a logger late.
- Factory: five applications, each of up to five modules and C clients: two hosts, a
  guest of any host, one by id, two exclusive ones of the same name, two tokens with the same hash code
  and a JSON guest of a host that may be missing. An instance that was destroyed may
  be created again, so that four are enough for every sequence of calls; nothing bounds its length.
- Statistics: three tasks (one running, one queued, one that a stop has missed) and
  `MaxCalls` = 3 notifications, deletions and changes of the interval.
- Profiles: two managers, so that one stops while the other runs; `MaxCalls` = 4
  calls of the application, reports and looks at the timers in all; a list with too many
  profiles, one with an empty profile and a valid one; rules for
  one network cost, for any, and for a cost and a power source together; the profile for
  metered networks only has states of the device that no rule fits.

Symmetry is used over task addresses, upload contexts, threads, loggers, instances and managers, and only in runs that
check no liveness property.

Deadlock is checked except in five runs: in `wt_tasks` the system stops when the
thread has been joined, in `stats_send` and `tp_device` when it has been shut down or
the calls are used up; in the two runs of `LogManagerImpl` the teardown hang is a
deadlock, and it is stated as `TeardownCompletes`.

### 3.2 Fairness

- A thread inside the library keeps running. Where it waits for a mutex that other
  threads take and release again and again, fairness is strong: the operating
  system's mutexes do not starve a thread for ever. Where nothing can disable the
  step, it is weak.
- The worker takes from its queue in the order of time, so it passes over neither
  upload nor response tasks for ever (strong fairness of picking each kind in
  `TransmissionPolicyManager`; in `WorkerThread`, where the queue itself is
  modelled, only `Pick` needs it).
- Every HTTP request is answered, at least by a time-out or an abort, and each
  answer is handled: one response task does not overtake another for ever.
- In `Statistics` the caller finishes a call it has begun and the worker runs a task
  that has come due (both weak); neither is blocked by the other there.
- `StoredIsUploaded` also needs that compression does not fail for ever.
- No fairness is assumed of the application: it may stop calling at any time.

## 4. Proofs

`tlapm <module>` checks all of them; nothing is assumed but the named assumptions
on the constants (`ConstantsOK`, `ThreadAssumption`, `DelayAssumption`,
`TaskAssumption`, `ProfileAssumption`, `HandlerAssumption`). Those of `OfflineStorage` say
that there are finitely many records and uploads at once, which is what a memory and a disk
can hold.

**Scheduler** (`TransmissionPolicyManager_proofs`), for every set of events, tasks,
uploads and profiles, every limit and every choice of operations:
`TypeCorrect`, `FinishKnowsUploadHolds`, `ScheduledFlagHasTaskHolds`. The inductive
invariant `Inv` adds to the two properties:

- `InUseIsActive`: a context that is in use is in `m_activeUploads`. Without it the
  response handler could call `finishUpload` for a context nobody registered.
- `TasksApart`: a task is in the queue, or in the worker's hands, or a response
  task, never in two places. Without it a cancellation could erase another task
  than the one the flag stands for.
- `SkippedByStop`: the worker finds its picked task cancelled only while
  `handleStop` is about to reset the flag, or has done so for good. This is the
  case in which neither a queued nor a picked task will reset the flag.

Each conjunct has its own chain of lemmas, one per action; `Invariance` puts them
together.

`OneUploadTask`, `PendingBounded`, `NormalStopped` and `StopLeavesNothing` rest on a
second invariant, `SchedulingInv`, on top of `Inv`:

- `MutexHeld`: which control points are under `m_scheduledUploadMutex`.
- `SchedInv`, for applications that neither pause nor clean up: the flag, the handle
  and the queue agree. The one queued task is the one in the handle, or about to be
  assigned to it (`HandleKnowsTask`), so that `cancelUploadTask` cannot miss it; the
  task the worker has picked is known as well, until the stop drops it
  (`PickedKnown`); a task whose flag was reset is left only by the stop, and then
  nobody is scheduling (`FlagAgrees`); from the abort under the mutex on nothing is queued
  (`AbortedQuiet`). Pause and cleanup cancel without the mutex and break
  this, which is why `AtMostOneUploadTask`, `PendingUploadsBounded` and
  `StopLeavesNoScheduledUploads` exclude them.
- `PendingInv`: the maximum is checked when an upload is scheduled and the upload is
  added much later, when another check may have passed. At most two such claims
  exist at once: the worker about to add (`Adding`), and a task or a thread that will make
  one (`Token`). Each still has its place below *n* + 1.
- `NormalInv`, for negative first timers: no task, no caller past the correction in
  `scheduleUpload`, and no upload context carries the latency Normal.

The library's facts about cardinality enter through an `INSTANCE` in front of the
lemmas that need them: extended at the top, they would make each step of this module slower.

**Storage** (`OfflineStorageSteps_proofs`, `OfflineStorage_proofs`), for any finite set of
records, any tenants and upload contexts, any limits and any sets of operations:
`TypesHold`, `OneCopy`, `NothingLost`, `OnePackage`, `OneReaderSafe`, `KilledGone`,
`ShutdownSaves`, `PendingHolds`. The invariant consists of

- `Control`: the types; who holds `m_flushLock`; that a thread in a retrieval or a
  response has its context to itself (`Contexts`); and which thread can be where, with the
  user's thread in `Shutdown` from its first step to the end (`Phases`).
- `Places`: `AtMostOneCopy` and `NoRecordLost` together, with the ownership of
  Flush's buffer and that a record being stored is nowhere yet (`Fresh`). Neither is
  inductive alone: without the ownership, for one, a flush could put a second copy on the disk.
- `Held`: until a lease expires, a packaged record is not free on disk, and a reservation
  in memory is in one package.
- `Saved`: what the shutdown has emptied when it reaches its own flush.
- `Scrubbed`: what each stage of the scrub has removed. Application threads that flush
  or upload would carry records from a stage ahead of it to one behind.
- `Settled`: with one reader, where the records of a package are follows from
  `m_readFromMemory` and the counts at each stage of a retrieval (`Located`), and from
  `fromMemory` afterwards.

Each action has one lemma (`<Action>_Keeps`) for the whole invariant. `OnePackage` needs a
second invariant, `Counted`: a record that is free on disk has room for one package more.
A late answer that releases another upload's lease makes a record free, and closes
its own package in the same step. The modules are two because only the second, which counts
packages and expired leases, needs the theorems about finite sets.

**Teardown** (`LogManagerImpl_proofs`), for any finite set of threads and any set of
loggers: `ActiveCountExact`, `CallsSeeLive`, `KnownLoggersAlwaysExist`,
`TypeCorrect`. `Inv` adds:

- `LockInv`: who holds `m_lock` is told by the labels, so a sender and a teardown
  exclude each other.
- `LifeInv`: how far the teardown has come determines which of `m_loggers`,
  `m_system` and `m_alive` are gone, in the order of the code.
- `DeadInv`: a logger that was shut down has no caller, unless the teardown is
  still waiting for it. With `ActiveCountIsExact` this turns "the count is zero"
  into "nobody is inside", which is what `CallsSeeLiveManager` needs.
- `CallsKnown`: a thread only calls loggers it was given.

The counting rests on lemma `Move`: when one thread moves, the cardinality of a
set of threads defined by their position changes by what that thread contributes.

**Dispatcher** (`WorkerThread_proofs`), for any tasks, threads
and delays: `TypeCorrect`, `CancelledAlwaysIdle`, and `Implements`, that is
`Spec => Promise!Spec`: the safety part of the refinement. `WInv` consists of

- `Queues`: both queues hold a task once, before it is run or cancelled, never the
  one the worker has, and the timer queue is sorted. The first lemmas show that
  inserting by time and erasing keep this.
- `Progress`: what `m_itemInProgress` says at each place of the worker. The case that
  matters is a task taken but not begun: it is either announced and not cancelled, or
  cancelled and not announced, so that `Begin` cannot miss a cancellation.
- `Waiting`: a thread that waits in `Cancel` holds `m_lock`, and what it waits for is
  in progress or is over.

`NeverEarly`, `SleepAlwaysEndsInTime` and `JoinAlwaysRunsDueTasks` follow. `Timing` relates the time a task has yet to wait to its
entry in the queue. `Sleep` says that what the worker has seen before it sleeps
remains true until the event is set. `Owing` says which due tasks are still ahead of
the shutdown item.

**Factory** (`LogManagerFactory_proofs`), for any modules, names, hosts and clients:
`RegistryAlwaysExact` and `AnyHostAlwaysAlone` together are inductive (`RInv`): rehoming
moves the one pool there is, and this needs that the pool is alone. `OwnersAlwaysCounted`
rests on `OInv`: a module holds exactly the instance of the
pool in which its name is. It is inductive for applications whose modules are all `Counted`
and have names of their own (`NamesApart`), and both are premises of the property, not
assumptions: without the one a C guest, without the other two modules of one name violate it
(section 6).

**Statistics** (`Statistics_proofs`): `TypeCorrect`, `AlwaysOneSend`,
`FlagAlwaysHasTask`. `Starting` says that there are no tasks before the start,
`Stopping` where the caller may be while `m_isStarted` is set, `Running` that the
worker's place and the running task agree; with them `Scheduled`, the two
properties together, is inductive.

**Profiles and device** (`DeviceStateHandler_proofs`), for any profiles, lists, rules,
managers and states: `RuleAlwaysFitsDevice`, `ReadTimersAlwaysCurrent`,
`StopAlwaysEndsItsCallbacks`. `PInv` adds `Loaded`, that the default profiles stay in
the map, and that no call goes on before they are there. `CInv` adds where a handler
is registered while it starts, runs and stops (`Registered`), and that the local
copy of a reporting thread agrees with the vector except for slots cleared
since (`Calling`).

**Types.** `TypeOK` is proved in each of these modules (`TypeCorrect`, in the storage
`TypesHold`), for the factory and the device state on top of the invariants above.

**Only model-checked.** All liveness properties (`StoredIsUploaded`,
`UploadsComplete`, `CallsReturn`, `ShutdownCompletes`, `CountedIsSent`,
`StopIsFinal`, and the fairness in `Dispatches`): fairness is outside what TLAPS
proves.

## 5. What the models assume

- The scheduler's response handlers run on the worker (`HttpClientManager` queues
  them everywhere but on Windows, where they run on the client's thread).
- `Shutdown` of the storage begins when no upload is active. The stop sequence
  establishes this except after a cancel time-out (`StopWaitsForUploads` in section 6).
- A task address is used for one task at a time, and `HeapReuses` says whether a
  response task may get the address of a finished upload task (FALSE in all runs).
- A system that was stopped is not started again.
- Calls of the factory and of `mat_open_core` are made one at a time.

## 6. Limits the models show

No run claims these statements; each can be seen to fail by changing a configuration
or dropping a condition. The first table has those that a line of the repository makes,
the second those that none does.

| Statement | Change | What the code does | What is written (paths under `src`) |
| --- | --- | --- | --- |
| `StoredIsUploaded` | `MaxPendingReq = 1` in `tpm_live` | At the limit `scheduleUpload` returns (TransmissionPolicyManager.cpp:92). The one upload that counts may just have found nothing, and `handleNothingToUpload` for Normal events schedules nothing (lines 348-351): an event that arrived in between waits for the next one. | lib/tpm/TransmissionPolicyManager.cpp:121-123: "the completion of upload will schedule more uploads as-needed" |
| `PendingRequestsWithinLimit` | as INVARIANT of `tpm_schedule` | `uploadAsync` resets `m_isUploadScheduled` (TransmissionPolicyManager.cpp:155) before it adds its upload (line 184), so that another one passes the check in between; uploads of `EventLatency_Max` events (lines 295-300) are not compared with the limit at all. | lib/include/public/ILogConfiguration.hpp:188: "The maximum number of pending HTTP requests."; lib/include/public/LogConfiguration.hpp:79: "Maximum number of HTTP requests posted to HTTP stack." |
| `NegativeThirdTimerStopsAllButMax` | as INVARIANT of `tpm_schedule`, with `Profiles <- OnlyMaxProfile` | Only `handleEventArrived` sets `m_timerdelay` (TransmissionPolicyManager.cpp:306-308), when it finds the update flag set; `handleStart` has consumed the flag and schedules an upload of RealTime events. | docs/custom-transmit-profile.md:78: "If the third timer value is negative, only `EventLatency_Max` events will be uploaded." |
| `StopWaitsForUploads` | as INVARIANT of `tpm_live` | When the bounded wait of `cancelUploadTask` times out (TransmissionPolicyManager.cpp:247), the task may add its upload (line 184) after `uploadCount()` was found to be zero (line 251). | lib/tpm/TransmissionPolicyManager.cpp:246: "Make sure we wait for completion of the upload scheduling task that may be running"; line 234: "Wait for all pending uploads to complete." |
| `DeliveredIsGone` | as INVARIANT of `os_records`, with `Applications <- TwoReaders` | `m_readFromMemory` and `m_lastReadCount` are set without a lock (OfflineStorageHandler.cpp:299), and an immediate upload on the user's thread retrieves at the same time as the worker: `DeleteRecords` looks in the wrong storage and what the collector has accepted stays. | lib/offline/MemoryStorage.cpp:192: "This routine assumes that there is only one reader."; lib/include/public/IOfflineStorage.hpp:245: "Delete records with specified IDs" |
| `AcceptedIsStored` | as INVARIANT of `os_shutdown` | After shutdown has started `StoreRecord` does not look at the result of the insert and returns true (OfflineStorageHandler.cpp:249-254); once the database is closed the record is nowhere. | lib/include/public/IOfflineStorage.hpp:174: "Whether the record was successfully stored" |
| `TrimmedOnlyIfEnabled` | as PROPERTY of `os_shutdown` | `initializeDatabase` ends with `ResizeDb` (OfflineStorage_SQLite.cpp:848), whatever the setting. | docs/Offline-storage-settings.md:12: "When set to true, trim events if cache size reaches CFG_INT_CACHE_FILE_SIZE" |
| `HeldIsAlive` | as INVARIANT of `lmf_leases` | Exclusive modules of one name share an instance without a count of owners, and the first release destroys it (LogManagerFactory.cpp:200). | docs/LogManagerProvider.md:28: "All exclusive log managers with the same name (including the default blank name) are the same log manager (so they are, so to speak, shared)"; lib/api/LogManagerFactory.cpp:213: "Last owner is gone, destroy LM" |
| `LastOwnerDestroys` | as INVARIANT of `lmf_leases` | `mat_close` releases the name of the instance's creator (capi.cpp:290): when a C guest closes after its host, its own name stays in the pool, and the instance with it. | lib/api/LogManagerFactory.cpp:182: "Last owner is gone, destroy" |

| Statement | Change | What happens |
| --- | --- | --- |
| `PausedSendsNothing` | as PROPERTY of `tpm_pause` | `uploadAsync` has looked at `m_isPaused` (TransmissionPolicyManager.cpp:156) when `PauseTransmission` returns, and sends its request afterwards. `ILogManager.hpp:65` says no more than that transmission is paused. |
| `DeviceStateIsCurrent` | as INVARIANT of `tp_device` | A handler reads the state before it registers for changes (DeviceStateHandler.cpp:34, 39), and threads that hand over a pair (line 144) overtake each other: an old pair stays in force until the next change. |
| `StopEndsItsCallbacks` | without its last condition | The token of the first registration is 0, and `UnRegister` only looks at positive ones (InformationProviderImpl.cpp:47): this handler is called for ever. |
| `ReadTimersAreCurrent` | for every manager instead of the last reader | The flag is one for the process (TransmitProfiles.cpp:496): the other managers keep their old timers. |
| `AtMostOneSend` | without `m_isStarted` | `handleOnStop` cancels through the handle while `scheduleSend` has queued the task and not stored its handle (Statistics.cpp:43): that task runs after the stop. |
| `FlagHasTask` | without `cleared` | `m_isScheduled` is not initialised: switched on after the start, the statistics may never be sent. |
| `StopLeavesNoScheduledUploads` | without its condition, as INVARIANT of `tpm_pause` | The task whose handle a concurrent pause overwrote stays in the queue. |
| `CallsReturn` | `CancelTimesOut = FALSE` in `tpm_live` | With an infinite cancel wait (`UPLOAD_TASK_CANCEL_TIME_MS`), `handleStop` waits for a task that waits for the dispatcher's lock: TLC reports the deadlock. |
| `CancelHitsOnlyUploadTasks` | `HeapReuses = TRUE` in `tpm_schedule` | A stale handle cancels a response task. |
| `InFlightOncePerLease` | for all records, and `Oversized = {r1}` in `os_records` | A first event above the package limit is sent without being reserved, and is sent again. |
| `KilledIsGone` | without its condition, `Applications` with `"Kill"` and `"Flush"`, or `"Immediate"` | A killed tenant's record in the buffer of a flush on another thread reaches the disk after the scrub; one that an immediate upload holds is reserved behind it. |

## 7. Not modelled

- **Storage**: SQL errors other than a closed database, its recreation, the check of
  `m_db` before the lock against a concurrent `Shutdown`, the settings table, a
  configuration without RAM queue, the order in which records are selected and
  trimmed, the duration of a kill, clock skew, persistence classes.
- **Log manager**: event listeners and inspectors, which run application code;
  `Logger` methods other than `LogEvent` (they follow the same protocol);
  `LogManagerImpl::Flush` against a teardown.
- **Statistics**: the counters per tenant, latency and reason (sums of data), and
  what the event contains.
- **Profiles**: the JSON syntax, `dump`, and the Windows power and network callbacks,
  which reach the same `OnChanged`.
- **Factory**: `CFG_BOOL_HOST_MODE`; the C API's other calls, which pass the instance
  on; handles used by one thread while another closes them.
- **Backoff**: an arithmetic of delays; the scheduler takes any delay.
- **Task dispatcher of the C API, C API HTTP client, Room storage**: they hand their
  work to callbacks of the application or to Java; `TaskDispatcher` states what the
  SDK expects of the first.
- Pure I/O, byte formatting, JNI, language wrappers and the platform information
  classes stay out for good.

Most of the lines under `src` are not the SDK's pipeline: the SQLite amalgamations,
zlib, googletest and the single-header JSON library, generated Bond readers and
writers, wrappers for other languages, tests and examples. What the map covers is a
small share of all lines for this reason; it covers most of the code with
concurrency in `src/lib/tpm`, `src/lib/stats`, `src/lib/pal/WorkerThread.cpp`,
`src/lib/offline` and `src/lib/api/LogManagerFactory.cpp`.

What would add most: an abstract specification of the pipeline (a record is stored,
in flight, gone) that `OfflineStorage` with one reader implements; SQL errors and persistence
classes there; a liveness run of the scheduler with two profiles.
