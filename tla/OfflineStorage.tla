---------------------------- MODULE OfflineStorage ----------------------------
(***************************************************************************)
(* Where a record is, from StoreRecord to its acknowledgement: the memory  *)
(* queue (lib/offline/MemoryStorage.cpp) in front of the disk table        *)
(* (OfflineStorage_SQLite.cpp), the handler that joins them                *)
(* (OfflineStorageHandler.cpp), the uploads that reserve records and give  *)
(* them back (StorageObserver.cpp, Packager.cpp), the collector's kill     *)
(* switch (KillSwitchManager.hpp), shutdown, crash and restart.            *)
(*                                                                         *)
(* Three threads run this code.  "user" is the application thread inside   *)
(* LogManagerImpl::m_lock: it stores records, uploads those of             *)
(* EventLatency_Max at once, deletes all data and shuts down.  "worker" is *)
(* the dispatcher's thread: scheduled flushes and uploads, responses,      *)
(* Statistics records.  "app" is an application thread in                  *)
(* LogManagerImpl::Flush, which does not take m_lock.  A step is one       *)
(* critical section of the storages' own locks, or one group of accesses   *)
(* to the handler's members, which no lock protects.                       *)
(*                                                                         *)
(* Sizes in bytes are left out.  The memory queue counts records; whether  *)
(* the database file is over its limit, and how many rows are then         *)
(* trimmed, is a free choice.  Which records are eligible for an upload    *)
(* (latency) and how many fit (package size) is a free choice of a batch,  *)
(* except for a record that alone exceeds the package limit.  A lease or a *)
(* kill may have expired whenever it is looked at.                         *)
(***************************************************************************)
EXTENDS Integers, FiniteSets

CONSTANTS
    Records,        \* record ids
    Tenant,         \* the tenant of each record
    Oversized,      \* records that do not fit in a package even as its first event
    Uploads,        \* EventsUploadContext objects
    NoUpload,       \* no upload context
    NoRecord,       \* no record
    MemoryLimit,    \* CFG_INT_RAM_QUEUE_SIZE, in records
    MaxRetryCount,  \* CFG_INT_TPM_MAX_RETRY
    MaxExpired,     \* bound on lease expirations
    Applications    \* the sets of operations and settings an application may use

Tenants == {Tenant[r] : r \in Records}

ASSUME ConstantsOK ==
    /\ IsFiniteSet(Records) /\ IsFiniteSet(Uploads)
    /\ DOMAIN Tenant = Records
    /\ Oversized \subseteq Records
    /\ NoUpload \notin Uploads
    /\ NoRecord \notin Records
    /\ MemoryLimit \in Nat
    /\ MaxRetryCount \in Nat
    /\ MaxExpired \in Nat

VARIABLES
    ops,                \* the operations and settings this application uses
    memory,             \* MemoryStorage::m_records
    reserved,           \* MemoryStorage::m_reserved_records
    memoryReadCount,    \* MemoryStorage::m_lastReadCount
    disk,               \* the ids of the events table
    leased,             \* those with reserved_until <> 0
    retryCount,         \* their retry_count
    diskReadCount,      \* OfflineStorage_SQLite::m_lastReadCount
    m_db,               \* OfflineStorage_SQLite: the database is open
    buffer,             \* Flush's local vector of records
    flushLock,          \* the thread that holds m_flushLock, or "none"
    m_flushPending,
    flushTask,          \* a Flush task is in the worker's queue
    m_flushComplete,    \* the event is set
    m_readFromMemory, m_lastReadCount, m_shutdownStarted,
    m_tokenTime,        \* KillSwitchManager: killed tenants
    m_isRetryAfterActive,
    uploads,            \* the upload contexts
    pc, arg,            \* per thread: control point and live arguments
    expirations,        \* leases expired so far (bounded)
    fate                \* what became of each record, for the properties

memoryVars == <<memory, reserved, memoryReadCount>>
diskVars == <<disk, leased, retryCount, diskReadCount, expirations, m_db>>
flushVars == <<buffer, flushLock, m_flushPending, flushTask, m_flushComplete>>
readVars == <<m_readFromMemory, m_lastReadCount>>
killVars == <<m_tokenTime, m_isRetryAfterActive>>
vars == <<ops, memoryVars, diskVars, flushVars, readVars, m_shutdownStarted, killVars,
          uploads, pc, arg, fate>>

Threads == {"user", "worker", "app"}

NoArg == [rec |-> NoRecord, full |-> FALSE, ctx |-> NoUpload, keys |-> {}, cont |-> "idle"]
FreeUpload == [st |-> "free", ids |-> {}, fromMemory |-> FALSE]

Goto(t, label) == pc' = [pc EXCEPT ![t] = label]

Return(t) ==
    /\ Goto(t, arg[t].cont)
    /\ arg' = [arg EXCEPT ![t] = NoArg]

\* Fates of a record that a storage is to keep: StoreRecord is running, has returned, or has
\* returned after shutdown had started; a kill switch is to scrub it.
Kept == {"storing", "live", "late", "doomed"}

\* The records of a set meet their fate; others, and those whose fate is sealed, keep theirs.
Seal(S, f) == fate' = [r \in Records |-> IF r \in S /\ fate[r] \in Kept THEN f ELSE fate[r]]

-----------------------------------------------------------------------------
(* StoreRecord *)

\* isKilled: a Retry-After blocks every tenant, but is asked for only while some tenant is killed.
IsKilled(r) == m_tokenTime # {} /\ (m_isRetryAfterActive \/ Tenant[r] \in m_tokenTime)

\* isTokenBlocked says yes; a Retry-After that has expired is forgotten before the kill is looked up.
Blocked(r) ==
    /\ IsKilled(r)
    /\ \/ m_isRetryAfterActive /\ UNCHANGED killVars
       \/ /\ Tenant[r] \in m_tokenTime
          /\ m_isRetryAfterActive => "KillExpires" \in ops
          /\ m_isRetryAfterActive' = FALSE
          /\ UNCHANGED m_tokenTime

\* isKilled says no; what has expired is forgotten.
Admitted(r) ==
    /\ IsKilled(r) => "KillExpires" \in ops
    /\ IF m_tokenTime = {}
       THEN UNCHANGED killVars
       ELSE m_isRetryAfterActive' = FALSE /\ m_tokenTime' = m_tokenTime \ {Tenant[r]}

\* The early return for a killed tenant, and the size of the queue before the record is added.
StoreRecord(t, r) ==
    /\ pc[t] = "idle"
    /\ t = "user" \/ (t = "worker" /\ "Statistics" \in ops)
    /\ fate[r] = "new"
    /\ \/ /\ ~m_shutdownStarted /\ Blocked(r)
          /\ fate' = [fate EXCEPT ![r] = "dropped"]
          /\ UNCHANGED <<pc, arg>>
       \/ /\ IF m_shutdownStarted THEN UNCHANGED killVars ELSE Admitted(r)
          /\ arg' = [arg EXCEPT ![t].rec = r, ![t].full = Cardinality(memory) > MemoryLimit]
          /\ Goto(t, IF m_shutdownStarted THEN "st_disk" ELSE "st_memory")
          /\ fate' = [fate EXCEPT ![r] = "storing"]
    /\ UNCHANGED <<ops, memoryVars, diskVars, flushVars, readVars, m_shutdownStarted, uploads>>

StoreRecord_Memory(t) ==
    LET r == arg[t].rec
    IN  /\ pc[t] = "st_memory"
        /\ memory' = memory \cup {r}
        /\ Goto(t, IF arg[t].full THEN "st_flush" ELSE "st_end")
        /\ UNCHANGED <<ops, reserved, memoryReadCount, diskVars, flushVars, readVars,
                       m_shutdownStarted, killVars, uploads, arg, fate>>

\* m_flushLock.try_lock(): while a flush is running none is requested.
StoreRecord_RequestFlush(t) ==
    /\ pc[t] = "st_flush"
    /\ IF flushLock = "none" /\ ~m_flushPending
       THEN m_flushPending' = TRUE /\ m_flushComplete' = FALSE /\ flushTask' = TRUE
       ELSE UNCHANGED <<m_flushPending, m_flushComplete, flushTask>>
    /\ Goto(t, "st_end")
    /\ UNCHANGED <<ops, memoryVars, diskVars, buffer, flushLock, readVars, m_shutdownStarted,
                   killVars, uploads, arg, fate>>

\* StoreRecord returns true: from now on the storage answers for the record.
StoreRecord_End(t) ==
    /\ pc[t] = "st_end"
    /\ fate' = [fate EXCEPT ![arg[t].rec] =
                   IF @ # "storing" THEN @ ELSE IF m_shutdownStarted THEN "late" ELSE "live"]
    /\ Return(t)
    /\ UNCHANGED <<ops, memoryVars, diskVars, flushVars, readVars, m_shutdownStarted,
                   killVars, uploads>>

-----------------------------------------------------------------------------
(* The disk table *)

\* The insert, one transaction.  A database that is closed stores nothing.
DiskStoreRecord(r) ==
    /\ IF m_db
       THEN disk' = disk \cup {r} /\ retryCount' = [retryCount EXCEPT ![r] = 0]
       ELSE UNCHANGED <<disk, retryCount>>
    /\ UNCHANGED <<leased, diskReadCount, expirations, m_db, fate>>

\* ResizeDb of a file over its limit deletes the oldest quarter of the least persistent rows, or
\* all of them, leased rows or not.  (m_DbSizeEstimate is in bytes, and deleting rows does not
\* lower it: a free choice.)
ResizeDb ==
    \E trimmed \in SUBSET disk :
        /\ disk' = disk \ trimmed
        /\ leased' = leased \ trimmed
        /\ Seal(trimmed, "dropped")
        /\ UNCHANGED <<retryCount, diskReadCount, expirations, m_db>>

\* After the insert, in a transaction of its own: with CFG_BOOL_ENABLE_DB_DROP_IF_FULL, and unless
\* another thread is at it, the table is trimmed.
DiskResize ==
    IF "DropIfFull" \in ops /\ m_db THEN ResizeDb ELSE UNCHANGED <<diskVars, fate>>

\* After shutdown has started a record goes straight to disk; the result is not looked at.
StoreRecord_Disk(t) ==
    /\ pc[t] = "st_disk"
    /\ DiskStoreRecord(arg[t].rec)
    /\ Goto(t, IF m_db THEN "st_resize" ELSE "st_end")
    /\ UNCHANGED <<ops, memoryVars, flushVars, readVars, m_shutdownStarted, killVars,
                   uploads, arg>>

StoreRecord_Resize(t) ==
    /\ pc[t] = "st_resize"
    /\ DiskResize
    /\ Goto(t, "st_end")
    /\ UNCHANGED <<ops, memoryVars, flushVars, readVars, m_shutdownStarted, killVars,
                   uploads, arg>>

-----------------------------------------------------------------------------
(* Flush: on the worker as a task, on an application thread, or in Shutdown *)

\* Mutant: a flush that meets another one returns at once.
Flush_Lock_Try(t) ==
    /\ pc[t] = "fl_lock"
    /\ flushTask' = FALSE
    /\ IF flushLock = "none"
       THEN flushLock' = t /\ Goto(t, "fl_take") /\ UNCHANGED arg
       ELSE Return(t) /\ UNCHANGED flushLock
    /\ UNCHANGED <<ops, memoryVars, diskVars, buffer, m_flushPending, m_flushComplete, readVars,
                   m_shutdownStarted, killVars, uploads, fate>>

Flush_Lock(t) ==
    /\ pc[t] = "fl_lock"
    /\ flushLock = "none"
    /\ flushLock' = t
    /\ flushTask' = FALSE                   \* m_flushHandle.Cancel()
    /\ Goto(t, "fl_take")
    /\ UNCHANGED <<ops, memoryVars, diskVars, buffer, m_flushPending, m_flushComplete, readVars,
                   m_shutdownStarted, killVars, uploads, arg, fate>>

\* Mutant: reserved records are flushed as well.
Flush_Take_Reserved(t) ==
    /\ pc[t] = "fl_take"
    /\ buffer' = memory \cup reserved
    /\ memory' = {}
    /\ memoryReadCount' = IF memory = {} THEN memoryReadCount ELSE 1
    /\ Goto(t, "fl_store")
    /\ UNCHANGED <<ops, reserved, diskVars, flushLock, m_flushPending, flushTask,
                   m_flushComplete, readVars, m_shutdownStarted, killVars, uploads, arg, fate>>

\* MemoryStorage::GetRecords empties the queue; reserved records stay.
Flush_Take(t) ==
    /\ pc[t] = "fl_take"
    /\ buffer' = memory
    /\ memory' = {}
    /\ memoryReadCount' = IF memory = {} THEN memoryReadCount ELSE 1
    /\ Goto(t, "fl_store")
    /\ UNCHANGED <<ops, reserved, diskVars, flushLock, m_flushPending, flushTask,
                   m_flushComplete, readVars, m_shutdownStarted, killVars, uploads, arg, fate>>

\* StoreRecords, one at a time.  What a closed database does not store is gone with the buffer.
Flush_Store(t) ==
    /\ pc[t] = "fl_store"
    /\ \E r \in buffer : DiskStoreRecord(r) /\ buffer' = buffer \ {r}
    /\ Goto(t, IF m_db THEN "fl_resize" ELSE "fl_store")
    /\ UNCHANGED <<ops, memoryVars, flushLock, m_flushPending, flushTask, m_flushComplete,
                   readVars, m_shutdownStarted, killVars, uploads, arg>>

Flush_Resize(t) ==
    /\ pc[t] = "fl_resize"
    /\ DiskResize
    /\ Goto(t, "fl_store")
    /\ UNCHANGED <<ops, memoryVars, flushVars, readVars, m_shutdownStarted, killVars,
                   uploads, arg>>

\* Mutant: the waiters are not told.
Flush_End_NoPost(t) ==
    /\ pc[t] = "fl_store"
    /\ buffer = {}
    /\ m_flushPending' = FALSE
    /\ flushLock' = "none"
    /\ Return(t)
    /\ UNCHANGED <<ops, memoryVars, diskVars, buffer, flushTask, m_flushComplete, readVars,
                   m_shutdownStarted, killVars, uploads, fate>>

\* Mutant: m_flushPending stays set.
Flush_End_Pending(t) ==
    /\ pc[t] = "fl_store"
    /\ buffer = {}
    /\ m_flushComplete' = TRUE
    /\ flushLock' = "none"
    /\ Return(t)
    /\ UNCHANGED <<ops, memoryVars, diskVars, buffer, m_flushPending, flushTask, readVars,
                   m_shutdownStarted, killVars, uploads, fate>>

Flush_End(t) ==
    /\ pc[t] = "fl_store"
    /\ buffer = {}
    /\ m_flushComplete' = TRUE
    /\ m_flushPending' = FALSE
    /\ flushLock' = "none"
    /\ Return(t)
    /\ UNCHANGED <<ops, memoryVars, diskVars, buffer, flushTask, readVars, m_shutdownStarted,
                   killVars, uploads, fate>>

\* The worker starts the scheduled task; an application calls Flush.
Flush_Begin(t) ==
    /\ pc[t] = "idle"
    /\ \/ t = "worker" /\ flushTask /\ flushTask' = FALSE
       \/ t = "app" /\ "Flush" \in ops /\ UNCHANGED flushTask
    /\ Goto(t, "fl_lock")
    /\ UNCHANGED <<ops, memoryVars, diskVars, buffer, flushLock, m_flushPending,
                   m_flushComplete, readVars, m_shutdownStarted, killVars, uploads, arg, fate>>

Flush(t) ==
    \/ Flush_Begin(t)
    \/ Flush_Lock(t)
    \/ Flush_Take(t)
    \/ Flush_Store(t)
    \/ Flush_Resize(t)
    \/ Flush_End(t)

-----------------------------------------------------------------------------
(* GetAndReserveRecords: on the worker for a scheduled upload, on the user's thread for an
   event of EventLatency_Max *)

\* Of a read count only whether it is zero matters.
ReadCount(batch) == IF batch = {} THEN 0 ELSE 1

UnusedUploads == {c \in Uploads : uploads[c].st = "free"}

Retrieve_Begin(t) ==
    /\ pc[t] = "idle"
    /\ t = "worker" \/ (t = "user" /\ "Immediate" \in ops)
    /\ ~m_shutdownStarted                   \* no upload starts once the scheduler has stopped
    /\ UnusedUploads # {}
    /\ LET c == CHOOSE u \in UnusedUploads : TRUE
       IN  /\ uploads' = [uploads EXCEPT ![c].st = "open"]
           /\ arg' = [arg EXCEPT ![t].ctx = c]
    /\ m_lastReadCount' = 0
    /\ m_readFromMemory' = FALSE
    /\ Goto(t, "gr_memory")
    /\ UNCHANGED <<ops, memoryVars, diskVars, flushVars, m_shutdownStarted, killVars, fate>>

\* A batch moves to the reserved records.  A first event over the package limit is packaged
\* too, but the consumer then wants no more, and the record is not reserved.
Retrieve_Memory(t) ==
    LET c == arg[t].ctx
    IN  /\ pc[t] = "gr_memory"
        /\ \/ \E batch \in SUBSET (memory \ Oversized) :
                 /\ memory' = memory \ batch
                 /\ reserved' = reserved \cup batch
                 /\ memoryReadCount' = ReadCount(batch)
                 /\ uploads' = [uploads EXCEPT ![c].ids = batch]
           \/ \E r \in memory \cap Oversized :
                 /\ memoryReadCount' = 0
                 /\ uploads' = [uploads EXCEPT ![c].ids = {r}]
                 /\ UNCHANGED <<memory, reserved>>
        /\ Goto(t, "gr_count")
        /\ UNCHANGED <<ops, diskVars, flushVars, readVars, m_shutdownStarted, killVars,
                       arg, fate>>

\* Mutant: the flag is not set.
Retrieve_Count_NoFlag(t) ==
    /\ pc[t] = "gr_count"
    /\ m_lastReadCount' = IF memoryReadCount > 0 THEN 1 ELSE m_lastReadCount
    /\ Goto(t, IF m_lastReadCount' > 0 THEN "gr_end" ELSE "gr_disk")
    /\ UNCHANGED <<ops, memoryVars, diskVars, flushVars, m_readFromMemory, m_shutdownStarted,
                   killVars, uploads, arg, fate>>

\* Whatever was read from memory is sent before the disk is read.
Retrieve_Count(t) ==
    /\ pc[t] = "gr_count"
    /\ m_lastReadCount' = IF memoryReadCount > 0 THEN 1 ELSE m_lastReadCount
    /\ m_readFromMemory' = TRUE
    /\ Goto(t, IF m_lastReadCount' > 0 THEN "gr_end" ELSE "gr_disk")
    /\ UNCHANGED <<ops, memoryVars, diskVars, flushVars, m_shutdownStarted, killVars,
                   uploads, arg, fate>>

\* Mutant: the select does not look at reserved_until.
Selectable_Leased(expired) == disk

\* The rows with reserved_until = 0 once the expired leases are released.
Selectable(expired) == disk \ (leased \ expired)

\* One transaction: release the expired leases, select, reserve what the consumer took.
Retrieve_Disk(t) ==
    LET c == arg[t].ctx
        full == uploads[c].ids \cap Oversized # {}
    IN  /\ pc[t] = "gr_disk"
        /\ \E expired \in SUBSET leased :
              /\ Cardinality(expired) + expirations <= MaxExpired
              /\ expirations' = expirations + Cardinality(expired)
              /\ retryCount' = [r \in Records |-> retryCount[r] + IF r \in expired THEN 1 ELSE 0]
              /\ LET free == Selectable(expired)
                 IN  \/ \E batch \in SUBSET (free \ Oversized) :
                           /\ full => batch = {}
                           /\ leased' = (leased \ expired) \cup batch
                           /\ diskReadCount' = ReadCount(batch)
                           /\ uploads' = [uploads EXCEPT ![c].ids = @ \cup batch]
                     \/ \E r \in free \cap Oversized :
                           /\ uploads[c].ids = {}
                           /\ leased' = leased \ expired
                           /\ diskReadCount' = 0
                           /\ uploads' = [uploads EXCEPT ![c].ids = {r}]
        /\ Goto(t, "gr_diskcount")
        /\ UNCHANGED <<ops, memoryVars, disk, m_db, flushVars, readVars, m_shutdownStarted,
                       killVars, arg, fate>>

Retrieve_DiskCount(t) ==
    /\ pc[t] = "gr_diskcount"
    /\ IF diskReadCount > 0
       THEN m_lastReadCount' = 1 /\ m_readFromMemory' = FALSE
       ELSE UNCHANGED readVars
    /\ Goto(t, "gr_end")
    /\ UNCHANGED <<ops, memoryVars, diskVars, flushVars, m_shutdownStarted, killVars,
                   uploads, arg, fate>>

\* handleRetrieveEvents: ctx->fromMemory = IsLastReadFromMemory(), then the package is empty,
\* cannot be compressed (its records are released again), or is sent.
Retrieve_End(t) ==
    LET c == arg[t].ctx
        ctx == [uploads[c] EXCEPT !.fromMemory = m_readFromMemory]
    IN  /\ pc[t] = "gr_end"
        /\ \/ /\ ctx.ids = {}
              /\ uploads' = [uploads EXCEPT ![c] = FreeUpload]
              /\ Return(t)
           \/ /\ ctx.ids # {}
              /\ uploads' = [uploads EXCEPT ![c] = [ctx EXCEPT !.st = "release"]]
              /\ Goto(t, "rs_ids")
              /\ UNCHANGED arg
           \/ /\ ctx.ids # {}
              /\ uploads' = [uploads EXCEPT ![c] = [ctx EXCEPT !.st = "sent"]]
              /\ Return(t)
        /\ UNCHANGED <<ops, memoryVars, diskVars, flushVars, readVars, m_shutdownStarted,
                       killVars, fate>>

Retrieve(t) ==
    \/ Retrieve_Begin(t)
    \/ Retrieve_Memory(t)
    \/ Retrieve_Count(t)
    \/ Retrieve_Disk(t)
    \/ Retrieve_DiskCount(t)
    \/ Retrieve_End(t)

-----------------------------------------------------------------------------
(* Responses, on the worker *)

\* HttpResponseDecoder: accepted and rejected events are deleted, after a temporary failure
\* of the server (retry counted) or the network they are released.  A response with headers
\* may kill tenants, and may ask to retry after some time.
HandleResponse(c) ==
    /\ pc["worker"] = "idle"
    /\ uploads[c].st = "sent"
    /\ \E outcome \in {"delete", "retryServer", "release"}, kill \in SUBSET Tenants,
          retryAfter \in BOOLEAN :
          /\ kill # {} => "Kill" \in ops /\ outcome # "release"
          /\ retryAfter => "RetryAfter" \in ops /\ outcome # "release"
          /\ uploads' = [uploads EXCEPT ![c].st = outcome]
          /\ m_tokenTime' = m_tokenTime \cup kill
          /\ m_isRetryAfterActive' = (m_isRetryAfterActive \/ retryAfter)
          /\ arg' = [arg EXCEPT !["worker"].ctx = c,
                                !["worker"].keys = IF kill = {} THEN {} ELSE m_tokenTime']
          /\ Goto("worker", IF kill = {} THEN "rs_ids" ELSE "ks_reserved")
          /\ fate' = [r \in Records |-> IF fate[r] = "live" /\ Tenant[r] \in kill
                                         THEN "doomed" ELSE fate[r]]
    /\ UNCHANGED <<ops, memoryVars, diskVars, flushVars, readVars, m_shutdownStarted>>

\* DeleteRecordsByKeys, key by key: the reserved records, the memory queue, the disk.
ScrubKey == CHOOSE k \in arg["worker"].keys : TRUE
OfKey(S) == {r \in S : Tenant[r] = ScrubKey}

\* Mutant: reserved records are left alone.
Scrub_Reserved_Skipped ==
    /\ pc["worker"] = "ks_reserved"
    /\ Goto("worker", "ks_memory")
    /\ UNCHANGED <<ops, memoryVars, diskVars, flushVars, readVars, m_shutdownStarted,
                   killVars, uploads, arg, fate>>

Scrub_Reserved ==
    /\ pc["worker"] = "ks_reserved"
    /\ reserved' = reserved \ OfKey(reserved)
    /\ Seal(OfKey(reserved), "killed")
    /\ Goto("worker", "ks_memory")
    /\ UNCHANGED <<ops, memory, memoryReadCount, diskVars, flushVars, readVars,
                   m_shutdownStarted, killVars, uploads, arg>>

Scrub_Memory ==
    /\ pc["worker"] = "ks_memory"
    /\ memory' = memory \ OfKey(memory)
    /\ Seal(OfKey(memory), "killed")
    /\ Goto("worker", "ks_disk")
    /\ UNCHANGED <<ops, reserved, memoryReadCount, diskVars, flushVars, readVars,
                   m_shutdownStarted, killVars, uploads, arg>>

\* With the last storage scrubbed, no record of the tenant that was stored before the kill is
\* to remain.
Scrub_Disk ==
    /\ pc["worker"] = "ks_disk"
    /\ disk' = disk \ OfKey(disk)
    /\ leased' = leased \ OfKey(leased)
    /\ Seal(OfKey({r \in Records : fate[r] = "doomed"}) \cup OfKey(disk), "killed")
    /\ arg' = [arg EXCEPT !["worker"].keys = @ \ {ScrubKey}]
    /\ Goto("worker", IF arg'["worker"].keys = {} THEN "rs_ids" ELSE "ks_reserved")
    /\ UNCHANGED <<ops, memoryVars, retryCount, diskReadCount, expirations, m_db, flushVars, readVars,
                   m_shutdownStarted, killVars, uploads>>

\* DeleteRecords(ids): from memory (the queue too, if some are not reserved) or from disk.
DeleteRecords(ids, fromMemory) ==
    /\ IF fromMemory
       THEN /\ reserved' = reserved \ ids
            /\ memory' = IF ids \subseteq reserved THEN memory ELSE memory \ ids
            /\ UNCHANGED <<disk, leased>>
       ELSE /\ disk' = disk \ ids
            /\ leased' = leased \ ids
            /\ UNCHANGED <<memory, reserved>>
    /\ UNCHANGED <<memoryReadCount, retryCount, diskReadCount, expirations, m_db>>

\* Mutant: a memory reservation is dropped, not given back.
ReleaseRecords_Forgotten(ids, fromMemory, increment) ==
    /\ IF fromMemory
       THEN reserved' = reserved \ ids /\ UNCHANGED leased
       ELSE leased' = leased \ ids /\ UNCHANGED reserved
    /\ UNCHANGED <<memory, memoryReadCount, disk, retryCount, diskReadCount, expirations, m_db, fate>>

\* ReleaseRecords(ids): back to the memory queue, or no longer leased; only the disk drops
\* records that were retried too often, whoever leases them.
ReleaseRecords(ids, fromMemory, increment) ==
    LET counts == [r \in Records |->
                     retryCount[r] + IF increment /\ r \in ids \cap leased THEN 1 ELSE 0]
        dropped == {r \in disk : increment /\ counts[r] > MaxRetryCount}
    IN  IF fromMemory
        THEN /\ memory' = memory \cup (reserved \cap ids)
             /\ reserved' = reserved \ ids
             /\ UNCHANGED <<memoryReadCount, diskVars, fate>>
        ELSE /\ retryCount' = counts
             /\ disk' = disk \ dropped
             /\ leased' = (leased \ ids) \ dropped
             /\ Seal(dropped, "dropped")
             /\ UNCHANGED <<memoryVars, diskReadCount, expirations, m_db>>

\* The ids of the context are deleted or released where ctx->fromMemory says they are.
Response_Ids(t) ==
    LET c == arg[t].ctx
    IN  /\ pc[t] = "rs_ids"
        /\ \/ /\ uploads[c].st = "delete"
              /\ DeleteRecords(uploads[c].ids, uploads[c].fromMemory)
              /\ Seal(uploads[c].ids, "delivered")
           \/ /\ uploads[c].st \in {"retryServer", "release"}
              /\ ReleaseRecords(uploads[c].ids, uploads[c].fromMemory,
                                uploads[c].st = "retryServer")
        /\ uploads' = [uploads EXCEPT ![c] = FreeUpload]
        /\ Return(t)
        /\ UNCHANGED <<ops, flushVars, readVars, m_shutdownStarted, killVars>>

Respond(t) ==
    \/ t = "worker" /\ \E c \in Uploads : HandleResponse(c)
    \/ t = "worker" /\ (Scrub_Reserved \/ Scrub_Memory \/ Scrub_Disk)
    \/ Response_Ids(t)

-----------------------------------------------------------------------------
(* DeleteAllRecords, Shutdown, crash and restart *)

NoUploads == \A c \in Uploads : uploads[c].st = "free"

\* TelemetrySystem::cleanup has waited for the uploads to finish.
DeleteAllRecords_Begin ==
    /\ "DeleteData" \in ops
    /\ pc["user"] = "idle"
    /\ ~m_shutdownStarted
    /\ NoUploads
    /\ Goto("user", "dd_reserved")
    /\ UNCHANGED <<ops, memoryVars, diskVars, flushVars, readVars, m_shutdownStarted,
                   killVars, uploads, arg, fate>>

DeleteAllRecords_Reserved ==
    /\ pc["user"] = "dd_reserved"
    /\ reserved' = {}
    /\ Seal(reserved, "dropped")
    /\ Goto("user", "dd_memory")
    /\ UNCHANGED <<ops, memory, memoryReadCount, diskVars, flushVars, readVars,
                   m_shutdownStarted, killVars, uploads, arg>>

DeleteAllRecords_Memory ==
    /\ pc["user"] = "dd_memory"
    /\ memory' = {}
    /\ memoryReadCount' = 0
    /\ Seal(memory, "dropped")
    /\ Goto("user", "dd_disk")
    /\ UNCHANGED <<ops, reserved, diskVars, flushVars, readVars, m_shutdownStarted,
                   killVars, uploads, arg>>

DeleteAllRecords_Disk ==
    /\ pc["user"] = "dd_disk"
    /\ disk' = {}
    /\ leased' = {}
    /\ Seal(disk, "dropped")
    /\ Goto("user", "idle")
    /\ UNCHANGED <<ops, memoryVars, retryCount, diskReadCount, expirations, m_db, flushVars, readVars,
                   m_shutdownStarted, killVars, uploads, arg>>

\* Shutdown begins after the scheduler has stopped: no upload is active.
Shutdown_Begin ==
    /\ pc["user"] = "idle"
    /\ NoUploads
    /\ m_shutdownStarted' = TRUE
    /\ Goto("user", "sh_wait")
    /\ UNCHANGED <<ops, memoryVars, diskVars, flushVars, readVars, killVars, uploads, arg, fate>>

\* WaitForFlush looks at m_flushPending under the lock, and waits for the event without it.
Shutdown_WaitForFlush ==
    /\ \/ /\ pc["user"] = "sh_wait"
          /\ flushLock = "none"
          /\ Goto("user", IF m_flushPending THEN "sh_event" ELSE "sh_release")
       \/ /\ pc["user"] = "sh_event"
          /\ m_flushComplete
          /\ Goto("user", "sh_release")
    /\ UNCHANGED <<ops, memoryVars, diskVars, flushVars, readVars, m_shutdownStarted,
                   killVars, uploads, arg, fate>>

\* Mutant: reserved records are not given back.
Shutdown_Release_Kept ==
    /\ pc["user"] = "sh_release"
    /\ Goto("user", "fl_lock")
    /\ arg' = [arg EXCEPT !["user"].cont = "sh_close"]
    /\ UNCHANGED <<ops, memoryVars, diskVars, flushVars, readVars, m_shutdownStarted,
                   killVars, uploads, fate>>

\* Mutant: the database is closed before the flush.
Shutdown_Release_Closed ==
    /\ pc["user"] = "sh_release"
    /\ memory' = memory \cup reserved
    /\ reserved' = {}
    /\ m_db' = FALSE
    /\ Goto("user", "fl_lock")
    /\ arg' = [arg EXCEPT !["user"].cont = "sh_close"]
    /\ UNCHANGED <<ops, memoryReadCount, disk, leased, retryCount, diskReadCount, expirations,
                   flushVars, readVars, m_shutdownStarted, killVars, uploads, fate>>

\* ReleaseAllRecords, then Flush.
Shutdown_Release ==
    /\ pc["user"] = "sh_release"
    /\ memory' = memory \cup reserved
    /\ reserved' = {}
    /\ Goto("user", "fl_lock")
    /\ arg' = [arg EXCEPT !["user"].cont = "sh_close"]
    /\ UNCHANGED <<ops, memoryReadCount, diskVars, flushVars, readVars, m_shutdownStarted,
                   killVars, uploads, fate>>

\* Both storages are shut down: the database is closed.
Shutdown_Close ==
    /\ pc["user"] = "sh_close"
    /\ m_db' = FALSE
    /\ Goto("user", "down")
    /\ UNCHANGED <<ops, memoryVars, disk, leased, retryCount, diskReadCount, expirations, flushVars,
                   readVars, m_shutdownStarted, killVars, uploads, arg, fate>>

UserOperation ==
    \/ DeleteAllRecords_Begin
    \/ DeleteAllRecords_Reserved
    \/ DeleteAllRecords_Memory
    \/ DeleteAllRecords_Disk
    \/ Shutdown_Begin
    \/ Shutdown_WaitForFlush
    \/ Shutdown_Release
    \/ Shutdown_Close

\* The process ends, at any time or after Shutdown, and starts again with what the disk
\* holds: rows keep their lease and retry count.  Opening the database ends with ResizeDb,
\* whatever the setting.
Restart ==
    /\ pc["user"] = "down" \/ "Crash" \in ops
    /\ memory' = {} /\ reserved' = {} /\ memoryReadCount' = 0
    /\ diskReadCount' = 0
    /\ buffer' = {} /\ flushLock' = "none"
    /\ m_flushPending' = FALSE /\ flushTask' = FALSE /\ m_flushComplete' = FALSE
    /\ m_readFromMemory' = FALSE /\ m_lastReadCount' = 0 /\ m_shutdownStarted' = FALSE
    /\ m_tokenTime' = {} /\ m_isRetryAfterActive' = FALSE
    /\ uploads' = [c \in Uploads |-> FreeUpload]
    /\ pc' = [t \in Threads |-> "idle"]
    /\ arg' = [t \in Threads |-> NoArg]
    /\ m_db' = TRUE
    /\ \E trimmed \in SUBSET disk : disk' = disk \ trimmed /\ leased' = leased \ trimmed
    /\ fate' = [r \in Records |-> IF fate[r] \notin Kept THEN fate[r]
                                  ELSE IF r \in disk' THEN "live" ELSE "dropped"]
    /\ UNCHANGED <<ops, retryCount, expirations>>

-----------------------------------------------------------------------------

Init ==
    /\ ops \in Applications
    /\ memory = {} /\ reserved = {} /\ memoryReadCount = 0
    /\ disk = {} /\ leased = {} /\ diskReadCount = 0 /\ expirations = 0 /\ m_db = TRUE
    /\ retryCount = [r \in Records |-> 0]
    /\ buffer = {} /\ flushLock = "none"
    /\ m_flushPending = FALSE /\ flushTask = FALSE /\ m_flushComplete = FALSE
    /\ m_readFromMemory = FALSE /\ m_lastReadCount = 0 /\ m_shutdownStarted = FALSE
    /\ m_tokenTime = {} /\ m_isRetryAfterActive = FALSE
    /\ uploads = [c \in Uploads |-> FreeUpload]
    /\ pc = [t \in Threads |-> "idle"]
    /\ arg = [t \in Threads |-> NoArg]
    /\ fate = [r \in Records |-> "new"]

Store(t) ==
    \/ \E r \in Records : StoreRecord(t, r)
    \/ StoreRecord_Memory(t)
    \/ StoreRecord_RequestFlush(t)
    \/ StoreRecord_Disk(t)
    \/ StoreRecord_Resize(t)
    \/ StoreRecord_End(t)

Next ==
    \/ \E t \in Threads : Store(t) \/ Flush(t) \/ Retrieve(t) \/ Respond(t)
    \/ UserOperation
    \/ Restart

Spec == Init /\ [][Next]_vars

\* What the platform guarantees: a thread inside the storage keeps running and gets a lock
\* that is released again and again, and the worker runs a task that is due.
Busy(t) ==
    /\ pc[t] # "idle"
    /\ \/ Store(t) \/ Flush(t) \/ Retrieve(t) \/ Respond(t)
       \/ t = "user" /\ UserOperation
Fairness ==
    /\ \A t \in Threads : SF_vars(Busy(t))
    /\ SF_vars(Flush_Begin("worker"))

FairSpec == Spec /\ Fairness

-----------------------------------------------------------------------------
(* Properties *)

FlushLabels == {"fl_lock", "fl_take", "fl_store", "fl_resize"}
ShutdownLabels == {"sh_wait", "sh_event", "sh_release", "sh_close"}
Labels == FlushLabels \cup ShutdownLabels \cup
    {"idle", "st_memory", "st_flush", "st_disk", "st_resize", "st_end", "gr_memory", "gr_count",
     "gr_disk", "gr_diskcount", "gr_end", "rs_ids", "ks_reserved", "ks_memory", "ks_disk",
     "dd_reserved", "dd_memory", "dd_disk", "down"}
\* "dropped": refused, deleted, trimmed, retried too often, or lost with the memory.
Fates == Kept \cup {"new", "delivered", "killed", "dropped"}

\* Every variable has the type of the member it stands for.
TypeOK ==
    /\ memory \subseteq Records /\ reserved \subseteq Records /\ buffer \subseteq Records
    /\ disk \subseteq Records /\ leased \subseteq disk
    /\ memoryReadCount \in 0..1 /\ diskReadCount \in 0..1 /\ expirations \in 0..MaxExpired
    /\ retryCount \in [Records -> Nat]
    /\ flushLock \in Threads \cup {"none"}
    /\ m_flushPending \in BOOLEAN /\ flushTask \in BOOLEAN /\ m_flushComplete \in BOOLEAN
    /\ m_readFromMemory \in BOOLEAN /\ m_lastReadCount \in 0..1 /\ m_shutdownStarted \in BOOLEAN
    /\ m_db \in BOOLEAN
    /\ m_tokenTime \subseteq Tenants /\ m_isRetryAfterActive \in BOOLEAN
    /\ uploads \in [Uploads -> [st : {"free", "open", "sent", "delete", "retryServer", "release"},
                                ids : SUBSET Records, fromMemory : BOOLEAN]]
    /\ pc \in [Threads -> Labels]
    /\ arg \in [Threads -> [rec : Records \cup {NoRecord}, full : BOOLEAN,
                            ctx : Uploads \cup {NoUpload}, keys : SUBSET Tenants,
                            cont : {"idle", "sh_close"}]]
    /\ fate \in [Records -> Fates]

Somewhere == memory \cup reserved \cup buffer \cup disk

\* A record has one copy: Flush, reservation and release move it and never duplicate it.  The
\* events table has no primary key, so its REPLACE INTO relies on this.
AtMostOneCopy ==
    /\ memory \cap (reserved \cup buffer \cup disk) = {}
    /\ reserved \cap (buffer \cup disk) = {}
    /\ buffer \cap disk = {}

\* Once StoreRecord has returned, the record is in one of the storages (or in Flush's hands)
\* until it is acknowledged, rejected, killed, deleted, trimmed, retried too often or lost
\* in a crash: no path of the handler forgets it.  What StoreRecord accepts after shutdown has
\* started is kept only as long as the database is open (AcceptedIsStored).
NoRecordLost ==
    \A r \in Records :
        fate[r] = "live" \/ (fate[r] \in {"late", "doomed"} /\ m_db) => r \in Somewhere

\* StoreRecord returns "Whether the record was successfully stored": a record it has accepted
\* is in a storage, also when it came after shutdown had started.  (The code does not ensure it:
\* the result of an insert into a closed database is not looked at.)
AcceptedIsStored == \A r \in Records : fate[r] \in Kept \ {"storing"} => r \in Somewhere

\* A record whose response was handled is deleted where it is: it is not sent again.  (The code
\* does not ensure it: m_readFromMemory is set without a lock, and two retrievals race for it.)
DeliveredIsGone == \A r \in Records : fate[r] = "delivered" => r \notin Somewhere

\* m_readFromMemory and the read counts belong to no lock.  The worker has them to itself unless
\* the user's thread uploads an event at once, or DeleteAllRecords resets them.
OneReader == ops \cap {"Immediate", "DeleteData"} = {}

\* With one reader ctx->fromMemory is right, so that what was delivered is deleted; and each
\* reservation in memory, which does not expire, belongs to an upload that will delete or release it.
\* (Of a record over the package limit neither is true: it is not counted as read.)
OneReaderSettles ==
    OneReader =>
        /\ \A r \in Records \ Oversized : fate[r] = "delivered" => r \notin Somewhere
        /\ reserved \subseteq UNION {uploads[c].ids : c \in Uploads}

\* A record is in one package at a time, and in one more for each lease that has expired while
\* its upload was still on its way: a late answer to the first upload, which releases what the
\* second one leases, makes room for one package and no more.  (A record over the package limit
\* is not reserved, and may be taken again.)
Holders(r) == {c \in Uploads : r \in uploads[c].ids}
InFlightOncePerLease ==
    \A r \in Records \ Oversized : Cardinality(Holders(r)) <= 1 + expirations

\* After a kill, DeleteRecordsByKeys has removed every record of the tenant that was stored
\* when the response came.  (An application's Flush on another thread would carry records past
\* the scrub in its buffer, and its immediate upload in its reservation.)
KilledIsGone ==
    ops \cap {"Flush", "Immediate"} = {} => \A r \in Records : fate[r] = "killed" => r \notin Somewhere

\* A clean shutdown leaves every record that was stored before it on disk, reserved ones
\* included.
ShutdownSavesAll ==
    pc["user"] = "down" => \A r \in Records : fate[r] = "live" => r \in disk

\* m_flushPending is set only while a flush is queued or running, so WaitForFlush is woken.
PendingFlushHasTask ==
    m_flushPending => flushTask \/ \E t \in Threads : pc[t] \in FlushLabels

\* Events are trimmed "When set to true": without CFG_BOOL_ENABLE_DB_DROP_IF_FULL what a clean
\* shutdown left on disk is there after the restart.  (The code does not ensure it: opening the
\* database trims whatever the setting.)
TrimmedOnlyIfEnabled ==
    [][pc["user"] = "down" /\ "DropIfFull" \notin ops => disk \subseteq disk']_vars

\* Shutdown completes: neither m_flushLock nor m_flushComplete keeps it waiting.
ShutdownCompletes == m_shutdownStarted ~> (pc["user"] = "down" \/ ~m_shutdownStarted)

=============================================================================
