------------------------ MODULE OfflineStorage_proofs ------------------------
(* What OfflineStorage guarantees: the last action, the packages of a        *)
(* record, and the theorems.                                                 *)
EXTENDS OfflineStorageSteps_proofs, FiniteSetTheorems

\* Expired leases are released and a batch of what is then free is leased; or a record over the limit
\* is packaged and not leased.
LEMMA Retrieve_Disk_Keeps ==
    ASSUME Inv, NEW t \in Threads, Retrieve_Disk(t)
    PROVE  Inv'
<1>. Control /\ Types /\ LockOwner /\ Contexts /\ Phases /\ Places /\ Held /\ Saved /\ Scrubbed /\ Settled
     /\ PendingFlushHasTask
    BY Zenon DEF Inv, Control
<1>1. /\ TypeOK'
      /\ SameMemory /\ disk' = disk /\ SameFlush /\ SameRun /\ fate' = fate /\ arg' = arg
      /\ memoryReadCount' = memoryReadCount /\ m_readFromMemory' = m_readFromMemory
      /\ arg[t].ctx \in Uploads
      /\ \E expired \in SUBSET leased, batch \in SUBSET disk :
            /\ batch \cap (leased \ expired) = {}
            /\ expirations' = 0 => expired = {} /\ expirations = 0
            /\ SetsUpload(arg[t].ctx, uploads[arg[t].ctx].st, uploads[arg[t].ctx].ids \cup batch,
                          uploads[arg[t].ctx].fromMemory)
            /\ \/ /\ batch \cap Oversized = {}
                  /\ leased' = (leased \ expired) \cup batch
                  /\ batch = {} \/ diskReadCount' = 1
               \/ batch \subseteq Oversized /\ leased' = leased \ expired
      /\ Moves(t, "gr_disk", "gr_diskcount")
    <2>1. /\ SameMemory /\ disk' = disk /\ SameFlush /\ SameRun /\ fate' = fate /\ arg' = arg
          /\ memoryReadCount' = memoryReadCount /\ m_readFromMemory' = m_readFromMemory
          /\ m_flushComplete' = m_flushComplete
          /\ m_lastReadCount' = m_lastReadCount /\ m_tokenTime' = m_tokenTime
          /\ m_isRetryAfterActive' = m_isRetryAfterActive
          /\ pc[t] = "gr_disk"
        BY Zenon DEF Retrieve_Disk, memoryVars, flushVars, readVars, killVars, SameMemory, SameFlush, SameRun
    <2>2. pc' \in [Threads -> Labels] /\ Moves(t, "gr_disk", "gr_diskcount")
        <3>. "gr_diskcount" \in Labels
            BY Zenon DEF Labels
        <3>. QED
            BY <2>1, GotoMoves DEF Retrieve_Disk, Types, TypeOK
    <2>3. arg[t].ctx \in Uploads
        BY <2>1, Zenon DEF Types, Retrieving
    <2> DEFINE c == arg[t].ctx
    <2> DEFINE Batches(expired) ==
            \/ \E batch \in SUBSET (Selectable(expired) \ Oversized) :
                  /\ leased' = (leased \ expired) \cup batch
                  /\ diskReadCount' = ReadCount(batch)
                  /\ uploads' = [uploads EXCEPT ![c].ids = @ \cup batch]
            \/ \E r \in Selectable(expired) \cap Oversized :
                  /\ uploads[c].ids = {}
                  /\ leased' = leased \ expired
                  /\ diskReadCount' = 0
                  /\ uploads' = [uploads EXCEPT ![c].ids = {r}]
    <2>4. PICK expired \in SUBSET leased :
              /\ Cardinality(expired) + expirations <= MaxExpired
              /\ expirations' = expirations + Cardinality(expired)
              /\ retryCount' = [r \in Records |-> retryCount[r] + IF r \in expired THEN 1 ELSE 0]
              /\ Batches(expired)
        BY Zenon DEF Retrieve_Disk
    <2>5. PICK batch \in SUBSET disk :
              /\ batch \cap (leased \ expired) = {}
              /\ uploads' = [uploads EXCEPT ![c].ids = uploads[c].ids \cup batch]
              /\ \/ /\ batch \cap Oversized = {}
                    /\ leased' = (leased \ expired) \cup batch
                    /\ diskReadCount' = ReadCount(batch)
                 \/ batch \subseteq Oversized /\ leased' = leased \ expired /\ diskReadCount' = 0
        <3>1. CASE \E b \in SUBSET (Selectable(expired) \ Oversized) :
                  /\ leased' = (leased \ expired) \cup b
                  /\ diskReadCount' = ReadCount(b)
                  /\ uploads' = [uploads EXCEPT ![c].ids = @ \cup b]
            <4>1. PICK b \in SUBSET (Selectable(expired) \ Oversized) :
                  /\ leased' = (leased \ expired) \cup b
                  /\ diskReadCount' = ReadCount(b)
                  /\ uploads' = [uploads EXCEPT ![c].ids = @ \cup b]
                BY <3>1, Zenon
            <4>2. b \in SUBSET disk /\ b \cap Oversized = {} /\ b \cap (leased \ expired) = {}
                BY Zenon DEF Selectable
            <4>. QED
                BY <4>1, <4>2, Zenon
        <3>2. CASE \E r \in Selectable(expired) \cap Oversized :
                  /\ uploads[c].ids = {}
                  /\ leased' = leased \ expired
                  /\ diskReadCount' = 0
                  /\ uploads' = [uploads EXCEPT ![c].ids = {r}]
            <4>1. PICK r \in Selectable(expired) \cap Oversized :
                  /\ uploads[c].ids = {}
                  /\ leased' = leased \ expired
                  /\ diskReadCount' = 0
                  /\ uploads' = [uploads EXCEPT ![c].ids = {r}]
                BY <3>2, Zenon
            <4>2. {r} \in SUBSET disk /\ {r} \subseteq Oversized /\ {r} \cap (leased \ expired) = {}
                BY Zenon DEF Selectable
            <4>3. uploads[c].ids \cup {r} = {r}
                BY <4>1, Zenon
            <4>. QED
                BY <4>1, <4>2, <4>3, Zenon
        <3>. QED
            BY <2>4, <3>1, <3>2, Zenon
    <2>6. diskReadCount' \in 0..1 /\ (ReadCount(batch) = 1 \/ batch = {})
        BY <2>5 DEF ReadCount
    <2>7. disk \subseteq Records /\ batch \subseteq Records /\ leased \subseteq disk
        BY Zenon DEF Types, TypeOK
    <2>8. /\ uploads' \in [Uploads -> UploadType]
          /\ SetsUpload(c, uploads[c].st, uploads[c].ids \cup batch, uploads[c].fromMemory)
        BY <2>3, <2>5, <2>7 DEF Types, TypeOK, UploadType, SetsUpload
    <2>9. leased' \subseteq disk'
        BY <2>1, <2>5, <2>7, Zenon
    <2>10. IsFiniteSet(expired)
        BY <2>7, ConstantsOK, FS_Subset, Zenon
    <2>11. Cardinality(expired) \in Nat /\ (Cardinality(expired) = 0 <=> expired = {})
        BY <2>10, FS_CardinalityType, FS_EmptySet, Zenon
    <2>12. expirations' \in 0..MaxExpired /\ (expirations' = 0 => expired = {} /\ expirations = 0)
        <3>. expirations \in 0..MaxExpired /\ MaxExpired \in Nat
            BY ConstantsOK, Zenon DEF Types, TypeOK
        <3>. QED
            BY <2>4, <2>11
    <2>13. retryCount' \in [Records -> Nat]
        BY <2>4 DEF Types, TypeOK
    <2>14. TypeOK'
        <3>. /\ pc' \in [Threads -> Labels] /\ uploads' \in [Uploads -> UploadType] /\ diskReadCount' \in 0..1
             /\ expirations' \in 0..MaxExpired
            BY <2>2, <2>6, <2>8, <2>12, Zenon
        <3>. QED
            BY <2>1, <2>9, <2>13, Zenon DEF Types, TypeOK, SameMemory, SameFlush, SameRun, UploadType
    <2>15. /\ batch \cap (leased \ expired) = {}
           /\ \/ /\ batch \cap Oversized = {}
                 /\ leased' = (leased \ expired) \cup batch
                 /\ batch = {} \/ diskReadCount' = 1
              \/ batch \subseteq Oversized /\ leased' = leased \ expired
        BY <2>5, <2>6, Zenon
    <2>. QED
        BY <2>1, <2>2, <2>3, <2>8, <2>12, <2>14, <2>15, Zenon
<1>db. m_db' = m_db
    BY <1>1, Zenon DEF SameRun
<1>2. Types'
    BY <1>1, Types_Move, Zenon DEF Types, Storing, Stored, Retrieving, Responding, Scrubbing, Moves, Returns
<1>3. LockOwner'
    BY <1>1, LockOwner_Frame, Zenon DEF Moves, Returns, SameFlush, LockHeld, Threads
<1>4. Contexts'
    <2> DEFINE c == arg[t].ctx
    <2>0. pc[t] = "gr_disk"
        BY <1>1, Zenon DEF Moves
    <2>1. /\ c \in Uploads /\ uploads[c].st = "open"
          /\ \A u \in Threads : u # t /\ pc[u] \in Working => arg[u].ctx # c /\ arg[u].ctx \in Uploads
        BY <2>0, OwnContext, Zenon DEF Contexts, Working, Retrieving
    <2>2. ~m_shutdownStarted
        BY <2>1, ActiveUpload, Zenon
    <2>3. /\ uploads'[c].st = "open" /\ \A d \in Uploads : d # c => uploads'[d] = uploads[d]
          /\ m_shutdownStarted' = m_shutdownStarted /\ arg' = arg
        BY <2>1, <1>1, Zenon DEF SameRun, SetsUpload
    <2>4. /\ pc'[t] \in Retrieving /\ pc'[t] \notin Responding /\ pc'[t] # "gr_memory"
          /\ \A u \in Threads : u # t => pc'[u] = pc[u]
        BY <1>1, Zenon DEF Moves, Retrieving, Responding, Scrubbing
    <2> HIDE DEF c
    <2>. QED
        BY <2>1, <2>2, <2>3, <2>4, Contexts_Upload DEF c
<1>5. Phases'
    BY <1>1, ReturnLabel, Zenon
       DEF Phases, SameRun, Threads, Moves, Returns, NoArg, Storing, Stored, Retrieving, Responding,
           Scrubbing, Deleting, Stopping, ShutdownLabels, FlushLabels
<1>6. Places'
    <2> DEFINE c == arg[t].ctx
    <2>1. PICK batch \in SUBSET disk :
             /\ uploads'[c].ids = uploads[c].ids \cup batch
             /\ \A d \in Uploads : d # c => uploads'[d] = uploads[d]
        BY <1>1, Zenon DEF SetsUpload
    <2>2. /\ SameMemory /\ buffer' = buffer /\ disk' = disk /\ fate' = fate /\ arg' = arg /\ c \in Uploads
          /\ Moves(t, "gr_disk", "gr_diskcount")
        BY <1>1, Zenon DEF SameMemory
    <2> HIDE DEF c
    <2>3. \A d \in Uploads : uploads'[d].ids \subseteq uploads[d].ids \cup Somewhere
        BY <2>1, <2>2, Zenon DEF Somewhere
    <2>4. Moved
        BY <2>2, <2>3, Zenon DEF Moved, SameMemory, Places, AtMostOneCopy, Somewhere
    <2>5. Fated
        BY <2>2, Fated_Same, Zenon
    <2>. QED
        BY <1>db, <2>2, <2>4, <2>5, Places_Move, Zenon DEF Storing, Stored
<1>7. Held'
    <2> DEFINE c == arg[t].ctx
    <2>0. PICK expired \in SUBSET leased, batch \in SUBSET disk :
             /\ batch \cap (leased \ expired) = {}
             /\ expirations' = 0 => expired = {} /\ expirations = 0
             /\ SetsUpload(c, uploads[c].st, uploads[c].ids \cup batch, uploads[c].fromMemory)
             /\ \/ /\ batch \cap Oversized = {}
                   /\ leased' = (leased \ expired) \cup batch
                   /\ batch = {} \/ diskReadCount' = 1
                \/ batch \subseteq Oversized /\ leased' = leased \ expired
        BY <1>1, Zenon
    <2>1. /\ uploads'[c].ids = uploads[c].ids \cup batch
          /\ \A d \in Uploads : d # c => uploads'[d].ids = uploads[d].ids
          /\ batch \cap (leased \ expired) = {}
          /\ expirations' = 0 => expired = {} /\ expirations = 0
          /\ \/ leased' = (leased \ expired) \cup batch
             \/ batch \subseteq Oversized /\ leased' = leased \ expired
        BY <2>0, Zenon DEF SetsUpload
    <2>2. SameMemory /\ disk' = disk /\ c \in Uploads
        BY <1>1, Zenon
    <2>3. batch \cap (memory \cup buffer \cup reserved) = {}
        BY Zenon DEF Places, AtMostOneCopy
    <2> HIDE <2>0 DEF c
    <2>4. \A d \in Uploads : \A r \in uploads'[d].ids \ Oversized : r \notin memory' \cup buffer'
        BY <2>1, <2>2, <2>3, Zenon DEF Held, SameMemory
    <2>5. \A e, d \in Uploads : e # d =>
              \A r \in (uploads'[e].ids \cap uploads'[d].ids) \ Oversized : r \notin reserved'
        BY <2>1, <2>2, <2>3, Zenon DEF Held, SameMemory
    <2>. QED
        BY <2>4, <2>5, Zenon DEF Held
<1>8. Saved'
    <2> SUFFICES ASSUME m_shutdownStarted' PROVE Saved'
        BY <1>5, Saved_Early, Zenon
    <2>. QED
        BY <1>1, NoWork, Zenon DEF SameRun, Control, Working, Retrieving, Responding, Moves, Returns
<1>9. Arrives
    BY <1>1, Arrives_Same, Zenon DEF SameDisk
<1>10. Scrubbed'
    <2>1. ops' = ops
        BY <1>1, Zenon DEF SameRun
    <2>2. \A q \in Records : fate'[q] = "killed" => fate[q] = "killed"
        BY <1>1, Zenon
    <2>3. ops \cap {"Flush", "Immediate"} = {} /\ pc'["worker"] \in {"ks_memory", "ks_disk"} =>
              /\ pc'["worker"] = pc["worker"] /\ arg'["worker"] = arg["worker"]
              /\ reserved' \subseteq reserved
              /\ \A q \in Records : fate'[q] = "doomed" => fate[q] = "doomed" /\ (q \in memory' => q \in memory)
        <3>1. pc[t] \in Retrieving \cup Responding /\ pc'["worker"] \in {"ks_memory", "ks_disk"} => t # "worker"
            BY <1>1, ReturnLabel, Zenon DEF Moves, Returns, Retrieving, Responding, Scrubbing
        <3>2. pc[t] \in Retrieving \cup Responding /\ (t = "user" => "Immediate" \in ops) /\ t # "app"
            BY <1>1, Zenon DEF Moves, Returns, Retrieving, Responding, Control, Phases, FlushLabels, Scrubbing
        <3>. QED
            BY <3>1, <3>2, Zenon DEF Threads
    <2>. QED
        BY <1>9, <2>1, <2>2, <2>3, Scrubbed_Frame, Zenon
<1>11. Settled'
    <2> SUFFICES ASSUME OneReader PROVE Settled'
        BY <1>1, Zenon DEF Settled, OneReader, SameRun
    <2>t. t = "worker"
        BY <1>1, OnlyWorker, Zenon DEF Moves, Returns, Retrieving, Responding
    <2>g. \A r \in Records \ Oversized : fate'[r] = "delivered" => r \notin Somewhere'
        BY <1>1, <1>9, Zenon DEF Settled, OneReaderSettles, Arrives
    <2>1. arg' = arg /\ arg[t].ctx \in Uploads /\ uploads[arg[t].ctx].st = "open"
        BY <1>1, Zenon DEF Control, Contexts, Types, Moves, Retrieving
    <2> DEFINE c == arg[t].ctx
    <2>2. PICK batch \in SUBSET disk :
              /\ SetsUpload(c, uploads[c].st, uploads[c].ids \cup batch, uploads[c].fromMemory)
              /\ batch \subseteq Oversized \/ diskReadCount' = 1
        BY <1>1, Zenon
    <2>3. disk' = disk /\ reserved' = reserved /\ pc["worker"] = "gr_disk" /\ pc'["worker"] = "gr_diskcount"
        BY <2>t, <1>1, Zenon DEF SameMemory, Moves
    <2>4. uploads[c].ids \subseteq Oversized
        BY <2>3, <2>t, Zenon DEF Settled
    <2>5. uploads'[c].st = "open" /\ uploads'[c].ids = uploads[c].ids \cup batch
        BY <2>1, <2>2, Zenon DEF SetsUpload
    <2>6. \A d \in Uploads : d # c => uploads'[d] = uploads[d]
        BY <2>2, Zenon DEF SetsUpload
    <2>7. Located(arg["worker"].ctx, FALSE)'
        <3>1. \A r \in batch : r \notin reserved
            BY Zenon DEF Places, AtMostOneCopy
        <3>. QED
            BY <2>1, <2>t, <2>3, <2>4, <2>5, <3>1, Zenon DEF Located
    <2>8. uploads'[c].ids \subseteq Oversized \/ diskReadCount' = 1
        BY <2>2, <2>4, <2>5, Zenon
    <2>9. ASSUME NEW d \in Uploads, uploads'[d].st \in Answered \cup {"sent"}
          PROVE  Located(d, uploads[d].fromMemory)'
        <3>1. d # c
            BY <2>5, <2>9, Zenon DEF Answered
        <3>2. Located(d, uploads[d].fromMemory) /\ uploads'[d] = uploads[d]
            BY <2>6, <2>9, <3>1, Zenon DEF Settled
        <3>. QED
            BY <2>3, <3>2, Zenon DEF Located
    <2>10. reserved' \subseteq UNION {uploads'[d].ids : d \in Uploads}
        <3>1. \A d \in Uploads : uploads[d].ids \subseteq uploads'[d].ids
            BY <2>5, <2>6, Zenon
        <3>. QED
            BY <2>3, <3>1 DEF Settled, OneReaderSettles
    <2>11. OneReaderSettles'
        BY <2>10, <2>g, Zenon DEF OneReaderSettles
    <2>. QED
        BY <2>1, <2>t, <2>3, <2>7, <2>8, <2>9, <2>11, Zenon DEF Settled
<1>12. PendingFlushHasTask'
    BY <1>1, Pending_Frame, Zenon DEF SameFlush, Moves, Returns, FlushLabels, Threads
<1>. QED
    BY <1>2, <1>3, <1>4, <1>5, <1>6, <1>7, <1>8, <1>10, <1>11, <1>12, Zenon DEF Inv, Control

\* Every step keeps the invariant.
THEOREM InvStep == Inv /\ [Next]_vars => Inv'
BY StoreRecord_Keeps, StoreRecord_Memory_Keeps, StoreRecord_RequestFlush_Keeps, StoreRecord_Disk_Keeps,
   StoreRecord_Resize_Keeps, StoreRecord_End_Keeps, Flush_Begin_Keeps, Flush_Lock_Keeps, Flush_Take_Keeps,
   Flush_Store_Keeps, Flush_Resize_Keeps, Flush_End_Keeps, Retrieve_Begin_Keeps, Retrieve_Memory_Keeps,
   Retrieve_Count_Keeps, Retrieve_Disk_Keeps, Retrieve_DiskCount_Keeps, Retrieve_End_Keeps,
   HandleResponse_Keeps, Scrub_Reserved_Keeps, Scrub_Memory_Keeps, Scrub_Disk_Keeps,
   Response_Ids_Keeps, DeleteAllRecords_Begin_Keeps, DeleteAllRecords_Reserved_Keeps, DeleteAllRecords_Memory_Keeps,
   DeleteAllRecords_Disk_Keeps, Shutdown_Begin_Keeps, Shutdown_WaitForFlush_Keeps, Shutdown_Release_Keeps,
   Shutdown_Close_Keeps, Restart_Keeps, Stutter_Keeps, Zenon
   DEF Next, Store, Flush, Retrieve, Respond, UserOperation

\* The invariant holds at the beginning, and every step keeps it.
THEOREM InvHolds == Spec => []Inv
<1>1. Init => Inv
    <2> SUFFICES ASSUME Init PROVE Inv
        BY Zenon
    <2>1. Control
        <3>1. TypeOK
            <4>1. NoArg \in ArgType /\ FreeUpload \in UploadType /\ "idle" \in Labels /\ "new" \in Fates
                BY Zenon DEF NoArg, ArgType, FreeUpload, UploadType, Labels, Fates
            <4>2. /\ arg \in [Threads -> ArgType] /\ uploads \in [Uploads -> UploadType]
                  /\ pc \in [Threads -> Labels] /\ fate \in [Records -> Fates] /\ retryCount \in [Records -> Nat]
                BY <4>1, Zenon DEF Init
            <4>3. /\ m_flushPending \in BOOLEAN /\ flushTask \in BOOLEAN /\ m_flushComplete \in BOOLEAN
                  /\ m_readFromMemory \in BOOLEAN /\ m_shutdownStarted \in BOOLEAN
                  /\ m_db \in BOOLEAN /\ m_isRetryAfterActive \in BOOLEAN
                BY Zenon DEF Init
            <4>4. /\ memoryReadCount \in 0..1 /\ diskReadCount \in 0..1 /\ m_lastReadCount \in 0..1
                  /\ expirations \in 0..MaxExpired
                BY ConstantsOK DEF Init
            <4>5. /\ memory \subseteq Records /\ reserved \subseteq Records /\ buffer \subseteq Records
                  /\ disk \subseteq Records /\ leased \subseteq disk /\ m_tokenTime \subseteq Tenants
                  /\ flushLock \in Threads \cup {"none"}
                BY Zenon DEF Init
            <4>. QED
                BY <4>2, <4>3, <4>4, <4>5, Zenon DEF TypeOK, ArgType, UploadType
        <3>2. \A t \in Threads : pc[t] = "idle" /\ arg[t] = NoArg
            BY Zenon DEF Init
        <3>3. \A c \in Uploads : uploads[c].st = "free" /\ uploads[c].ids = {}
            BY Zenon DEF Init, FreeUpload
        <3>4. Types
            BY <3>1, <3>2, Zenon DEF Types, Storing, Stored, Retrieving, Responding, Scrubbing
        <3>5. LockOwner
            BY <3>2, Zenon DEF LockOwner, LockHeld, Init, Threads
        <3>6. Contexts
            BY <3>2, <3>3, Zenon DEF Contexts, Retrieving, Responding, Scrubbing, Init
        <3>7. Phases
            BY <3>2, Zenon
               DEF Phases, Init, Threads, NoArg, Retrieving, Responding, Scrubbing, Deleting, Stopping,
                   ShutdownLabels, FlushLabels
        <3>. QED
            BY <3>4, <3>5, <3>6, <3>7, Zenon DEF Control
    <2>2. Places
        <3>1. \A t \in Threads : pc[t] \notin Storing \cup Stored
            BY Zenon DEF Init, Storing, Stored
        <3>2. \A r \in Records : fate[r] = "new" /\ Unseen(r)
            BY Zenon DEF Init, Unseen, Somewhere, FreeUpload
        <3>3. AtMostOneCopy /\ NoRecordLost /\ BufferOwned /\ reserved \cap Oversized = {}
            BY Zenon DEF Init, AtMostOneCopy, NoRecordLost, BufferOwned, Kept
        <3>4. Fresh
            BY <3>1, <3>2, Zenon DEF Fresh
        <3>. QED
            BY <3>1, <3>3, <3>4, Zenon DEF Places
    <2>3. Held
        BY Zenon DEF Init, Held, FreeUpload
    <2>4. Saved
        BY Zenon DEF Init, Saved, FlushLabels, Draining, Flushed, Threads
    <2>5. Scrubbed
        BY Zenon DEF Init, Scrubbed, Fates
    <2>6. Settled
        <3>1. \A c \in Uploads : uploads[c].st = "free"
            BY Zenon DEF Init, FreeUpload
        <3>2. pc["worker"] = "idle"
            BY Zenon DEF Init, Threads
        <3>3. OneReaderSettles
            BY Zenon DEF Init, OneReaderSettles
        <3>. QED
            BY <3>1, <3>2, <3>3, Zenon DEF Settled, Answered
    <2>7. PendingFlushHasTask
        BY Zenon DEF Init, PendingFlushHasTask
    <2>. QED
        BY <2>1, <2>2, <2>3, <2>4, <2>5, <2>6, <2>7, Zenon DEF Inv
<1>. QED
    BY <1>1, InvStep, PTL DEF Spec

\* Every variable of the storage has the type of the member it stands for, for any number of records,
\* uploads and operations.
THEOREM TypesHold == Spec => []TypeOK
<1>1. Inv => TypeOK
    BY Zenon DEF Inv, Control, Types
<1>. QED
    BY <1>1, InvHolds, PTL

\* A record has one copy: Flush, reservation and release move it and never duplicate it.
THEOREM OneCopy == Spec => []AtMostOneCopy
<1>1. Inv => AtMostOneCopy
    BY Zenon DEF Inv, Places
<1>. QED
    BY <1>1, InvHolds, PTL

\* Once StoreRecord has returned, no path of the handler forgets the record.
THEOREM NothingLost == Spec => []NoRecordLost
<1>1. Inv => NoRecordLost
    BY Zenon DEF Inv, Places
<1>. QED
    BY <1>1, InvHolds, PTL

\* Where the worker alone reads, the shared m_readFromMemory never sends a response to the wrong
\* storage: a delivered record is in none, and a reservation in memory belongs to a package.
THEOREM OneReaderSafe == Spec => []OneReaderSettles
<1>1. Inv => OneReaderSettles
    BY Zenon DEF Inv, Settled, OneReaderSettles
<1>. QED
    BY <1>1, InvHolds, PTL

\* Without application threads that flush or upload meanwhile, no record of a killed tenant that was
\* stored before the kill is in any storage once the tenant has been scrubbed.
THEOREM KilledGone == Spec => []KilledIsGone
<1>1. Inv => KilledIsGone
    BY Zenon DEF Inv, Scrubbed, KilledIsGone
<1>. QED
    BY <1>1, InvHolds, PTL

\* A clean shutdown leaves every record that was stored before it on disk, reserved ones included.
THEOREM ShutdownSaves == Spec => []ShutdownSavesAll
<1>1. Inv => ShutdownSavesAll
    <2> SUFFICES ASSUME Inv, pc["user"] = "down", NEW r \in Records, fate[r] = "live"
                 PROVE  r \in disk
        BY Zenon DEF ShutdownSavesAll
    <2>1. r \in Somewhere
        BY Zenon DEF Inv, Places, NoRecordLost
    <2>2. r \notin memory /\ r \notin buffer /\ reserved = {}
        BY Zenon DEF Inv, Saved, Flushed
    <2>. QED
        BY <2>1, <2>2, Zenon DEF Somewhere
<1>. QED
    BY <1>1, InvHolds, PTL

\* m_flushPending is set only while a flush is queued or running, so WaitForFlush is woken.
THEOREM PendingHolds == Spec => []PendingFlushHasTask
<1>1. Inv => PendingFlushHasTask
    BY Zenon DEF Inv
<1>. QED
    BY <1>1, InvHolds, PTL

-----------------------------------------------------------------------------
(* The packages of a record: a second invariant, on top of the first *)

\* A row that may be taken is in one package less.
Counted ==
    \A r \in Records \ Oversized :
        /\ Cardinality(Holders(r)) <= 1 + expirations
        /\ r \in disk \ leased => Cardinality(Holders(r)) <= expirations

\* A step that packages nothing, and frees a row of the table only if no package has the record
\* or one has given it up.
Unpacks ==
    /\ expirations' = expirations
    /\ \A c \in Uploads : uploads'[c].ids \subseteq uploads[c].ids
    /\ \A r \in Records \ Oversized : r \in disk' \ leased' =>
          \/ r \in disk \ leased
          \/ \A c \in Uploads : r \notin uploads'[c].ids
          \/ \E c \in Uploads : r \in uploads[c].ids /\ r \notin uploads'[c].ids

\* A record's packages are finitely many.
LEMMA HoldersFinite ==
    ASSUME NEW H \in SUBSET Uploads, NEW G \in SUBSET H
    PROVE  /\ IsFiniteSet(H) /\ IsFiniteSet(G) /\ Cardinality(H) \in Nat /\ Cardinality(G) \in Nat
           /\ Cardinality(G) <= Cardinality(H)
           /\ G # H => Cardinality(G) < Cardinality(H)
<1>1. IsFiniteSet(H)
    BY ConstantsOK, FS_Subset, Zenon
<1>2. IsFiniteSet(G) /\ Cardinality(G) <= Cardinality(H) /\ (Cardinality(H) = Cardinality(G) <=> H = G)
    BY <1>1, FS_Subset, Zenon
<1>3. Cardinality(H) \in Nat /\ Cardinality(G) \in Nat
    BY <1>1, <1>2, FS_CardinalityType, Zenon
<1>4. G # H => Cardinality(G) < Cardinality(H)
    BY <1>2, <1>3
<1>. QED
    BY <1>1, <1>2, <1>3, <1>4, Zenon

\* Such a step keeps the count.
LEMMA Unpacks_Keeps ==
    ASSUME TypeOK, Counted, Unpacks
    PROVE  Counted'
<1> SUFFICES ASSUME NEW r \in Records \ Oversized
             PROVE  /\ Cardinality(Holders(r)') <= 1 + expirations'
                    /\ r \in disk' \ leased' => Cardinality(Holders(r)') <= expirations'
    BY Zenon DEF Counted
<1> DEFINE H == Holders(r)
           G == Holders(r)'
<1>1. H \in SUBSET Uploads /\ G \in SUBSET H
    BY Zenon DEF Holders, Unpacks
<1>2. /\ Cardinality(H) \in Nat /\ Cardinality(G) \in Nat /\ Cardinality(G) <= Cardinality(H)
      /\ G # H => Cardinality(G) < Cardinality(H)
    BY <1>1, HoldersFinite, Zenon
<1>3. Cardinality(H) <= 1 + expirations /\ (r \in disk \ leased => Cardinality(H) <= expirations)
    BY Zenon DEF Counted
<1>4. r \in disk' \ leased' => r \in disk \ leased \/ G = {} \/ G # H
    BY Zenon DEF Unpacks, Holders
<1>5. Cardinality({}) = 0
    BY FS_EmptySet, Zenon
<1>6. expirations' = expirations /\ expirations \in Nat
    BY ConstantsOK DEF Unpacks, TypeOK
<1> HIDE DEF H, G
<1>7. Cardinality(G) <= 1 + expirations
    BY <1>2, <1>3, <1>6
<1>8. r \in disk' \ leased' => Cardinality(G) <= expirations
    BY <1>2, <1>3, <1>4, <1>5, <1>6
<1>. QED
    BY <1>6, <1>7, <1>8 DEF G

\* Most steps leave the table, its leases and the packages alone.
Aside == disk' = disk /\ leased' = leased /\ expirations' = expirations /\ uploads' = uploads
\* They package nothing.
LEMMA Aside_Unpacks ==
    ASSUME Aside
    PROVE  Unpacks
BY Zenon DEF Aside, Unpacks

\* What the threads do in memory.
LEMMA Memory_Aside ==
    ASSUME NEW t \in Threads,
           \/ (\E r \in Records : StoreRecord(t, r)) \/ StoreRecord_Memory(t) \/ StoreRecord_RequestFlush(t)
           \/ StoreRecord_End(t) \/ Flush_Begin(t) \/ Flush_Lock(t) \/ Flush_Take(t) \/ Flush_End(t)
           \/ Retrieve_Count(t) \/ Retrieve_DiskCount(t)
    PROVE  Aside
<1>1. CASE \E r \in Records : StoreRecord(t, r)
    BY <1>1, Zenon DEF StoreRecord, diskVars, Aside
<1>2. CASE StoreRecord_Memory(t) \/ StoreRecord_RequestFlush(t) \/ StoreRecord_End(t)
    BY <1>2, Zenon DEF StoreRecord_Memory, StoreRecord_RequestFlush, StoreRecord_End, diskVars, Aside
<1>3. CASE Flush_Begin(t) \/ Flush_Lock(t) \/ Flush_Take(t) \/ Flush_End(t)
    BY <1>3, Zenon DEF Flush_Begin, Flush_Lock, Flush_Take, Flush_End, diskVars, Aside
<1>4. CASE Retrieve_Count(t) \/ Retrieve_DiskCount(t)
    BY <1>4, Zenon DEF Retrieve_Count, Retrieve_DiskCount, diskVars, Aside
<1>. QED
    BY <1>1, <1>2, <1>3, <1>4, Zenon

\* What the scrub, DeleteAllRecords and Shutdown do but for the table.
LEMMA Operation_Aside ==
    ASSUME \/ Scrub_Reserved \/ Scrub_Memory \/ DeleteAllRecords_Begin \/ DeleteAllRecords_Reserved
           \/ DeleteAllRecords_Memory \/ Shutdown_Begin \/ Shutdown_WaitForFlush \/ Shutdown_Release
           \/ Shutdown_Close \/ UNCHANGED vars
    PROVE  Aside
<1>1. CASE Scrub_Reserved \/ Scrub_Memory
    BY <1>1, Zenon DEF Scrub_Reserved, Scrub_Memory, diskVars, Aside
<1>2. CASE DeleteAllRecords_Begin \/ DeleteAllRecords_Reserved \/ DeleteAllRecords_Memory
    BY <1>2, Zenon
       DEF DeleteAllRecords_Begin, DeleteAllRecords_Reserved, DeleteAllRecords_Memory, diskVars, Aside
<1>3. CASE Shutdown_Begin \/ Shutdown_WaitForFlush \/ Shutdown_Release \/ Shutdown_Close
    BY <1>3, Zenon
       DEF Shutdown_Begin, Shutdown_WaitForFlush, Shutdown_Release, Shutdown_Close, diskVars, Aside
<1>4. CASE UNCHANGED vars
    BY <1>4, Zenon DEF vars, diskVars, Aside
<1>. QED
    BY <1>1, <1>2, <1>3, <1>4, Zenon

\* A context is opened, sent, given up or answered.
LEMMA Context_Unpacks ==
    ASSUME TypeOK, Inv,
           (\E t \in Threads : Retrieve_Begin(t) \/ Retrieve_End(t)) \/ \E c \in Uploads : HandleResponse(c)
    PROVE  Unpacks
<1>1. disk' = disk /\ leased' = leased /\ expirations' = expirations
    BY Zenon DEF Retrieve_Begin, Retrieve_End, HandleResponse, diskVars
<1>2. \A c \in Uploads : uploads'[c].ids \subseteq uploads[c].ids
    <2>1. CASE \E t \in Threads : Retrieve_Begin(t)
        <3>1. PICK c \in UnusedUploads : uploads' = [uploads EXCEPT ![c].st = "open"]
            BY <2>1, Zenon DEF Retrieve_Begin
        <3>. QED
            BY <3>1, Zenon DEF UnusedUploads, TypeOK
    <2>2. CASE \E t \in Threads : Retrieve_End(t)
        <3>1. PICK t \in Threads : Retrieve_End(t)
            BY <2>2, Zenon
        <3> DEFINE c == arg[t].ctx
                   ctx == [uploads[c] EXCEPT !.fromMemory = m_readFromMemory]
        <3>2. c \in Uploads
            BY <3>1, Zenon DEF Retrieve_End, Inv, Control, Types, Retrieving
        <3>3. \/ uploads' = [uploads EXCEPT ![c] = FreeUpload]
              \/ uploads' = [uploads EXCEPT ![c] = [ctx EXCEPT !.st = "release"]]
              \/ uploads' = [uploads EXCEPT ![c] = [ctx EXCEPT !.st = "sent"]]
            BY <3>1, Zenon DEF Retrieve_End
        <3>4. /\ FreeUpload.ids = {}
              /\ [ctx EXCEPT !.st = "release"].ids = uploads[c].ids
              /\ [ctx EXCEPT !.st = "sent"].ids = uploads[c].ids
            BY <3>2 DEF FreeUpload, TypeOK
        <3>5. uploads \in [Uploads -> UploadType]
            BY Zenon DEF TypeOK, UploadType
        <3>6. \E u : uploads' = [uploads EXCEPT ![c] = u] /\ u.ids \subseteq uploads[c].ids
            BY <3>3, <3>4, Zenon
        <3> HIDE DEF c, ctx
        <3>. QED
            BY <3>2, <3>5, <3>6, Zenon
    <2>3. CASE \E c \in Uploads : HandleResponse(c)
        <3>1. PICK c \in Uploads, o \in {"delete", "retryServer", "release"} : uploads' = [uploads EXCEPT ![c].st = o]
            BY <2>3, Zenon DEF HandleResponse
        <3>. QED
            BY <3>1, Zenon DEF TypeOK
    <2>. QED
        BY <2>1, <2>2, <2>3, Zenon
<1>. QED
    BY <1>1, <1>2, Zenon DEF Unpacks

\* What is stored on disk comes from no package.
LEMMA Stores_Unpacks ==
    ASSUME TypeOK, Inv, NEW t \in Threads, StoreRecord_Disk(t) \/ Flush_Store(t)
    PROVE  Unpacks
<1>1. uploads' = uploads
    BY Zenon DEF StoreRecord_Disk, Flush_Store
<1>2. PICK q \in Records :
          /\ leased' = leased /\ expirations' = expirations /\ disk' \subseteq disk \cup {q}
          /\ q \notin Oversized => \A c \in Uploads : q \notin uploads[c].ids
    <2>1. CASE StoreRecord_Disk(t)
        <3>1. DiskStoreRecord(arg[t].rec) /\ pc[t] = "st_disk" /\ arg[t].rec \in Records
            BY <2>1, Zenon DEF StoreRecord_Disk, Inv, Control, Types, Storing
        <3>2. /\ leased' = leased /\ expirations' = expirations
              /\ disk' = IF m_db THEN disk \cup {arg[t].rec} ELSE disk
            BY <3>1, DiskStoreEffect, Zenon
        <3>3. \A c \in Uploads : arg[t].rec \notin uploads[c].ids
            BY <3>1, Zenon DEF Inv, Places, Fresh, Storing, Unseen
        <3>. QED
            BY <3>1, <3>2, <3>3, Zenon
    <2>2. CASE Flush_Store(t)
        <3>1. PICK r \in buffer : DiskStoreRecord(r)
            BY <2>2, Zenon DEF Flush_Store
        <3>2. r \in Records
            BY Zenon DEF TypeOK
        <3>3. leased' = leased /\ expirations' = expirations /\ disk' = IF m_db THEN disk \cup {r} ELSE disk
            BY <3>1, <3>2, DiskStoreEffect, Zenon
        <3>4. r \notin Oversized => \A c \in Uploads : r \notin uploads[c].ids
            BY Zenon DEF Inv, Held
        <3>. QED
            BY <3>2, <3>3, <3>4, Zenon
    <2>. QED
        BY <2>1, <2>2, Zenon
<1>. QED
    BY <1>1, <1>2, Zenon DEF Unpacks

\* A row that leaves the table leaves the leases.
LEMMA Removes_Unpacks ==
    ASSUME TypeOK, Inv,
           \/ \E t \in Threads : StoreRecord_Resize(t) \/ Flush_Resize(t)
           \/ Scrub_Disk \/ DeleteAllRecords_Disk
    PROVE  Unpacks
<1>1. CASE \E t \in Threads : StoreRecord_Resize(t) \/ Flush_Resize(t)
    <2>1. DiskResize /\ uploads' = uploads
        BY <1>1, Zenon DEF StoreRecord_Resize, Flush_Resize
    <2>2. expirations' = expirations /\ \E trimmed \in SUBSET disk : disk' = disk \ trimmed /\ leased' = leased \ trimmed
        BY <2>1, DiskResizeEffect, Zenon
    <2>. QED
        BY <2>1, <2>2, Zenon DEF Unpacks
<1>2. CASE Scrub_Disk
    <2>1. /\ disk' = disk \ OfKey(disk) /\ leased' = leased \ OfKey(leased)
          /\ expirations' = expirations /\ uploads' = uploads /\ leased \subseteq disk
        BY <1>2, Zenon DEF Scrub_Disk, TypeOK
    <2>2. disk' \ leased' \subseteq disk \ leased
        BY <2>1, Zenon DEF OfKey
    <2>. QED
        BY <2>1, <2>2, Zenon DEF Unpacks
<1>3. CASE DeleteAllRecords_Disk
    BY <1>3, Zenon DEF DeleteAllRecords_Disk, Unpacks
<1>. QED
    BY <1>1, <1>2, <1>3, Zenon

\* A context that is deleted or released gives up its package.
LEMMA Response_Unpacks ==
    ASSUME TypeOK, Inv, NEW t \in Threads, Response_Ids(t)
    PROVE  Unpacks
<1> DEFINE c == arg[t].ctx
           ids == uploads[c].ids
<1>1. c \in Uploads
    BY Zenon DEF Response_Ids, Inv, Control, Types, Responding
<1>2. uploads'[c].ids = {} /\ \A d \in Uploads : d # c => uploads'[d] = uploads[d]
    <2>1. uploads' = [uploads EXCEPT ![c] = FreeUpload] /\ FreeUpload.ids = {}
        BY Zenon DEF Response_Ids, FreeUpload
    <2>. QED
        BY <1>1, <2>1, Zenon DEF TypeOK
<1>3. expirations' = expirations /\ disk' \subseteq disk /\ disk' \ leased' \subseteq (disk \ leased) \cup ids
    <2>1. CASE DeleteRecords(ids, uploads[c].fromMemory)
        BY <2>1, Zenon DEF DeleteRecords
    <2>2. CASE ReleaseRecords(ids, uploads[c].fromMemory, uploads[c].st = "retryServer")
        <3>1. \/ disk' = disk /\ leased' = leased /\ expirations' = expirations
              \/ /\ \E dropped \in SUBSET disk : disk' = disk \ dropped /\ leased' = (leased \ ids) \ dropped
                 /\ expirations' = expirations
            BY <2>2, Zenon DEF ReleaseRecords, diskVars
        <3>. QED
            BY <3>1, Zenon
    <2>. QED
        BY <2>1, <2>2, Zenon DEF Response_Ids
<1> HIDE DEF c, ids
<1>4. \A r \in disk' \ leased' : r \in disk \ leased \/ (r \in uploads[c].ids /\ r \notin uploads'[c].ids)
    BY <1>2, <1>3, Zenon DEF ids
<1>. QED
    BY <1>1, <1>2, <1>3, <1>4, Zenon DEF Unpacks

\* A restart forgets the packages.
LEMMA Restart_Unpacks ==
    ASSUME Restart
    PROVE  Unpacks
<1>1. expirations' = expirations /\ \A c \in Uploads : uploads'[c].ids = {}
    BY Zenon DEF Restart, FreeUpload
<1>. QED
    BY <1>1, Zenon DEF Unpacks

\* A batch from memory is in no package before.
LEMMA Retrieve_Memory_Counts ==
    ASSUME TypeOK, Inv, Counted, NEW t \in Threads, Retrieve_Memory(t)
    PROVE  Counted'
<1> DEFINE c == arg[t].ctx
<1>1. c \in Uploads
    BY Zenon DEF Retrieve_Memory, Inv, Control, Types, Retrieving
<1>2. PICK batch \in SUBSET memory : uploads' = [uploads EXCEPT ![c].ids = batch]
    BY Zenon DEF Retrieve_Memory
<1>3. disk' = disk /\ leased' = leased /\ expirations' = expirations /\ expirations \in Nat
    BY ConstantsOK DEF Retrieve_Memory, diskVars, TypeOK
<1>4. uploads'[c].ids = batch /\ \A d \in Uploads : d # c => uploads'[d] = uploads[d]
    BY <1>1, <1>2, Zenon DEF TypeOK
<1> SUFFICES ASSUME NEW r \in Records \ Oversized
             PROVE  /\ Cardinality(Holders(r)') <= 1 + expirations'
                    /\ r \in disk' \ leased' => Cardinality(Holders(r)') <= expirations'
    BY Zenon DEF Counted
<1> HIDE DEF c
<1>5. CASE r \in batch
    <2>1. r \notin disk /\ \A d \in Uploads : r \notin uploads[d].ids
        BY <1>5, Zenon DEF Inv, Held, Places, AtMostOneCopy
    <2>2. Holders(r)' = {c}
        BY <1>1, <1>4, <1>5, <2>1, Zenon DEF Holders
    <2>3. Cardinality(Holders(r)') = 1
        BY <2>2, FS_Singleton, Zenon
    <2>. QED
        BY <1>3, <2>1, <2>3
<1>6. CASE r \notin batch
    <2> DEFINE H == Holders(r)
               G == Holders(r)'
    <2>1. H \in SUBSET Uploads /\ G \in SUBSET H
        BY <1>4, <1>6, Zenon DEF Holders
    <2>2. Cardinality(H) \in Nat /\ Cardinality(G) \in Nat /\ Cardinality(G) <= Cardinality(H)
        BY <2>1, HoldersFinite, Zenon
    <2>3. Cardinality(H) <= 1 + expirations /\ (r \in disk \ leased => Cardinality(H) <= expirations)
        BY Zenon DEF Counted
    <2> HIDE DEF H, G
    <2>4. Cardinality(G) <= 1 + expirations /\ (r \in disk \ leased => Cardinality(G) <= expirations)
        BY <1>3, <2>2, <2>3
    <2>. QED
        BY <1>3, <2>4, Zenon DEF G
<1>. QED
    BY <1>5, <1>6, Zenon

\* A row is taken that may be, or whose lease has expired.
LEMMA Retrieve_Disk_Counts ==
    ASSUME TypeOK, Inv, Counted, NEW t \in Threads, Retrieve_Disk(t)
    PROVE  Counted'
<1> DEFINE c == arg[t].ctx
<1>1. c \in Uploads /\ disk' = disk /\ leased \subseteq disk
    BY Zenon DEF Retrieve_Disk, Inv, Control, Types, Retrieving, TypeOK
<1> DEFINE Batches(expired) ==
        \/ \E batch \in SUBSET (Selectable(expired) \ Oversized) :
              /\ leased' = (leased \ expired) \cup batch
              /\ uploads' = [uploads EXCEPT ![c].ids = @ \cup batch]
        \/ \E r \in Selectable(expired) \cap Oversized :
              /\ leased' = leased \ expired
              /\ uploads[c].ids = {}
              /\ uploads' = [uploads EXCEPT ![c].ids = {r}]
<1>2. PICK expired \in SUBSET leased : expirations' = expirations + Cardinality(expired) /\ Batches(expired)
    BY Zenon DEF Retrieve_Disk
<1>3. PICK batch \in SUBSET disk :
          /\ batch \cap (leased \ expired) = {}
          /\ uploads' = [uploads EXCEPT ![c].ids = uploads[c].ids \cup batch]
          /\ \A r \in Records \ Oversized : r \in leased' <=> r \in (leased \ expired) \cup batch
    <2>1. CASE \E b \in SUBSET (Selectable(expired) \ Oversized) :
              /\ leased' = (leased \ expired) \cup b
              /\ uploads' = [uploads EXCEPT ![c].ids = @ \cup b]
        <3>1. PICK b \in SUBSET (Selectable(expired) \ Oversized) :
                  /\ leased' = (leased \ expired) \cup b
                  /\ uploads' = [uploads EXCEPT ![c].ids = @ \cup b]
            BY <2>1, Zenon
        <3>2. b \in SUBSET disk /\ b \cap (leased \ expired) = {}
            BY Zenon DEF Selectable
        <3>. QED
            BY <3>1, <3>2, Zenon
    <2>2. CASE \E r \in Selectable(expired) \cap Oversized :
              /\ leased' = leased \ expired
              /\ uploads[c].ids = {}
              /\ uploads' = [uploads EXCEPT ![c].ids = {r}]
        <3>1. PICK r \in Selectable(expired) \cap Oversized :
                  /\ leased' = leased \ expired
                  /\ uploads[c].ids = {}
                  /\ uploads' = [uploads EXCEPT ![c].ids = {r}]
            BY <2>2, Zenon
        <3>2. {r} \in SUBSET disk /\ {r} \cap (leased \ expired) = {} /\ r \in Oversized
            BY Zenon DEF Selectable
        <3>3. uploads[c].ids \cup {r} = {r}
            BY <3>1, Zenon
        <3>. QED
            BY <3>1, <3>2, <3>3, Zenon
    <2>. QED
        BY <1>2, <2>1, <2>2, Zenon
<1>4. /\ uploads'[c].ids = uploads[c].ids \cup batch
      /\ \A d \in Uploads : d # c => uploads'[d] = uploads[d]
    <2>1. uploads \in [Uploads -> UploadType] /\ c \in Uploads
        BY <1>1, Zenon DEF TypeOK, UploadType
    <2>2. uploads' = [uploads EXCEPT ![c].ids = uploads[c].ids \cup batch]
        BY <1>3, Zenon
    <2> HIDE DEF c
    <2>. QED
        BY <2>1, <2>2 DEF UploadType
<1>5. IsFiniteSet(expired) /\ Cardinality(expired) \in Nat /\ (Cardinality(expired) = 0 <=> expired = {})
    <2>1. expired \subseteq Records
        BY Zenon DEF TypeOK
    <2>2. IsFiniteSet(expired)
        BY <2>1, ConstantsOK, FS_Subset, Zenon
    <2>. QED
        BY <2>2, FS_CardinalityType, FS_EmptySet, Zenon
<1>6. expirations \in Nat /\ expirations' \in Nat /\ expirations' >= expirations
      /\ (expired # {} => expirations' >= expirations + 1)
    <2>1. expirations \in Nat
        BY ConstantsOK DEF TypeOK
    <2>. QED
        BY <1>2, <1>5, <2>1
<1> SUFFICES ASSUME NEW r \in Records \ Oversized
             PROVE  /\ Cardinality(Holders(r)') <= 1 + expirations'
                    /\ r \in disk' \ leased' => Cardinality(Holders(r)') <= expirations'
    BY Zenon DEF Counted
<1> HIDE DEF c, Batches
<1> DEFINE H == Holders(r)
           G == Holders(r)'
<1>7. H \in SUBSET Uploads /\ IsFiniteSet(H) /\ Cardinality(H) \in Nat
    <2>1. H \in SUBSET Uploads
        BY Zenon DEF Holders
    <2>. QED
        BY <2>1, HoldersFinite, Zenon
<1>8. Cardinality(H) <= 1 + expirations /\ (r \in disk \ leased => Cardinality(H) <= expirations)
    BY Zenon DEF Counted
<1>9. CASE r \in batch
    <2>1. G = H \cup {c}
        BY <1>1, <1>4, <1>9, Zenon DEF Holders
    <2>2. r \in disk \ leased \/ expired # {}
        BY <1>3, <1>9, Zenon
    <2>3. r \in leased'
        BY <1>3, <1>9, Zenon
    <2> HIDE DEF H, G
    <2>4. Cardinality(G) = IF c \in H THEN Cardinality(H) ELSE Cardinality(H) + 1
        BY <1>7, <2>1, FS_AddElement, Zenon
    <2>5. Cardinality(G) <= 1 + expirations'
        BY <1>6, <1>7, <1>8, <2>2, <2>4
    <2>. QED
        BY <2>3, <2>5, Zenon DEF G
<1>10. CASE r \notin batch
    <2>1. G = H
        BY <1>4, <1>10, Zenon DEF Holders
    <2>2. r \in disk' \ leased' => r \in disk \ leased \/ expired # {}
        BY <1>1, <1>3, <1>10, Zenon
    <2> HIDE DEF H, G
    <2>3. Cardinality(G) <= 1 + expirations' /\ (r \in disk' \ leased' => Cardinality(G) <= expirations')
        BY <1>6, <1>7, <1>8, <2>1, <2>2
    <2>. QED
        BY <2>3, Zenon DEF G
<1>. QED
    BY <1>9, <1>10, Zenon

\* A record is in one package at a time, and in one more for each lease that has expired, however
\* late the answers to the first ones come: for any number of uploads and expirations.
THEOREM OnePackage == Spec => []InFlightOncePerLease
<1>1. Init => Counted
    <2> SUFFICES ASSUME Init, NEW r \in Records \ Oversized
                 PROVE  Cardinality(Holders(r)) <= 1 + expirations /\ Cardinality(Holders(r)) <= expirations
        BY Zenon DEF Counted
    <2>1. Holders(r) = {}
        BY Zenon DEF Init, Holders, FreeUpload
    <2>2. Cardinality({}) = 0
        BY FS_EmptySet, Zenon
    <2>. QED
        BY <2>1, <2>2 DEF Init
<1>2. Inv /\ Counted /\ [Next]_vars => Counted'
    <2> SUFFICES ASSUME Inv, Counted, [Next]_vars PROVE Counted'
        BY Zenon
    <2>1. TypeOK
        BY Zenon DEF Inv, Control, Types
    <2>2. ASSUME NEW t \in Threads, Store(t) \/ Flush(t) PROVE Counted'
        BY <2>1, <2>2, Memory_Aside, Aside_Unpacks, Stores_Unpacks, Removes_Unpacks, Unpacks_Keeps, Zenon
           DEF Store, Flush
    <2>3. ASSUME NEW t \in Threads, Retrieve(t) PROVE Counted'
        BY <2>1, <2>3, Memory_Aside, Aside_Unpacks, Context_Unpacks, Unpacks_Keeps, Retrieve_Memory_Counts,
           Retrieve_Disk_Counts, Zenon
           DEF Retrieve
    <2>4. ASSUME NEW t \in Threads, Respond(t) PROVE Counted'
        BY <2>1, <2>4, Operation_Aside, Aside_Unpacks, Context_Unpacks, Removes_Unpacks, Response_Unpacks,
           Unpacks_Keeps, Zenon
           DEF Respond
    <2>5. CASE UserOperation
        BY <2>1, <2>5, Operation_Aside, Aside_Unpacks, Removes_Unpacks, Unpacks_Keeps, Zenon DEF UserOperation
    <2>6. CASE Restart \/ UNCHANGED vars
        BY <2>1, <2>6, Restart_Unpacks, Operation_Aside, Aside_Unpacks, Unpacks_Keeps, Zenon
    <2>. QED
        BY <2>2, <2>3, <2>4, <2>5, <2>6, Zenon DEF Next
<1>3. Counted => InFlightOncePerLease
    BY Zenon DEF Counted, InFlightOncePerLease
<1>. QED
    BY <1>1, <1>2, <1>3, InvHolds, PTL DEF Spec
=============================================================================
