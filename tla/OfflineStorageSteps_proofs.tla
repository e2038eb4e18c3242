--------------------- MODULE OfflineStorageSteps_proofs ---------------------
(* The inductive invariant of OfflineStorage, and that every action but one  *)
(* keeps it, for any number of records, tenants and upload contexts, any     *)
(* limits and any set of operations. OfflineStorage_proofs adds the action   *)
(* that counts expired leases and concludes.                                 *)
EXTENDS OfflineStorage, TLAPS

-----------------------------------------------------------------------------
(* The inductive invariants *)

Storing == {"st_memory", "st_disk"}
Stored == {"st_flush", "st_resize", "st_end"}
Retrieving == {"gr_memory", "gr_count", "gr_disk", "gr_diskcount", "gr_end"}
Scrubbing == {"ks_reserved", "ks_memory", "ks_disk"}
Responding == Scrubbing \cup {"rs_ids"}
Deleting == {"dd_reserved", "dd_memory", "dd_disk"}
Stopping == ShutdownLabels \cup {"down"}
Waiting == {"sh_wait", "sh_event", "sh_release"}
Answered == {"delete", "retryServer", "release"}

\* The types need that a thread that stores a record has one, and one in an upload its context.
Types ==
    /\ TypeOK
    /\ \A t \in Threads : pc[t] \in Storing \cup Stored => arg[t].rec \in Records
    /\ \A t \in Threads : pc[t] \in Retrieving \cup Responding => arg[t].ctx \in Uploads

\* m_flushLock is held from Flush_Lock to Flush_End.
LockHeld == {"fl_take", "fl_store", "fl_resize"}
LockOwner == \A t \in Threads : flushLock = t <=> pc[t] \in LockHeld

\* A thread that collects a package or handles its response has the context to itself; when the
\* shutdown has started there is none.
Contexts ==
    /\ \A t \in Threads : pc[t] \in Retrieving => uploads[arg[t].ctx].st = "open"
    /\ \A t \in Threads : pc[t] \in Responding => uploads[arg[t].ctx].st \in Answered
    /\ \A t \in Threads : pc[t] = "gr_memory" => uploads[arg[t].ctx].ids = {}
    /\ \A t, u \in Threads :
          t # u /\ pc[t] \in Retrieving \cup Responding /\ pc[u] \in Retrieving \cup Responding =>
             arg[t].ctx # arg[u].ctx
    /\ \A c \in Uploads : uploads[c].st = "free" => uploads[c].ids = {}
    /\ m_shutdownStarted => NoUploads

\* Where each thread may be, and that the user's thread is in Shutdown from its first step to the
\* end of the process.
Phases ==
    /\ m_shutdownStarted <=> pc["user"] \in Stopping \cup FlushLabels
    /\ pc["user"] \in FlushLabels <=> arg["user"].cont = "sh_close"
    /\ m_db <=> pc["user"] # "down"
    /\ arg["worker"].cont = "idle" /\ arg["app"].cont = "idle"
    /\ pc["app"] \in FlushLabels \cup {"idle"} /\ (pc["app"] # "idle" => "Flush" \in ops)
    /\ pc["user"] \in Retrieving \cup Responding => "Immediate" \in ops
    /\ pc["user"] \in Deleting => "DeleteData" \in ops
    /\ pc["user"] \notin Scrubbing
    /\ pc["worker"] \notin Stopping \cup Deleting
    /\ pc["worker"] \in Scrubbing => arg["worker"].keys # {}

Control == Types /\ LockOwner /\ Contexts /\ Phases

\* A record that no storage and no upload has seen.
Unseen(r) == r \notin Somewhere /\ \A c \in Uploads : r \notin uploads[c].ids

\* Flush's buffer is its own.
Draining == {"fl_store", "fl_resize"}
BufferOwned == buffer # {} => \E t \in Threads : pc[t] \in Draining

\* A record is stored by one thread, and is in no storage and no package before.
Fresh ==
    /\ \A r \in Records : fate[r] = "new" => Unseen(r)
    /\ \A t \in Threads : pc[t] \in Storing => fate[arg[t].rec] = "storing" /\ Unseen(arg[t].rec)
    /\ \A t \in Threads : pc[t] \in Stored => fate[arg[t].rec] # "new"
    /\ \A t, u \in Threads :
          t # u /\ pc[t] \in Storing \cup Stored /\ pc[u] \in Storing \cup Stored =>
             arg[t].rec # arg[u].rec

\* Each record is in one place, and a record that has been stored is in one until it is removed.
Places ==
    /\ AtMostOneCopy
    /\ NoRecordLost
    /\ \A t \in Threads : pc[t] \in Stored => (fate[arg[t].rec] = "storing" /\ m_db => arg[t].rec \in Somewhere)
    /\ reserved \cap Oversized = {}
    /\ BufferOwned
    /\ Fresh

\* What is in a package is not where a flush could take it; and a reservation in memory, which does
\* not expire, is in one package only.
Held ==
    /\ \A c \in Uploads : \A r \in uploads[c].ids \ Oversized : r \notin memory \cup buffer
    /\ \A c, d \in Uploads : c # d =>
          \A r \in (uploads[c].ids \cap uploads[d].ids) \ Oversized : r \notin reserved

\* From its own flush on, the shutdown has no record that was live before it left outside the disk.
Flushed == {"sh_close", "down"}
Saved ==
    /\ pc["user"] \in FlushLabels \cup Flushed => reserved = {}
    /\ pc["user"] \in Draining \cup Flushed => \A r \in Records : fate[r] = "live" => r \notin memory
    /\ pc["user"] \in Flushed => \A r \in Records : fate[r] = "live" => r \notin buffer

\* The scrub of a tenant leaves nothing behind it.
Scrubbed ==
    ops \cap {"Flush", "Immediate"} = {} =>
        /\ pc["worker"] \in {"ks_memory", "ks_disk"} =>
              \A r \in Records : fate[r] = "doomed" /\ Tenant[r] = ScrubKey => r \notin reserved
        /\ pc["worker"] = "ks_disk" =>
              \A r \in Records : fate[r] = "doomed" /\ Tenant[r] = ScrubKey => r \notin memory
        /\ \A r \in Records : fate[r] = "killed" => r \notin Somewhere

\* With one reader the flag, the counts and ctx->fromMemory say where the records of a package are.
Located(c, fromMemory) ==
    \A r \in uploads[c].ids \ Oversized : r \notin (IF fromMemory THEN disk ELSE reserved)
Settled ==
    OneReader =>
        /\ \A c \in Uploads : uploads[c].st \in Answered \cup {"sent"} => Located(c, uploads[c].fromMemory)
        /\ pc["worker"] = "gr_count" =>
              /\ Located(arg["worker"].ctx, TRUE)
              /\ uploads[arg["worker"].ctx].ids \subseteq Oversized \/ memoryReadCount = 1
        /\ pc["worker"] = "gr_disk" => uploads[arg["worker"].ctx].ids \subseteq Oversized
        /\ pc["worker"] = "gr_diskcount" =>
              /\ Located(arg["worker"].ctx, FALSE)
              /\ uploads[arg["worker"].ctx].ids \subseteq Oversized \/ diskReadCount = 1
        /\ pc["worker"] = "gr_end" => Located(arg["worker"].ctx, m_readFromMemory)
        /\ OneReaderSettles

-----------------------------------------------------------------------------
(* Types *)

UploadType == [st : {"free", "open", "sent", "delete", "retryServer", "release"},
               ids : SUBSET Records, fromMemory : BOOLEAN]
ArgType == [rec : Records \cup {NoRecord}, full : BOOLEAN, ctx : Uploads \cup {NoUpload},
            keys : SUBSET Tenants, cont : {"idle", "sh_close"}]

\* What an action does, one thread, one upload or one record at a time.
Moves(t, l, m) ==
    /\ pc[t] = l /\ pc'[t] = m
    /\ \A u \in Threads : u # t => pc'[u] = pc[u]
Returns(t, l) ==
    /\ Moves(t, l, arg[t].cont)
    /\ arg'[t] = NoArg
    /\ \A u \in Threads : u # t => arg'[u] = arg[u]
SetsUpload(c, st, ids, fromMemory) ==
    /\ uploads'[c].st = st /\ uploads'[c].ids = ids /\ uploads'[c].fromMemory = fromMemory
    /\ \A d \in Uploads : d # c => uploads'[d] = uploads[d]
Seals(S, f) ==
    \A r \in Records :
        /\ r \in S /\ fate[r] \in Kept => fate'[r] = f
        /\ ~(r \in S /\ fate[r] \in Kept) => fate'[r] = fate[r]
SameMemory == memory' = memory /\ reserved' = reserved /\ buffer' = buffer
SameDisk == disk' = disk /\ leased' = leased /\ expirations' = expirations
SameReads ==
    /\ memoryReadCount' = memoryReadCount /\ diskReadCount' = diskReadCount
    /\ m_readFromMemory' = m_readFromMemory
SameFlush == flushLock' = flushLock /\ m_flushPending' = m_flushPending /\ flushTask' = flushTask
SameRun == ops' = ops /\ m_shutdownStarted' = m_shutdownStarted /\ m_db' = m_db

\* Goto moves one thread.
LEMMA GotoMoves ==
    ASSUME pc \in [Threads -> Labels], NEW t \in Threads, NEW l \in Labels, Goto(t, l)
    PROVE  pc' \in [Threads -> Labels] /\ Moves(t, pc[t], l)
BY Zenon DEF Goto, Moves

\* Return moves one thread to its continuation and forgets its arguments.
LEMMA ReturnMoves ==
    ASSUME TypeOK, NEW t \in Threads, Return(t)
    PROVE  /\ pc' \in [Threads -> Labels] /\ arg' \in [Threads -> ArgType]
           /\ Returns(t, pc[t])
<1>1. arg \in [Threads -> ArgType] /\ pc \in [Threads -> Labels]
    BY Zenon DEF TypeOK, ArgType
<1>2. arg[t].cont \in Labels
    BY <1>1, Zenon DEF ArgType, Labels, ShutdownLabels
<1>3. pc' \in [Threads -> Labels] /\ Moves(t, pc[t], arg[t].cont)
    BY <1>1, <1>2, GotoMoves, Zenon DEF Return
<1>4. NoArg \in ArgType
    BY Zenon DEF NoArg, ArgType
<1>. QED
    BY <1>1, <1>3, <1>4, Zenon DEF Return, Returns

\* Seal seals, and keeps fates fates.
LEMMA SealSeals ==
    ASSUME TypeOK, NEW S, NEW f \in Fates, Seal(S, f)
    PROVE  fate' \in [Records -> Fates] /\ Seals(S, f)
BY Zenon DEF Seal, TypeOK, Seals

\* An assignment to an upload's context changes that one.
LEMMA UploadSet ==
    ASSUME TypeOK, NEW c \in Uploads, NEW u \in UploadType, uploads' = [uploads EXCEPT ![c] = u]
    PROVE  uploads' \in [Uploads -> UploadType] /\ SetsUpload(c, u.st, u.ids, u.fromMemory)
BY Zenon DEF TypeOK, UploadType, SetsUpload

\* The fields of an upload's context have their types.
LEMMA UploadFields ==
    ASSUME TypeOK, NEW c \in Uploads
    PROVE  /\ uploads[c] \in UploadType
           /\ uploads[c].ids \subseteq Records
           /\ uploads[c].st \in {"free", "open", "sent", "delete", "retryServer", "release"}
           /\ uploads[c].fromMemory \in BOOLEAN
BY Zenon DEF TypeOK, UploadType

\* Storing a row keeps the disk's types: an open database has the row, a closed one is as it was.
LEMMA DiskStoreEffect ==
    ASSUME TypeOK, NEW r \in Records, DiskStoreRecord(r)
    PROVE  /\ disk' \subseteq Records /\ leased' \subseteq disk'
           /\ retryCount' \in [Records -> Nat]
           /\ fate' = fate /\ leased' = leased /\ m_db' = m_db
           /\ diskReadCount' = diskReadCount /\ expirations' = expirations
           /\ disk' = IF m_db THEN disk \cup {r} ELSE disk
<1>1. CASE m_db
    BY <1>1 DEF DiskStoreRecord, TypeOK
<1>2. CASE ~m_db
    BY <1>2, Zenon DEF DiskStoreRecord, TypeOK
<1>. QED
    BY <1>1, <1>2, Zenon

\* So does trimming the table.
LEMMA DiskResizeEffect ==
    ASSUME TypeOK, DiskResize
    PROVE  /\ disk' \subseteq Records /\ leased' \subseteq disk'
           /\ retryCount' \in [Records -> Nat]
           /\ fate' \in [Records -> Fates]
           /\ diskReadCount' = diskReadCount /\ expirations' = expirations /\ m_db' = m_db
           /\ \E trimmed \in SUBSET disk :
                 disk' = disk \ trimmed /\ leased' = leased \ trimmed /\ Seals(trimmed, "dropped")
<1>1. CASE ResizeDb
    <2>1. PICK trimmed \in SUBSET disk :
              /\ disk' = disk \ trimmed
              /\ leased' = leased \ trimmed
              /\ Seal(trimmed, "dropped")
              /\ UNCHANGED <<retryCount, diskReadCount, expirations, m_db>>
        BY <1>1, Zenon DEF ResizeDb
    <2>2. fate' \in [Records -> Fates] /\ Seals(trimmed, "dropped")
        <3>. "dropped" \in Fates
            BY Zenon DEF Fates
        <3>. QED
            BY <2>1, SealSeals, Zenon
    <2>3. disk' \subseteq Records /\ leased' \subseteq disk' /\ retryCount' \in [Records -> Nat]
        BY <2>1, Zenon DEF TypeOK
    <2>. QED
        BY <2>1, <2>2, <2>3, Zenon
<1>2. CASE UNCHANGED <<diskVars, fate>>
    <2>1. /\ disk' = disk \ {} /\ leased' = leased \ {} /\ Seals({}, "dropped")
          /\ retryCount' = retryCount /\ fate' = fate /\ diskReadCount' = diskReadCount
          /\ expirations' = expirations /\ m_db' = m_db /\ disk' = disk /\ leased' = leased
        BY <1>2, Zenon DEF diskVars, Seals
    <2>. QED
        BY <2>1, Zenon DEF TypeOK
<1>. QED
    BY <1>1, <1>2, Zenon DEF DiskResize

-----------------------------------------------------------------------------
(* What each action does *)

\* The ids of a context are deleted or released, in memory or on disk.
ResponseEffect(ids, fromMemory) ==
    \/ /\ fromMemory
       /\ reserved' = reserved \ ids
       /\ memory' = memory \ ids \/ (ids \subseteq reserved /\ memory' = memory)
       /\ disk' = disk /\ leased' = leased
       /\ Seals(ids, "delivered")
    \/ /\ ~fromMemory
       /\ memory' = memory /\ reserved' = reserved
       /\ disk' = disk \ ids /\ leased' = leased \ ids
       /\ Seals(ids, "delivered")
    \/ /\ fromMemory
       /\ memory' = memory \cup (reserved \cap ids) /\ reserved' = reserved \ ids
       /\ disk' = disk /\ leased' = leased /\ fate' = fate
    \/ /\ ~fromMemory
       /\ memory' = memory /\ reserved' = reserved
       /\ \E dropped \in SUBSET disk :
             /\ disk' = disk \ dropped /\ leased' = (leased \ ids) \ dropped
             /\ Seals(dropped, "dropped")

-----------------------------------------------------------------------------
(* Frames of the types *)

\* A step of one thread keeps Types if it does for that thread.
LEMMA Types_Move ==
    ASSUME Types, TypeOK', NEW t \in Threads,
           \A u \in Threads : u # t => pc'[u] = pc[u] /\ arg'[u] = arg[u],
           pc'[t] \in Storing \cup Stored => arg'[t].rec \in Records,
           pc'[t] \in Retrieving \cup Responding => arg'[t].ctx \in Uploads
    PROVE  Types'
BY Zenon DEF Types

\* A return does.
LEMMA Types_Return ==
    ASSUME Types, TypeOK', NEW t \in Threads, NEW l, Returns(t, l)
    PROVE  Types'
<1>1. pc'[t] \notin Storing \cup Stored \cup Retrieving \cup Responding
    <2>. arg[t].cont \in {"idle", "sh_close"}
        BY Zenon DEF Types, TypeOK
    <2>. QED
        BY Zenon DEF Returns, Moves, Storing, Stored, Retrieving, Responding, Scrubbing
<1>. QED
    BY <1>1, Types_Move, Zenon DEF Returns, Moves

-----------------------------------------------------------------------------
(* The lock, the contexts and the phases *)

\* A thread returns to its loop or to the end of Shutdown.
LEMMA ReturnLabel ==
    ASSUME Types, NEW t \in Threads
    PROVE  arg[t].cont \in {"idle", "sh_close"}
BY Zenon DEF Types, TypeOK

\* A step that neither takes nor releases the lock keeps its owner.
LEMMA LockOwner_Frame ==
    ASSUME LockOwner, flushLock' = flushLock,
           \A u \in Threads : pc'[u] \in LockHeld <=> pc[u] \in LockHeld
    PROVE  LockOwner'
BY Zenon DEF LockOwner

Working == Retrieving \cup Responding

\* A step that changes no context, and lets no thread into one, keeps them.
LEMMA Contexts_Frame ==
    ASSUME Contexts, uploads' = uploads, m_shutdownStarted' => m_shutdownStarted \/ NoUploads,
           \A u \in Threads :
              /\ pc'[u] \in Retrieving => pc[u] \in Retrieving
              /\ pc'[u] \in Responding => pc[u] \in Responding
              /\ pc'[u] = "gr_memory" => pc[u] = "gr_memory"
              /\ pc'[u] \in Working => arg'[u].ctx = arg[u].ctx
    PROVE  Contexts'
<1>1. \A t \in Threads : pc'[t] \in Working => pc[t] \in Working
    BY Zenon DEF Working
<1>2. NoUploads' <=> NoUploads
    BY Zenon DEF NoUploads
<1>3. \A u \in Threads : pc'[u] \in Retrieving \cup Responding => arg'[u].ctx = arg[u].ctx
    BY Zenon DEF Working
<1>4. \A u \in Threads : pc'[u] \in Retrieving => uploads'[arg'[u].ctx].st = "open"
    BY <1>3, Zenon DEF Contexts
<1>5. \A u \in Threads : pc'[u] \in Responding => uploads'[arg'[u].ctx].st \in Answered
    BY <1>3, Zenon DEF Contexts
<1>6. \A u \in Threads : pc'[u] = "gr_memory" => uploads'[arg'[u].ctx].ids = {}
    <2>. \A u \in Threads : pc'[u] = "gr_memory" => pc'[u] \in Retrieving
        BY Zenon DEF Retrieving
    <2>. QED
        BY <1>3, Zenon DEF Contexts
<1>7. \A v, u \in Threads : v # u /\ pc'[v] \in Working /\ pc'[u] \in Working => arg'[v].ctx # arg'[u].ctx
    BY <1>1, Zenon DEF Contexts, Working
<1>. QED
    BY <1>2, <1>4, <1>5, <1>6, <1>7, Zenon DEF Contexts, Working

\* A step that moves a thread that is in no context keeps them.
LEMMA Contexts_Outside ==
    ASSUME Contexts, uploads' = uploads, m_shutdownStarted' = m_shutdownStarted, NEW t \in Threads,
           \A u \in Threads : u # t => pc'[u] = pc[u] /\ arg'[u] = arg[u],
           pc'[t] \notin Working
    PROVE  Contexts'
<1>1. \A u \in Threads :
              /\ pc'[u] \in Retrieving => pc[u] \in Retrieving
              /\ pc'[u] \in Responding => pc[u] \in Responding
              /\ pc'[u] = "gr_memory" => pc[u] = "gr_memory"
              /\ pc'[u] \in Working => arg'[u].ctx = arg[u].ctx
    BY Zenon DEF Working, Retrieving
<1>. QED
    BY <1>1, Contexts_Frame, Zenon

\* A step of one thread on a context that no other thread is in.
LEMMA Contexts_Upload ==
    ASSUME Contexts, ~m_shutdownStarted', NEW t \in Threads, NEW c \in Uploads,
           \A d \in Uploads : d # c => uploads'[d] = uploads[d],
           \A u \in Threads : u # t => pc'[u] = pc[u] /\ arg'[u] = arg[u],
           \A u \in Threads : u # t /\ pc[u] \in Working => arg[u].ctx # c /\ arg[u].ctx \in Uploads,
           pc'[t] \in Working => arg'[t].ctx = c,
           pc'[t] \in Retrieving => uploads'[c].st = "open",
           pc'[t] \in Responding => uploads'[c].st \in Answered,
           pc'[t] = "gr_memory" => uploads'[c].ids = {},
           uploads'[c].st = "free" => uploads'[c].ids = {}
    PROVE  Contexts'
<1>0. \A u \in Threads : /\ pc'[u] \in Retrieving => pc'[u] \in Working
                         /\ pc'[u] \in Responding => pc'[u] \in Working
                         /\ pc'[u] = "gr_memory" => pc'[u] \in Working
    BY Zenon DEF Working, Retrieving
<1>a. \A u \in Threads : u # t /\ pc'[u] \in Working => uploads'[arg'[u].ctx] = uploads[arg[u].ctx] /\ arg'[u] = arg[u]
    BY Zenon
<1>1. \A u \in Threads : pc'[u] \in Retrieving => uploads'[arg'[u].ctx].st = "open"
    BY <1>0, <1>a, Zenon DEF Contexts
<1>2. \A u \in Threads : pc'[u] \in Responding => uploads'[arg'[u].ctx].st \in Answered
    BY <1>0, <1>a, Zenon DEF Contexts
<1>3. \A u \in Threads : pc'[u] = "gr_memory" => uploads'[arg'[u].ctx].ids = {}
    <2> SUFFICES ASSUME NEW u \in Threads, pc'[u] = "gr_memory"
                 PROVE  uploads'[arg'[u].ctx].ids = {}
        BY Zenon
    <2>1. CASE u = t
        BY <1>0, <2>1, Zenon
    <2>2. CASE u # t
        BY <1>0, <1>a, <2>2, ZenonT(60) DEF Contexts
    <2>. QED
        BY <2>1, <2>2, Zenon
<1>4. \A v, u \in Threads : v # u /\ pc'[v] \in Working /\ pc'[u] \in Working => arg'[v].ctx # arg'[u].ctx
    <2> SUFFICES ASSUME NEW v \in Threads, NEW u \in Threads, v # u, pc'[v] \in Working, pc'[u] \in Working
                 PROVE  arg'[v].ctx # arg'[u].ctx
        BY Zenon
    <2>1. CASE v # t /\ u # t
        <3>1. /\ pc[v] \in Retrieving \cup Responding /\ arg'[v] = arg[v]
              /\ pc[u] \in Retrieving \cup Responding /\ arg'[u] = arg[u]
            BY <2>1, Zenon DEF Working
        <3>. QED
            BY <3>1, ZenonT(60) DEF Contexts
    <2>2. \A w \in Threads : w # t /\ pc'[w] \in Working => arg'[w].ctx # arg'[t].ctx \/ pc'[t] \notin Working
        BY Zenon
    <2>3. CASE v = t
        BY <2>2, <2>3, Zenon
    <2>4. CASE u = t
        BY <2>2, <2>4, Zenon
    <2>. QED
        BY <2>1, <2>3, <2>4, Zenon
<1>5. \A d \in Uploads : uploads'[d].st = "free" => uploads'[d].ids = {}
    BY Zenon DEF Contexts
<1>. QED
    BY <1>1, <1>2, <1>3, <1>4, <1>5, Zenon DEF Contexts, Working

\* While an upload is active the shutdown has not started.
LEMMA ActiveUpload ==
    ASSUME Contexts, NEW c \in Uploads, uploads[c].st # "free"
    PROVE  ~m_shutdownStarted
BY Zenon DEF Contexts, NoUploads

\* A thread in a context shares it with none.
LEMMA OwnContext ==
    ASSUME Types, Contexts, NEW t \in Threads, pc[t] \in Working
    PROVE  /\ arg[t].ctx \in Uploads
           /\ uploads[arg[t].ctx].st # "free"
           /\ \A u \in Threads : u # t /\ pc[u] \in Working => arg[u].ctx # arg[t].ctx /\ arg[u].ctx \in Uploads
BY Zenon DEF Contexts, Working, Types, Answered

\* A return keeps the phases.
LEMMA Phases_Return ==
    ASSUME Types, Phases, NEW t \in Threads, NEW l, Returns(t, l), SameRun, l \notin Stopping
    PROVE  Phases'
<1>1. pc[t] = l /\ pc'[t] = arg[t].cont /\ arg[t].cont \in {"idle", "sh_close"} /\ arg'[t].cont = "idle"
    BY ReturnLabel DEF Returns, Moves, NoArg
<1>2. \A u \in Threads : u # t => pc'[u] = pc[u] /\ arg'[u] = arg[u]
    BY Zenon DEF Returns, Moves
<1>3. ops' = ops /\ m_shutdownStarted' = m_shutdownStarted /\ m_db' = m_db
    BY Zenon DEF SameRun
<1>4. CASE t = "user"
    <2>1. /\ pc'["worker"] = pc["worker"] /\ arg'["worker"] = arg["worker"]
          /\ pc'["app"] = pc["app"] /\ arg'["app"] = arg["app"]
        BY <1>2, <1>4, Zenon DEF Threads
    <2>2. CASE arg["user"].cont = "sh_close"
        <3>. pc'["user"] = "sh_close" /\ arg'["user"].cont = "idle" /\ m_shutdownStarted /\ m_db
            BY <1>1, <1>4, <2>2, Zenon DEF Phases, FlushLabels
        <3>. QED
            BY <1>3, <2>1, Zenon
               DEF Phases, Retrieving, Responding, Scrubbing, Deleting, Stopping, ShutdownLabels,
                   FlushLabels
    <2>3. CASE arg["user"].cont = "idle"
        <3>. pc'["user"] = "idle" /\ arg'["user"].cont = "idle" /\ ~m_shutdownStarted
            BY <1>1, <1>4, <2>3, Zenon DEF Phases
        <3>. QED
            BY <1>3, <2>1, Zenon
               DEF Phases, Retrieving, Responding, Scrubbing, Deleting, Stopping, ShutdownLabels,
                   FlushLabels
    <2>. QED
        BY <1>1, <1>4, <2>2, <2>3, Zenon
<1>5. CASE t = "worker"
    <2>1. /\ pc'["user"] = pc["user"] /\ arg'["user"] = arg["user"]
          /\ pc'["app"] = pc["app"] /\ arg'["app"] = arg["app"]
        BY <1>2, <1>5, Zenon DEF Threads
    <2>2. pc'["worker"] = "idle" /\ arg'["worker"].cont = "idle"
        BY <1>1, <1>5, Zenon DEF Phases
    <2>. QED
        BY <1>3, <2>1, <2>2, Zenon DEF Phases, Scrubbing, Deleting, Stopping, ShutdownLabels
<1>6. CASE t = "app"
    <2>1. /\ pc'["user"] = pc["user"] /\ arg'["user"] = arg["user"]
          /\ pc'["worker"] = pc["worker"] /\ arg'["worker"] = arg["worker"]
        BY <1>2, <1>6, Zenon DEF Threads
    <2>2. pc'["app"] = "idle" /\ arg'["app"].cont = "idle"
        BY <1>1, <1>6, Zenon DEF Phases
    <2>. QED
        BY <1>3, <2>1, <2>2, Zenon DEF Phases, FlushLabels
<1>. QED
    BY <1>4, <1>5, <1>6, Zenon DEF Threads

-----------------------------------------------------------------------------
(* Where the records are *)

\* A record's place after a step, when the step stores none: what is somewhere was somewhere, a record
\* that is to be kept still is, and in one place.
Moved ==
    /\ Somewhere' \subseteq Somewhere
    /\ \A c \in Uploads : uploads'[c].ids \subseteq uploads[c].ids \cup Somewhere
    /\ \A r \in Records :
          fate'[r] \in Kept /\ (fate'[r] = "live" \/ m_db) /\ r \in Somewhere => r \in Somewhere'
    /\ AtMostOneCopy'
    /\ reserved' \cap Oversized = {}
Fated ==
    \A r \in Records :
        /\ fate'[r] = "new" <=> fate[r] = "new"
        /\ fate'[r] = "storing" => fate[r] = "storing"
        /\ fate'[r] = "live" => fate[r] = "live"
        /\ fate'[r] \in Kept \ {"storing"} => fate[r] \in Kept \ {"storing"}
        /\ fate[r] = "storing" /\ Unseen(r) => fate'[r] = "storing"

\* A step that changes no storage moves no record.
LEMMA Moved_Same ==
    ASSUME Places, SameMemory, disk' = disk, \A c \in Uploads : uploads'[c].ids \subseteq uploads[c].ids
    PROVE  Moved
BY Zenon DEF Moved, SameMemory, Places, AtMostOneCopy, Somewhere

\* A step that decides no fate.
LEMMA Fated_Same ==
    ASSUME fate' = fate
    PROVE  Fated
BY Zenon DEF Fated

\* A step that seals the fate of records that are somewhere or in a package.
LEMMA Fated_Seals ==
    ASSUME Types, NEW S, NEW f \in {"delivered", "killed", "dropped"}, Seals(S, f),
           \A r \in S : r \in Records => ~Unseen(r) \/ fate[r] # "storing"
    PROVE  Fated
<1>1. f \notin Kept /\ f # "new" /\ f # "storing" /\ "new" \notin Kept /\ "storing" \in Kept
    BY Zenon DEF Kept
<1>. QED
    BY <1>1, Zenon DEF Fated, Seals

\* A step that stores no record keeps them in their places.
LEMMA Places_Frame ==
    ASSUME Places, Moved, Fated, BufferOwned', m_db' = m_db,
           \A u \in Threads :
              /\ pc'[u] \in Storing => pc[u] \in Storing
              /\ pc'[u] \in Stored => pc[u] \in Stored
              /\ pc'[u] \in Storing \cup Stored => arg'[u].rec = arg[u].rec /\ arg[u].rec \in Records
    PROVE  Places'
<1>1. \A r \in Records : Unseen(r) => Unseen(r)'
    BY Zenon DEF Unseen, Moved
<1>2. NoRecordLost'
    <2> SUFFICES ASSUME NEW r \in Records, fate'[r] = "live" \/ (fate'[r] \in {"late", "doomed"} /\ m_db)
                 PROVE  r \in Somewhere'
        BY Zenon DEF NoRecordLost
    <2>1. fate'[r] \in Kept \ {"storing"}
        BY Zenon DEF Kept
    <2>2. /\ fate[r] = "live" \/ (fate[r] \in {"late", "doomed"} /\ m_db)
          /\ fate'[r] = "live" \/ m_db
        BY <2>1, Zenon DEF Fated, Kept
    <2>3. r \in Somewhere
        BY <2>2, Zenon DEF Places, NoRecordLost
    <2>. QED
        BY <2>1, <2>2, <2>3, Zenon DEF Moved
<1>3. \A u \in Threads : pc'[u] \in Stored => (fate'[arg'[u].rec] = "storing" /\ m_db => arg'[u].rec \in Somewhere')
    <2>. \A r \in Records : fate'[r] = "storing" => fate'[r] \in Kept /\ fate[r] = "storing"
        BY Zenon DEF Fated, Kept
    <2>. QED
        BY Zenon DEF Places, Moved
<1>4. \A r \in Records : fate'[r] = "new" => Unseen(r)'
    BY <1>1, Zenon DEF Places, Fresh, Fated
<1>5. \A u \in Threads : pc'[u] \in Storing => fate'[arg'[u].rec] = "storing" /\ Unseen(arg[u].rec)'
    <2> SUFFICES ASSUME NEW u \in Threads, pc'[u] \in Storing
                 PROVE  fate'[arg'[u].rec] = "storing" /\ Unseen(arg[u].rec)'
        BY Zenon
    <2>1. PICK r \in Records : arg[u].rec = r /\ arg'[u].rec = r /\ fate[r] = "storing" /\ Unseen(r)
        BY Zenon DEF Places, Fresh
    <2>2. fate'[r] = "storing" /\ Unseen(r)'
        BY <1>1, <2>1, Zenon DEF Fated
    <2>. QED
        BY <2>1, <2>2, Zenon DEF Unseen
<1>6. \A u \in Threads : pc'[u] \in Stored => fate'[arg'[u].rec] # "new"
    BY DEF Places, Fresh, Fated
<1>7. \A t, u \in Threads :
          t # u /\ pc'[t] \in Storing \cup Stored /\ pc'[u] \in Storing \cup Stored =>
             arg'[t].rec # arg'[u].rec
    BY Zenon DEF Places, Fresh
<1>8. Fresh'
    BY <1>4, <1>5, <1>6, <1>7, Zenon DEF Fresh
<1>. QED
    BY <1>2, <1>3, <1>8, Zenon DEF Places, Moved

\* A step that does not touch the buffer and ends no flush.
LEMMA BufferOwned_Frame ==
    ASSUME BufferOwned, buffer' = buffer, \A u \in Threads : pc[u] \in Draining => pc'[u] \in Draining
    PROVE  BufferOwned'
BY Zenon DEF BufferOwned

\* While a thread is about to take the queue, Flush's buffer is empty.
LEMMA BufferEmpty ==
    ASSUME Control, Places, NEW t \in Threads, pc[t] = "fl_take"
    PROVE  buffer = {}
BY Zenon DEF Control, LockOwner, LockHeld, Places, BufferOwned, Draining

\* What the steps of a thread mean for the records it stores and for the buffer.
LEMMA Places_Move ==
    ASSUME Control, Places, Moved, Fated, buffer' = buffer, m_db' = m_db,
           NEW t \in Threads, NEW l, NEW m, Moves(t, l, m), l # "fl_store", l # "fl_resize", m \notin Storing \cup Stored,
           \A u \in Threads : u # t => arg'[u] = arg[u]
    PROVE  Places'
<1>1. BufferOwned'
    BY BufferOwned_Frame, Zenon DEF Moves, Places, Draining
<1>2. \A u \in Threads :
              /\ pc'[u] \in Storing => pc[u] \in Storing
              /\ pc'[u] \in Stored => pc[u] \in Stored
              /\ pc'[u] \in Storing \cup Stored => arg'[u].rec = arg[u].rec /\ arg[u].rec \in Records
    <2> SUFFICES ASSUME NEW u \in Threads, pc'[u] \in Storing \cup Stored
                 PROVE  pc'[u] = pc[u] /\ arg'[u].rec = arg[u].rec /\ arg[u].rec \in Records
        BY Zenon
    <2>1. u # t
        BY Zenon DEF Moves
    <2>. QED
        BY <2>1, Zenon DEF Moves, Control, Types
<1>. QED
    BY <1>1, <1>2, Places_Frame, Zenon

\* What a return means for them.
LEMMA Places_Return ==
    ASSUME Control, Places, Moved, Fated, buffer' = buffer, m_db' = m_db,
           NEW t \in Threads, NEW l, Returns(t, l), l = "fl_store" => buffer = {}, l # "fl_resize"
    PROVE  Places'
<1>0. Types
    BY Zenon DEF Control
<1>1. BufferOwned'
    BY Zenon DEF Returns, Moves, Places, BufferOwned, Draining
<1>2. pc'[t] \notin Storing \cup Stored
    BY <1>0, ReturnLabel, Zenon DEF Returns, Moves, Storing, Stored
<1>3. \A u \in Threads :
              /\ pc'[u] \in Storing => pc[u] \in Storing
              /\ pc'[u] \in Stored => pc[u] \in Stored
              /\ pc'[u] \in Storing \cup Stored => arg'[u].rec = arg[u].rec /\ arg[u].rec \in Records
    <2> SUFFICES ASSUME NEW u \in Threads, pc'[u] \in Storing \cup Stored
                 PROVE  pc'[u] = pc[u] /\ arg'[u].rec = arg[u].rec /\ arg[u].rec \in Records
        BY Zenon
    <2>1. u # t
        BY <1>2, Zenon
    <2>. QED
        BY <1>0, <2>1, Zenon DEF Returns, Moves, Types
<1>. QED
    BY <1>1, <1>3, Places_Frame, Zenon

-----------------------------------------------------------------------------
(* What is in a package *)

\* A step that adds nothing to a package, and puts nothing that stays in one where a flush could
\* take it.
LEMMA Held_Frame ==
    ASSUME Held, NEW U,
           \A c \in Uploads : uploads'[c].ids \subseteq uploads[c].ids,
           \A c \in Uploads : uploads'[c].ids \cap U \subseteq Oversized,
           memory' \cup buffer' \subseteq memory \cup buffer \cup U,
           reserved' \subseteq reserved
    PROVE  Held'
BY Zenon DEF Held

\* A step that moves no record to or from a package.
LEMMA Held_Same ==
    ASSUME Held, SameMemory, \A c \in Uploads : uploads'[c].ids \subseteq uploads[c].ids
    PROVE  Held'
<1>1. \A c \in Uploads : uploads'[c].ids \cap {} \subseteq Oversized
    BY Zenon
<1>. QED
    BY <1>1, Held_Frame, Zenon DEF SameMemory

-----------------------------------------------------------------------------
(* Shutdown *)

\* Nothing is to be saved before the shutdown has started.
LEMMA Saved_Early ==
    ASSUME Phases', ~m_shutdownStarted'
    PROVE  Saved'
BY Zenon DEF Phases, Saved, Stopping, ShutdownLabels, FlushLabels, Draining, Flushed

\* After it has started no thread is in an upload.
LEMMA NoWork ==
    ASSUME Types, Contexts, m_shutdownStarted, NEW t \in Threads
    PROVE  pc[t] \notin Working
BY OwnContext, Zenon DEF Contexts, NoUploads

\* A step that takes the user's thread no further, and brings no record that is to be saved back to
\* memory.
LEMMA Saved_Stage ==
    ASSUME Saved, reserved' \subseteq reserved,
           pc'["user"] \in FlushLabels \cup Flushed => pc["user"] \in FlushLabels \cup Flushed,
           pc'["user"] \in Draining \cup Flushed => pc["user"] \in Draining \cup Flushed,
           pc'["user"] \in Flushed => pc["user"] \in Flushed,
           \A r \in Records : fate'[r] = "live" =>
              /\ fate[r] = "live"
              /\ r \in memory' => r \in memory
              /\ r \in buffer' => r \in buffer \cup memory
    PROVE  Saved'
<1>1. reserved = {} => reserved' = {}
    BY Zenon
<1>2. pc["user"] \in Flushed => pc["user"] \in Draining \cup Flushed
    BY Zenon
<1>. QED
    BY <1>1, <1>2, Zenon DEF Saved

\* A step of another thread.
LEMMA Saved_Frame ==
    ASSUME Saved, pc'["user"] = pc["user"], reserved' \subseteq reserved,
           \A r \in Records : fate'[r] = "live" =>
              /\ fate[r] = "live"
              /\ r \in memory' => r \in memory
              /\ r \in buffer' => r \in buffer \cup memory
    PROVE  Saved'
BY Saved_Stage, Zenon

-----------------------------------------------------------------------------
(* A pending flush *)

\* A step that sets no flag and ends no flush.
LEMMA Pending_Frame ==
    ASSUME PendingFlushHasTask, m_flushPending' = m_flushPending, flushTask' = flushTask,
           \A u \in Threads : pc[u] \in FlushLabels => pc'[u] \in FlushLabels
    PROVE  PendingFlushHasTask'
BY Zenon DEF PendingFlushHasTask

-----------------------------------------------------------------------------
(* Removed records stay removed *)

\* The only records a step brings into a storage are those StoreRecord is storing.
Arrives == \A r \in Records : r \in Somewhere' => r \in Somewhere \/ fate'[r] = "storing"

LEMMA Arrives_Same ==
    ASSUME SameMemory, disk' \subseteq disk
    PROVE  Arrives
BY Zenon DEF Arrives, SameMemory, Somewhere

-----------------------------------------------------------------------------
(* Killed tenants *)

\* The tenant being scrubbed is a function of the worker's argument.
LEMMA SameKey ==
    ASSUME arg'["worker"] = arg["worker"]
    PROVE  ScrubKey' = ScrubKey
BY Zenon DEF ScrubKey

\* While the worker scrubs, no flush is between the queue and the disk.
LEMMA ScrubAlone ==
    ASSUME Control, Places, ops \cap {"Flush", "Immediate"} = {}, pc["worker"] \in Scrubbing
    PROVE  buffer = {}
<1>1. ~m_shutdownStarted
    BY NoWork, Zenon DEF Control, Working, Responding, Threads
<1>2. \A t \in Threads : pc[t] \notin Draining
    BY <1>1, Zenon DEF Control, Phases, FlushLabels, Draining, Scrubbing, Threads
<1>. QED
    BY <1>2, Zenon DEF Places, BufferOwned

\* A step other than the scrub's.
LEMMA Scrubbed_Frame ==
    ASSUME Scrubbed, Arrives, ops' = ops,
           ops \cap {"Flush", "Immediate"} = {} /\ pc'["worker"] \in {"ks_memory", "ks_disk"} =>
              /\ pc'["worker"] = pc["worker"] /\ arg'["worker"] = arg["worker"]
              /\ reserved' \subseteq reserved
              /\ \A r \in Records : fate'[r] = "doomed" => fate[r] = "doomed" /\ (r \in memory' => r \in memory),
           \A r \in Records : fate'[r] = "killed" => fate[r] = "killed"
    PROVE  Scrubbed'
<1> SUFFICES ASSUME ops \cap {"Flush", "Immediate"} = {}
    PROVE  /\ pc'["worker"] \in {"ks_memory", "ks_disk"} =>
                 \A r \in Records : fate'[r] = "doomed" /\ Tenant[r] = ScrubKey' => r \notin reserved'
           /\ pc'["worker"] = "ks_disk" =>
                 \A r \in Records : fate'[r] = "doomed" /\ Tenant[r] = ScrubKey' => r \notin memory'
           /\ \A r \in Records : fate'[r] = "killed" => r \notin Somewhere'
    BY Zenon DEF Scrubbed
<1>1. pc'["worker"] \in {"ks_memory", "ks_disk"} => ScrubKey' = ScrubKey
    BY SameKey, Zenon
<1>2. \A r \in Records : fate'[r] = "killed" => r \notin Somewhere'
    BY Zenon DEF Scrubbed, Arrives
<1>3. ASSUME pc'["worker"] \in {"ks_memory", "ks_disk"}
      PROVE  \A r \in Records : fate'[r] = "doomed" /\ Tenant[r] = ScrubKey' => r \notin reserved'
    BY <1>1, <1>3, Zenon DEF Scrubbed
<1>4. ASSUME pc'["worker"] = "ks_disk"
      PROVE  \A r \in Records : fate'[r] = "doomed" /\ Tenant[r] = ScrubKey' => r \notin memory'
    BY <1>1, <1>4, Zenon DEF Scrubbed
<1>. QED
    BY <1>2, <1>3, <1>4, Zenon

-----------------------------------------------------------------------------
(* Where the records of a package are *)

\* With one reader only the worker collects packages and handles responses, and nobody deletes all.
LEMMA OnlyWorker ==
    ASSUME Control, OneReader
    PROVE  /\ \A t \in Threads : t # "worker" => pc[t] \notin Retrieving \cup Responding
           /\ pc["user"] \notin Deleting
BY Zenon DEF Control, Phases, OneReader, Threads, FlushLabels, Retrieving, Responding, Scrubbing

\* A package that stays the same stays located, when what reaches the disk was not in a package.
LEMMA Located_Frame ==
    ASSUME NEW c \in Uploads, uploads'[c].ids = uploads[c].ids, reserved' \subseteq reserved,
           \A r \in disk' \ disk : r \notin uploads[c].ids \ Oversized
    PROVE  \A b \in BOOLEAN : Located(c, b) => Located(c, b)'
BY Zenon DEF Located

\* What reaches the disk was not in a package.
LEMMA Disk_Frame ==
    ASSUME Held, disk' \subseteq disk \cup buffer
    PROVE  \A c \in Uploads : \A r \in disk' \ disk : r \notin uploads[c].ids \ Oversized
BY Zenon DEF Held

\* A step that is not one of the upload's.
LEMMA Settled_Frame ==
    ASSUME Types, Settled, Arrives, ops' = ops,
           OneReader =>
              /\ uploads' = uploads /\ reserved' \subseteq reserved
              /\ \A c \in Uploads : \A r \in disk' \ disk : r \notin uploads[c].ids \ Oversized
              /\ pc'["worker"] \in Retrieving =>
                    pc'["worker"] = pc["worker"] /\ arg'["worker"].ctx = arg["worker"].ctx
              /\ memoryReadCount' \in {memoryReadCount, 1} /\ diskReadCount' = diskReadCount
              /\ m_readFromMemory' = m_readFromMemory
              /\ \A r \in Records : fate'[r] = "delivered" => fate[r] = "delivered"
    PROVE  Settled'
<1> SUFFICES ASSUME OneReader PROVE Settled'
    BY Zenon DEF Settled, OneReader
<1> DEFINE w == arg["worker"].ctx
<1>1. \A c \in Uploads : \A b \in BOOLEAN : Located(c, b) => Located(c, b)'
    BY Located_Frame, Zenon
<1>2. pc'["worker"] \in Retrieving => w \in Uploads /\ arg'["worker"].ctx = w
    BY Zenon DEF Types, Threads
<1>3. \A c \in Uploads : uploads[c].st \in Answered \cup {"sent"} => Located(c, uploads[c].fromMemory)'
    <2>1. \A c \in Uploads : uploads[c].fromMemory \in BOOLEAN
        BY Zenon DEF Types, TypeOK
    <2>2. \A c \in Uploads : uploads[c].st \in Answered \cup {"sent"} => Located(c, uploads[c].fromMemory)
        BY Zenon DEF Settled
    <2>3. \A c \in Uploads : uploads'[c].fromMemory = uploads[c].fromMemory
        BY Zenon
    <2>4. ASSUME NEW c \in Uploads, uploads[c].st \in Answered \cup {"sent"}
          PROVE  Located(c, uploads[c].fromMemory)'
        <3>1. PICK b \in BOOLEAN : b = uploads[c].fromMemory
            BY <2>1, Zenon
        <3>2. Located(c, b)'
            BY <1>1, <2>2, <2>4, <3>1, Zenon
        <3>. QED
            BY <2>3, <3>1, <3>2, Zenon DEF Located
    <2>. QED
        BY <2>4, Zenon
<1>4. ASSUME pc'["worker"] = "gr_count"
      PROVE  /\ Located(arg["worker"].ctx, TRUE)'
             /\ uploads[w].ids \subseteq Oversized \/ memoryReadCount' = 1
    <2>1. /\ pc["worker"] = "gr_count" /\ w \in Uploads /\ arg'["worker"].ctx = w
        BY <1>2, <1>4, Zenon DEF Retrieving
    <2>2. /\ Located(w, TRUE)
          /\ uploads[w].ids \subseteq Oversized \/ memoryReadCount = 1
        BY <2>1, Zenon DEF Settled
    <2>3. PICK c \in Uploads : c = w /\ c = arg'["worker"].ctx
        BY <2>1, Zenon
    <2>4. Located(c, TRUE)'
        BY <1>1, <2>2, <2>3, Zenon
    <2>. QED
        BY <2>2, <2>3, <2>4, Zenon DEF Located
<1>5. ASSUME pc'["worker"] = "gr_disk"
      PROVE  uploads[w].ids \subseteq Oversized
    BY <1>5, Zenon DEF Settled, Retrieving
<1>6. ASSUME pc'["worker"] = "gr_diskcount"
      PROVE  /\ Located(arg["worker"].ctx, FALSE)'
             /\ uploads[w].ids \subseteq Oversized \/ diskReadCount = 1
    <2>1. /\ pc["worker"] = "gr_diskcount" /\ w \in Uploads /\ arg'["worker"].ctx = w
        BY <1>2, <1>6, Zenon DEF Retrieving
    <2>2. /\ Located(w, FALSE)
          /\ uploads[w].ids \subseteq Oversized \/ diskReadCount = 1
        BY <2>1, Zenon DEF Settled
    <2>3. PICK c \in Uploads : c = w /\ c = arg'["worker"].ctx
        BY <2>1, Zenon
    <2>4. Located(c, FALSE)'
        BY <1>1, <2>2, <2>3, Zenon
    <2>. QED
        BY <2>2, <2>3, <2>4, Zenon DEF Located
<1>7. ASSUME pc'["worker"] = "gr_end"
      PROVE  Located(arg["worker"].ctx, m_readFromMemory)'
    <2>1. /\ pc["worker"] = "gr_end" /\ w \in Uploads /\ arg'["worker"].ctx = w
        BY <1>2, <1>7, Zenon DEF Retrieving
    <2>2. Located(w, m_readFromMemory)
        BY <2>1, Zenon DEF Settled
    <2>3. PICK c \in Uploads, b \in BOOLEAN : c = w /\ c = arg'["worker"].ctx /\ b = m_readFromMemory
        BY <2>1, Zenon DEF Types, TypeOK
    <2>4. Located(c, b)'
        BY <1>1, <2>2, <2>3, Zenon
    <2>. QED
        BY <2>3, <2>4 DEF Located
<1>8. OneReaderSettles'
    <2>1. \A r \in Records \ Oversized : fate'[r] = "delivered" => r \notin Somewhere'
        BY Zenon DEF Settled, OneReaderSettles, Arrives
    <2>2. reserved' \subseteq UNION {uploads[c].ids : c \in Uploads}
        BY Zenon DEF Settled, OneReaderSettles
    <2>. QED
        BY <2>1, <2>2, Zenon DEF OneReaderSettles
<1>9. /\ uploads' = uploads /\ diskReadCount' = diskReadCount /\ (pc'["worker"] \in Retrieving => arg'["worker"].ctx = w)
      /\ "gr_count" \in Retrieving /\ "gr_disk" \in Retrieving /\ "gr_diskcount" \in Retrieving
    BY Zenon DEF Retrieving
<1>. QED
    BY <1>3, <1>4, <1>5, <1>6, <1>7, <1>8, <1>9, Zenon DEF Settled

-----------------------------------------------------------------------------
(* The invariant, and what each action does to it *)

Inv ==
    /\ Control /\ Places /\ Held
    /\ Saved /\ Scrubbed /\ Settled
    /\ PendingFlushHasTask

\* StoreRecord: refused, or about to be stored.
LEMMA StoreRecord_Keeps ==
    ASSUME Inv, NEW t \in Threads, NEW r \in Records, StoreRecord(t, r)
    PROVE  Inv'
<1>. Control /\ Types /\ LockOwner /\ Contexts /\ Phases /\ Places /\ Held /\ Saved /\ Scrubbed /\ Settled
     /\ PendingFlushHasTask
    BY Zenon DEF Inv, Control
<1>1. /\ TypeOK'
      /\ SameMemory /\ SameDisk /\ SameReads /\ SameFlush /\ SameRun /\ uploads' = uploads
      /\ fate[r] = "new"
      /\ \A q \in Records : q # r => fate'[q] = fate[q]
      /\ \/ pc' = pc /\ arg' = arg /\ fate'[r] = "dropped"
         \/ /\ t = "user" \/ t = "worker"
            /\ Moves(t, "idle", IF m_shutdownStarted THEN "st_disk" ELSE "st_memory")
            /\ fate'[r] = "storing"
            /\ arg'[t].rec = r /\ arg'[t].ctx = arg[t].ctx /\ arg'[t].keys = arg[t].keys
            /\ arg'[t].cont = arg[t].cont
            /\ \A u \in Threads : u # t => arg'[u] = arg[u]
    <2>1. /\ SameMemory /\ SameDisk /\ SameReads /\ SameFlush /\ SameRun /\ uploads' = uploads
          /\ memoryReadCount' = memoryReadCount /\ diskReadCount' = diskReadCount
          /\ retryCount' = retryCount /\ m_flushComplete' = m_flushComplete
          /\ m_lastReadCount' = m_lastReadCount
          /\ fate[r] = "new" /\ pc[t] = "idle" /\ (t = "user" \/ t = "worker")
        BY Zenon DEF StoreRecord, memoryVars, diskVars, flushVars, readVars, killVars, SameMemory, SameDisk, SameReads,
               SameFlush, SameRun
    <2>k. m_tokenTime' \subseteq Tenants /\ m_isRetryAfterActive' \in BOOLEAN
        <3>1. m_tokenTime \subseteq Tenants /\ m_isRetryAfterActive \in BOOLEAN
            BY Zenon DEF Types, TypeOK
        <3>2. CASE UNCHANGED killVars
            BY <3>1, <3>2, Zenon DEF killVars
        <3>3. CASE m_tokenTime' \subseteq m_tokenTime /\ m_isRetryAfterActive' = FALSE
            BY <3>1, <3>3, Zenon
        <3>4. Blocked(r) => UNCHANGED killVars \/ (m_tokenTime' \subseteq m_tokenTime /\ m_isRetryAfterActive' = FALSE)
            BY Zenon DEF Blocked
        <3>5. Admitted(r) => UNCHANGED killVars \/ (m_tokenTime' \subseteq m_tokenTime /\ m_isRetryAfterActive' = FALSE)
            BY Zenon DEF Admitted
        <3>. QED
            BY <3>2, <3>3, <3>4, <3>5, Zenon DEF StoreRecord
    <2>2. CASE UNCHANGED <<pc, arg>> /\ fate' = [fate EXCEPT ![r] = "dropped"]
        BY <2>1, <2>k, <2>2, Zenon DEF Types, TypeOK, SameMemory, SameDisk, SameReads, SameFlush, SameRun, Fates
    <2>3. CASE /\ arg' = [arg EXCEPT ![t].rec = r, ![t].full = Cardinality(memory) > MemoryLimit]
               /\ Goto(t, IF m_shutdownStarted THEN "st_disk" ELSE "st_memory")
               /\ fate' = [fate EXCEPT ![r] = "storing"]
        <3>1. pc' \in [Threads -> Labels] /\ Moves(t, "idle", IF m_shutdownStarted THEN "st_disk" ELSE "st_memory")
            <4>. (IF m_shutdownStarted THEN "st_disk" ELSE "st_memory") \in Labels
                BY Zenon DEF Labels
            <4>. QED
                BY <2>1, <2>3, GotoMoves DEF Types, TypeOK
        <3>2. /\ arg' \in [Threads -> ArgType]
              /\ arg'[t].rec = r /\ arg'[t].ctx = arg[t].ctx /\ arg'[t].keys = arg[t].keys
              /\ arg'[t].cont = arg[t].cont
              /\ \A u \in Threads : u # t => arg'[u] = arg[u]
            <4>. (Cardinality(memory) > MemoryLimit) \in BOOLEAN
                OBVIOUS
            <4>. arg \in [Threads -> ArgType]
                BY Zenon DEF Types, TypeOK, ArgType
            <4>. QED
                BY <2>3, Zenon DEF ArgType
        <3>3. fate' \in [Records -> Fates] /\ fate'[r] = "storing" /\ \A q \in Records : q # r => fate'[q] = fate[q]
            BY <2>3, Zenon DEF Types, TypeOK, Fates, Kept
        <3>4. TypeOK'
            BY <2>1, <2>k, <3>1, <3>2, <3>3, Zenon
               DEF Types, TypeOK, SameMemory, SameDisk, SameReads, SameFlush, SameRun, ArgType
        <3>. QED
            BY <2>1, <3>1, <3>2, <3>3, <3>4, Zenon
    <2>. QED
        BY <2>2, <2>3, Zenon DEF StoreRecord
<1>db. m_db' = m_db
    BY <1>1, Zenon DEF SameRun
<1>2. Types'
    BY <1>1, Types_Move, Zenon DEF Types, Storing, Stored, Retrieving, Responding, Scrubbing, Moves, Returns
<1>3. LockOwner'
    BY <1>1, LockOwner_Frame, Zenon DEF Moves, Returns, SameFlush, LockHeld, Threads
<1>4. Contexts'
    <2>1. uploads' = uploads /\ m_shutdownStarted' = m_shutdownStarted
        BY <1>1, Zenon DEF SameRun
    <2>2. CASE pc' = pc /\ arg' = arg
        BY <2>1, <2>2, Contexts_Frame, Zenon
    <2>3. CASE ~(pc' = pc /\ arg' = arg)
        BY <2>1, <2>3, <1>1, Contexts_Outside, Zenon
           DEF Storing, Stored, Retrieving, Responding, Scrubbing, Moves, Returns, Working
    <2>. QED
        BY <2>2, <2>3, Zenon
<1>5. Phases'
    BY <1>1, ReturnLabel
       DEF Phases, SameRun, Threads, Moves, Returns, NoArg, Storing, Stored, Retrieving, Responding,
           Scrubbing, Deleting, Stopping, ShutdownLabels, FlushLabels
<1>6. Places'
    <2>1. /\ SameMemory /\ disk' = disk /\ uploads' = uploads /\ fate[r] = "new"
          /\ \A q \in Records : q # r => fate'[q] = fate[q]
        BY <1>1, Zenon DEF SameDisk
    <2>2. Moved
        BY <2>1, Moved_Same, Zenon
    <2>3. Unseen(r) /\ \A q \in Records : Unseen(q) => Unseen(q)'
        BY <2>1, <2>2, Zenon DEF Places, Fresh, Unseen, Moved
    <2>4. \A u \in Threads : pc[u] \in Storing \cup Stored => arg[u].rec \in Records /\ arg[u].rec # r
        BY <2>1, Zenon DEF Places, Fresh, Control, Types
    <2>5. CASE pc' = pc /\ arg' = arg /\ fate'[r] = "dropped"
        <3>1. NoRecordLost'
            BY <1>db, <2>1, <2>2, <2>5 DEF NoRecordLost, Places, Moved, Kept
        <3>2. BufferOwned'
            BY <2>1, <2>5, Zenon DEF BufferOwned, Places, SameMemory
        <3>3. \A u \in Threads : pc[u] \in Stored => (fate'[arg[u].rec] = "storing" /\ m_db' => arg[u].rec \in Somewhere')
            BY <1>db, <2>1, <2>2, <2>4, Zenon DEF Places, Moved, Kept
        <3>4. \A q \in Records : fate'[q] = "new" => Unseen(q)'
            BY <2>1, <2>3, <2>5, Zenon DEF Places, Fresh
        <3>5. \A u \in Threads : pc'[u] \in Storing => fate'[arg'[u].rec] = "storing" /\ Unseen(arg[u].rec)'
            <4> SUFFICES ASSUME NEW u \in Threads, pc'[u] \in Storing
                         PROVE  fate'[arg'[u].rec] = "storing" /\ Unseen(arg[u].rec)'
                BY Zenon
            <4>1. PICK q \in Records : q = arg[u].rec /\ q = arg'[u].rec /\ q # r /\ fate[q] = "storing" /\ Unseen(q)
                BY <2>4, <2>5, Zenon DEF Places, Fresh
            <4>2. fate'[q] = "storing" /\ Unseen(q)'
                BY <2>1, <2>3, <4>1, Zenon
            <4>. QED
                BY <4>1, <4>2, Zenon DEF Unseen
        <3>6. Fresh'
            BY <2>1, <2>4, <2>5, <3>4, <3>5, Zenon DEF Places, Fresh
        <3>. QED
            BY <2>2, <2>5, <3>1, <3>2, <3>3, <3>6, Zenon DEF Places, Moved
    <2>6. ASSUME NEW l \in Storing, Moves(t, "idle", l), fate'[r] = "storing", arg'[t].rec = r,
                 \A u \in Threads : u # t => arg'[u] = arg[u]
          PROVE  Places'
        <3>1. NoRecordLost'
            BY <1>db, <2>1, <2>2, <2>6 DEF NoRecordLost, Places, Moved, Kept
        <3>2. BufferOwned'
            BY <2>1, <2>6, BufferOwned_Frame, Zenon DEF Moves, Places, SameMemory, Draining
        <3>3. pc'[t] \notin Stored /\ pc[t] \notin Storing \cup Stored
            BY <2>6, Zenon DEF Moves, Storing, Stored
        <3>4. \A u \in Threads : pc'[u] \in Stored => (fate'[arg'[u].rec] = "storing" /\ m_db' => arg'[u].rec \in Somewhere')
            BY <1>db, <2>1, <2>2, <2>4, <2>6, <3>3 DEF Places, Moved, Kept, Moves
        <3>5. \A q \in Records : fate'[q] = "new" => Unseen(q)'
            BY <2>1, <2>3, <2>6, Zenon DEF Places, Fresh
        <3>6. \A u \in Threads : pc'[u] \in Storing => fate'[arg'[u].rec] = "storing" /\ Unseen(arg[u].rec)'
            <4> SUFFICES ASSUME NEW u \in Threads, pc'[u] \in Storing
                         PROVE  fate'[arg'[u].rec] = "storing" /\ Unseen(arg[u].rec)'
                BY Zenon
            <4>1. CASE u = t
                BY <2>3, <2>6, <4>1, Zenon DEF Unseen
            <4>2. CASE u # t
                <5>1. PICK q \in Records : q = arg[u].rec /\ q = arg'[u].rec /\ q # r /\ fate[q] = "storing" /\ Unseen(q)
                    BY <2>4, <2>6, <4>2, Zenon DEF Places, Fresh, Moves
                <5>2. fate'[q] = "storing" /\ Unseen(q)'
                    BY <2>1, <2>3, <5>1, Zenon
                <5>. QED
                    BY <5>1, <5>2, Zenon DEF Unseen
            <4>. QED
                BY <4>1, <4>2, Zenon
        <3>7. \A u \in Threads : pc'[u] \in Stored => fate'[arg'[u].rec] # "new"
            BY <2>1, <2>4, <2>6, <3>3 DEF Places, Fresh, Moves
        <3>8. \A v, u \in Threads :
                 v # u /\ pc'[v] \in Storing \cup Stored /\ pc'[u] \in Storing \cup Stored => arg'[v].rec # arg'[u].rec
            BY <2>4, <2>6 DEF Places, Fresh, Moves
        <3>9. Fresh'
            BY <3>5, <3>6, <3>7, <3>8, Zenon DEF Fresh
        <3>. QED
            BY <2>2, <3>1, <3>2, <3>4, <3>9, Zenon DEF Places, Moved
    <2>7. "st_disk" \in Storing /\ "st_memory" \in Storing
        BY Zenon DEF Storing
    <2>. QED
        BY <2>5, <2>6, <2>7, <1>1, Zenon
<1>7. Held'
    BY <1>1, Held_Same, Zenon
<1>8. Saved'
    <2> SUFFICES ASSUME m_shutdownStarted' PROVE Saved'
        BY <1>5, Saved_Early, Zenon
    <2>1. m_shutdownStarted /\ pc["user"] \in Stopping \cup FlushLabels
        BY <1>1, Zenon DEF SameRun, Control, Phases
    <2>2. pc'["user"] = pc["user"]
        BY <2>1, <1>1, Zenon DEF Moves, Returns, Stopping, FlushLabels, ShutdownLabels, Threads
    <2>3. reserved' = reserved
        BY <1>1, Zenon DEF SameMemory
    <2>4. \A q \in Records : fate'[q] = "live" =>
              /\ fate[q] = "live"
              /\ q \in memory' => q \in memory
              /\ q \in buffer' => q \in buffer \cup memory
        BY <1>1, Zenon DEF SameMemory
    <2>. QED
        BY <2>2, <2>3, <2>4, Saved_Frame, Zenon
<1>9. Arrives
    BY <1>1, Arrives_Same, Zenon DEF SameDisk
<1>10. Scrubbed'
    <2>1. ops' = ops
        BY <1>1, Zenon DEF SameRun
    <2>2. \A q \in Records : fate'[q] = "killed" => fate[q] = "killed"
        BY <1>1, Zenon
    <2>3. ops \cap {"Flush", "Immediate"} = {} /\ pc'["worker"] \in {"ks_memory", "ks_disk"} =>
              /\ pc'["worker"] = pc["worker"] /\ arg'["worker"] = arg["worker"]
              /\ reserved' \subseteq reserved
              /\ \A q \in Records : fate'[q] = "doomed" => fate[q] = "doomed" /\ (q \in memory' => q \in memory)
        BY <1>1, Zenon DEF Moves, SameMemory, Threads, ShutdownLabels
    <2>. QED
        BY <1>9, <2>1, <2>2, <2>3, Scrubbed_Frame, Zenon
<1>11. Settled'
    <2>1. ops' = ops
        BY <1>1, Zenon DEF SameRun
    <2>2. OneReader =>
              /\ uploads' = uploads /\ reserved' \subseteq reserved
              /\ memoryReadCount' \in {memoryReadCount, 1} /\ diskReadCount' = diskReadCount
              /\ m_readFromMemory' = m_readFromMemory
        BY <1>1, Zenon DEF SameReads, SameMemory
    <2>3. \A c \in Uploads : \A q \in disk' \ disk : q \notin uploads[c].ids \ Oversized
        BY <1>1, Zenon DEF SameDisk
    <2>4. pc'["worker"] \in Retrieving =>
              pc'["worker"] = pc["worker"] /\ arg'["worker"].ctx = arg["worker"].ctx
        BY <1>1, Zenon DEF Moves, Retrieving, Threads, Stored, ShutdownLabels
    <2>5. \A q \in Records : fate'[q] = "delivered" => fate[q] = "delivered"
        BY <1>1, Zenon
    <2>. QED
        BY <1>9, <2>1, <2>2, <2>3, <2>4, <2>5, Settled_Frame, Zenon
<1>12. PendingFlushHasTask'
    BY <1>1, Pending_Frame, Zenon DEF SameFlush, Moves, Returns, FlushLabels, Threads
<1>. QED
    BY <1>2, <1>3, <1>4, <1>5, <1>6, <1>7, <1>8, <1>10, <1>11, <1>12, Zenon DEF Inv, Control

\* The record joins the memory queue.
LEMMA StoreRecord_Memory_Keeps ==
    ASSUME Inv, NEW t \in Threads, StoreRecord_Memory(t)
    PROVE  Inv'
<1>. Control /\ Types /\ LockOwner /\ Contexts /\ Phases /\ Places /\ Held /\ Saved /\ Scrubbed /\ Settled
     /\ PendingFlushHasTask
    BY Zenon DEF Inv, Control
<1>1. /\ TypeOK'
      /\ memory' = memory \cup {arg[t].rec} /\ reserved' = reserved /\ buffer' = buffer
      /\ SameDisk /\ SameReads /\ SameFlush /\ SameRun /\ uploads' = uploads
      /\ arg' = arg /\ fate' = fate
      /\ \E l \in Stored : Moves(t, "st_memory", l)
    <2>1. /\ memory' = memory \cup {arg[t].rec} /\ reserved' = reserved /\ buffer' = buffer
          /\ SameDisk /\ SameReads /\ SameFlush /\ SameRun /\ uploads' = uploads
          /\ retryCount' = retryCount /\ m_flushComplete' = m_flushComplete
          /\ m_lastReadCount' = m_lastReadCount /\ m_tokenTime' = m_tokenTime
          /\ m_isRetryAfterActive' = m_isRetryAfterActive
          /\ arg' = arg /\ fate' = fate /\ pc[t] = "st_memory"
        BY Zenon
           DEF StoreRecord_Memory, diskVars, flushVars, readVars, killVars, SameDisk, SameReads, SameFlush, SameRun
    <2>2. pc' \in [Threads -> Labels] /\ \E l \in Stored : Moves(t, "st_memory", l)
        <3>. (IF arg[t].full THEN "st_flush" ELSE "st_end") \in Labels \cap Stored
            BY Zenon DEF Labels, Stored
        <3>. QED
            BY <2>1, GotoMoves DEF StoreRecord_Memory, Types, TypeOK
    <2>3. arg[t].rec \in Records
        BY <2>1, Zenon DEF Types, Storing
    <2>4. TypeOK'
        BY <2>1, <2>2, <2>3, Zenon DEF Types, TypeOK, SameDisk, SameReads, SameFlush, SameRun
    <2>. QED
        BY <2>1, <2>2, <2>4, Zenon
<1>db. m_db' = m_db
    BY <1>1, Zenon DEF SameRun
<1>2. Types'
    BY <1>1, Types_Move, Zenon DEF Types, Storing, Stored, Retrieving, Responding, Scrubbing, Moves, Returns
<1>3. LockOwner'
    BY <1>1, LockOwner_Frame, Zenon DEF Moves, Returns, SameFlush, LockHeld, Threads, Stored
<1>4. Contexts'
    BY <1>1, Contexts_Outside, Zenon
       DEF SameRun, Storing, Stored, Retrieving, Responding, Scrubbing, Moves, Returns, Working
<1>5. Phases'
    BY <1>1, ReturnLabel, Zenon
       DEF Phases, SameRun, Threads, Moves, Returns, NoArg, Storing, Stored, Retrieving, Responding,
           Scrubbing, Deleting, Stopping, ShutdownLabels, FlushLabels
<1>6. Places'
    <2> DEFINE r == arg[t].rec
    <2>0. pc[t] = "st_memory" /\ r \in Records /\ fate[r] = "storing" /\ Unseen(r)
        <3>. pc[t] = "st_memory"
            BY <1>1, Zenon DEF Moves
        <3>. QED
            BY Zenon DEF Places, Fresh, Control, Types, Storing
    <2>1. /\ buffer' = buffer /\ uploads' = uploads /\ arg' = arg
          /\ \E l \in Stored : Moves(t, "st_memory", l)
        BY <1>1, Zenon
    <2>2. memory' = memory \cup {r} /\ reserved' = reserved /\ disk' = disk /\ buffer' = buffer /\ fate' = fate
        BY <1>1, Zenon DEF SameDisk
    <2> HIDE DEF r
    <2>3. \A q \in Records : q # r /\ Unseen(q) => q \notin Somewhere' /\ \A c \in Uploads : q \notin uploads'[c].ids
        BY <2>1, <2>2, Zenon DEF Unseen, Somewhere
    <2>4. AtMostOneCopy' /\ reserved' \cap Oversized = {}
        BY <2>0, <2>1, <2>2, Zenon DEF Places, AtMostOneCopy, Unseen, Somewhere
    <2>5. BufferOwned'
        BY <2>0, <2>1, BufferOwned_Frame, Zenon DEF Moves, Places, Draining
    <2>6. \A u \in Threads : u # t /\ pc'[u] \in Storing \cup Stored =>
             arg'[u].rec # r /\ arg[u].rec \in Records /\ pc[u] \in Storing \cup Stored
        <3> SUFFICES ASSUME NEW u \in Threads, u # t, pc'[u] \in Storing \cup Stored
                     PROVE  arg'[u].rec # r /\ arg[u].rec \in Records /\ pc[u] \in Storing \cup Stored
            BY Zenon
        <3>1. pc[u] \in Storing \cup Stored /\ arg'[u] = arg[u] /\ pc[t] \in Storing
            BY <2>0, <2>1, Zenon DEF Moves, Storing
        <3>2. arg[u].rec # arg[t].rec
            BY <3>1, Zenon DEF Places, Fresh
        <3>. QED
            BY <3>1, <3>2, Zenon DEF Types, r
    <2>7. Somewhere' = Somewhere \cup {r}
        BY <2>2, Zenon DEF Somewhere
    <2>8. NoRecordLost'
        BY <1>db, <2>2, <2>7, Zenon DEF NoRecordLost, Places
    <2>9. \A u \in Threads : pc'[u] \in Stored => (fate'[arg'[u].rec] = "storing" /\ m_db' => arg'[u].rec \in Somewhere')
        BY <1>db, <2>1, <2>2, <2>7, Zenon DEF Places, Moves, r
    <2>10. \A q \in Records : fate'[q] = "new" => Unseen(q)'
        BY <2>0, <2>2, <2>3, Zenon DEF Places, Fresh, Unseen
    <2>11. \A u \in Threads : pc'[u] \in Storing => fate'[arg'[u].rec] = "storing" /\ Unseen(arg[u].rec)'
        <3> SUFFICES ASSUME NEW u \in Threads, pc'[u] \in Storing
                     PROVE  fate'[arg'[u].rec] = "storing" /\ Unseen(arg[u].rec)'
            BY Zenon
        <3>1. u # t
            BY <2>1, Zenon DEF Moves, Storing, Stored
        <3>2. PICK q \in Records : q = arg[u].rec /\ q = arg'[u].rec /\ q # r /\ fate[q] = "storing" /\ Unseen(q)
            BY <2>1, <2>6, <3>1, Zenon DEF Places, Fresh, Moves
        <3>3. fate'[q] = "storing" /\ Unseen(q)'
            BY <2>2, <2>3, <3>2, Zenon DEF Unseen
        <3>. QED
            BY <3>2, <3>3, Zenon DEF Unseen
    <2>12. \A u \in Threads : pc'[u] \in Stored => fate'[arg'[u].rec] # "new"
        BY <2>0, <2>1, <2>2, Zenon DEF Places, Fresh, Moves, r
    <2>13. \A v, u \in Threads :
              v # u /\ pc'[v] \in Storing \cup Stored /\ pc'[u] \in Storing \cup Stored => arg'[v].rec # arg'[u].rec
        BY <2>0, <2>1, <2>6, Zenon DEF Places, Fresh, Moves, r
    <2>14. Fresh'
        BY <2>10, <2>11, <2>12, <2>13, Zenon DEF Fresh
    <2>. QED
        BY <2>4, <2>5, <2>8, <2>9, <2>14, Zenon DEF Places
<1>7. Held'
    <2> DEFINE U == {arg[t].rec}
    <2>0. Unseen(arg[t].rec)
        <3>. pc[t] \in Storing
            BY <1>1, Zenon DEF Moves, Storing
        <3>. QED
            BY Zenon DEF Places, Fresh
    <2>1. \A d \in Uploads : uploads'[d].ids = uploads[d].ids /\ uploads'[d].ids \cap U \subseteq Oversized
        BY <2>0, <1>1, Zenon DEF Unseen
    <2>2. /\ memory' \cup buffer' \subseteq memory \cup buffer \cup U /\ reserved' \subseteq reserved
        BY <1>1, Zenon DEF SameDisk
    <2> HIDE DEF U
    <2>. QED
        BY <2>1, <2>2, Held_Frame, Zenon
<1>8. Saved'
    <2> SUFFICES ASSUME m_shutdownStarted' PROVE Saved'
        BY <1>5, Saved_Early, Zenon
    <2>1. m_shutdownStarted /\ pc["user"] \in Stopping \cup FlushLabels
        BY <1>1, Zenon DEF SameRun, Control, Phases
    <2>2. pc'["user"] = pc["user"]
        BY <2>1, <1>1, Zenon DEF Moves, Returns, Stopping, FlushLabels, ShutdownLabels, Threads
    <2>3. reserved' = reserved
        BY <1>1, Zenon DEF SameMemory
    <2>4. \A r \in Records : fate'[r] = "live" =>
              /\ fate[r] = "live"
              /\ r \in memory' => r \in memory
              /\ r \in buffer' => r \in buffer \cup memory
        <3>1. fate[arg[t].rec] = "storing"
            BY <1>1, Zenon DEF Moves, Storing, Places, Fresh
        <3>. QED
            BY <3>1, <1>1, Zenon
    <2>. QED
        BY <2>2, <2>3, <2>4, Saved_Frame, Zenon
<1>9. Arrives
    <2>1. fate[arg[t].rec] = "storing"
        BY <1>1, Zenon DEF Moves, Storing, Places, Fresh
    <2>. QED
        BY <2>1, <1>1, Zenon DEF Arrives, Somewhere, SameDisk
<1>10. Scrubbed'
    <2>1. ops' = ops
        BY <1>1, Zenon DEF SameRun
    <2>2. \A q \in Records : fate'[q] = "killed" => fate[q] = "killed"
        BY <1>1, Zenon
    <2>3. ops \cap {"Flush", "Immediate"} = {} /\ pc'["worker"] \in {"ks_memory", "ks_disk"} =>
              /\ pc'["worker"] = pc["worker"] /\ arg'["worker"] = arg["worker"]
              /\ reserved' \subseteq reserved
              /\ \A q \in Records : fate'[q] = "doomed" => fate[q] = "doomed" /\ (q \in memory' => q \in memory)
        <3>1. fate[arg[t].rec] = "storing"
            BY <1>1, Zenon DEF Moves, Storing, Places, Fresh
        <3>. QED
            BY <3>1, <1>1, Zenon DEF Moves, Stored, Threads
    <2>. QED
        BY <1>9, <2>1, <2>2, <2>3, Scrubbed_Frame, Zenon
<1>11. Settled'
    <2>1. ops' = ops
        BY <1>1, Zenon DEF SameRun
    <2>2. OneReader =>
              /\ uploads' = uploads /\ reserved' \subseteq reserved
              /\ memoryReadCount' \in {memoryReadCount, 1} /\ diskReadCount' = diskReadCount
              /\ m_readFromMemory' = m_readFromMemory
        BY <1>1, Zenon DEF SameReads, SameMemory
    <2>3. \A c \in Uploads : \A q \in disk' \ disk : q \notin uploads[c].ids \ Oversized
        BY <1>1, Zenon DEF SameDisk
    <2>4. pc'["worker"] \in Retrieving =>
              pc'["worker"] = pc["worker"] /\ arg'["worker"].ctx = arg["worker"].ctx
        BY <1>1, Zenon DEF Moves, Retrieving, Threads, Stored, ShutdownLabels
    <2>5. \A q \in Records : fate'[q] = "delivered" => fate[q] = "delivered"
        BY <1>1, Zenon
    <2>. QED
        BY <1>9, <2>1, <2>2, <2>3, <2>4, <2>5, Settled_Frame, Zenon
<1>12. PendingFlushHasTask'
    BY <1>1, Pending_Frame, Zenon DEF SameFlush, Moves, Returns, FlushLabels, Threads
<1>. QED
    BY <1>2, <1>3, <1>4, <1>5, <1>6, <1>7, <1>8, <1>10, <1>11, <1>12, Zenon DEF Inv, Control

\* A flush is requested, or not.
LEMMA StoreRecord_RequestFlush_Keeps ==
    ASSUME Inv, NEW t \in Threads, StoreRecord_RequestFlush(t)
    PROVE  Inv'
<1>. Control /\ Types /\ LockOwner /\ Contexts /\ Phases /\ Places /\ Held /\ Saved /\ Scrubbed /\ Settled
     /\ PendingFlushHasTask
    BY Zenon DEF Inv, Control
<1>1. /\ TypeOK'
      /\ SameMemory /\ SameDisk /\ SameReads /\ SameRun /\ uploads' = uploads
      /\ arg' = arg /\ fate' = fate /\ flushLock' = flushLock
      /\ \/ m_flushPending' = m_flushPending /\ flushTask' = flushTask
         \/ flushTask' = TRUE
      /\ Moves(t, "st_flush", "st_end")
    <2>1. /\ SameMemory /\ SameDisk /\ SameReads /\ SameRun /\ uploads' = uploads
          /\ retryCount' = retryCount
          /\ m_lastReadCount' = m_lastReadCount /\ m_tokenTime' = m_tokenTime
          /\ m_isRetryAfterActive' = m_isRetryAfterActive
          /\ arg' = arg /\ fate' = fate /\ flushLock' = flushLock /\ pc[t] = "st_flush"
          /\ \/ m_flushPending' = m_flushPending /\ flushTask' = flushTask /\ m_flushComplete' = m_flushComplete
             \/ flushTask' = TRUE /\ m_flushPending' = TRUE /\ m_flushComplete' = FALSE
        BY Zenon
           DEF StoreRecord_RequestFlush, memoryVars, diskVars, flushVars, readVars, killVars, SameMemory, SameDisk,
               SameReads, SameRun
    <2>2. pc' \in [Threads -> Labels] /\ Moves(t, "st_flush", "st_end")
        <3>. "st_end" \in Labels
            BY Zenon DEF Labels
        <3>. QED
            BY <2>1, GotoMoves, Zenon DEF StoreRecord_RequestFlush, Types, TypeOK
    <2>3. TypeOK'
        BY <2>1, <2>2, Zenon DEF Types, TypeOK, SameMemory, SameDisk, SameReads, SameRun
    <2>. QED
        BY <2>1, <2>2, <2>3, Zenon
<1>db. m_db' = m_db
    BY <1>1, Zenon DEF SameRun
<1>2. Types'
    BY <1>1, Types_Move, Zenon DEF Types, Storing, Stored, Retrieving, Responding, Scrubbing, Moves, Returns
<1>3. LockOwner'
    BY <1>1, LockOwner_Frame, Zenon DEF Moves, Returns, SameFlush, LockHeld, Threads
<1>4. Contexts'
    BY <1>1, Contexts_Outside, Zenon
       DEF SameRun, Storing, Stored, Retrieving, Responding, Scrubbing, Moves, Returns, Working
<1>5. Phases'
    BY <1>1, ReturnLabel, Zenon
       DEF Phases, SameRun, Threads, Moves, Returns, NoArg, Storing, Stored, Retrieving, Responding,
           Scrubbing, Deleting, Stopping, ShutdownLabels, FlushLabels
<1>6. Places'
    <2>1. Moved
        BY <1>1, Moved_Same, Zenon DEF SameDisk
    <2>2. Fated
        BY <1>1, Fated_Same, Zenon
    <2>3. buffer' = buffer /\ Moves(t, "st_flush", "st_end") /\ arg' = arg
        BY <1>1, Zenon DEF SameMemory
    <2>4. BufferOwned'
        BY <2>3, BufferOwned_Frame, Zenon DEF Moves, Places, Draining
    <2>5. \A u \in Threads :
              /\ pc'[u] \in Storing => pc[u] \in Storing
              /\ pc'[u] \in Stored => pc[u] \in Stored
              /\ pc'[u] \in Storing \cup Stored => arg'[u].rec = arg[u].rec /\ arg[u].rec \in Records
        BY <2>3, Zenon DEF Moves, Control, Types, Storing, Stored
    <2>. QED
        BY <1>db, <2>1, <2>2, <2>4, <2>5, Places_Frame, Zenon
<1>7. Held'
    BY <1>1, Held_Same, Zenon
<1>8. Saved'
    <2> SUFFICES ASSUME m_shutdownStarted' PROVE Saved'
        BY <1>5, Saved_Early, Zenon
    <2>1. m_shutdownStarted /\ pc["user"] \in Stopping \cup FlushLabels
        BY <1>1, Zenon DEF SameRun, Control, Phases
    <2>2. pc'["user"] = pc["user"]
        BY <2>1, <1>1, Zenon DEF Moves, Returns, Stopping, FlushLabels, ShutdownLabels, Threads
    <2>3. reserved' = reserved
        BY <1>1, Zenon DEF SameMemory
    <2>4. \A r \in Records : fate'[r] = "live" =>
              /\ fate[r] = "live"
              /\ r \in memory' => r \in memory
              /\ r \in buffer' => r \in buffer \cup memory
        BY <1>1, Zenon DEF SameMemory
    <2>. QED
        BY <2>2, <2>3, <2>4, Saved_Frame, Zenon
<1>9. Arrives
    BY <1>1, Arrives_Same, Zenon DEF SameDisk
<1>10. Scrubbed'
    <2>1. ops' = ops
        BY <1>1, Zenon DEF SameRun
    <2>2. \A q \in Records : fate'[q] = "killed" => fate[q] = "killed"
        BY <1>1, Zenon
    <2>3. ops \cap {"Flush", "Immediate"} = {} /\ pc'["worker"] \in {"ks_memory", "ks_disk"} =>
              /\ pc'["worker"] = pc["worker"] /\ arg'["worker"] = arg["worker"]
              /\ reserved' \subseteq reserved
              /\ \A q \in Records : fate'[q] = "doomed" => fate[q] = "doomed" /\ (q \in memory' => q \in memory)
        BY <1>1, Zenon DEF Moves, SameMemory, Threads, ShutdownLabels
    <2>. QED
        BY <1>9, <2>1, <2>2, <2>3, Scrubbed_Frame, Zenon
<1>11. Settled'
    <2>1. ops' = ops
        BY <1>1, Zenon DEF SameRun
    <2>2. OneReader =>
              /\ uploads' = uploads /\ reserved' \subseteq reserved
              /\ memoryReadCount' \in {memoryReadCount, 1} /\ diskReadCount' = diskReadCount
              /\ m_readFromMemory' = m_readFromMemory
        BY <1>1, Zenon DEF SameReads, SameMemory
    <2>3. \A c \in Uploads : \A q \in disk' \ disk : q \notin uploads[c].ids \ Oversized
        BY <1>1, Zenon DEF SameDisk
    <2>4. pc'["worker"] \in Retrieving =>
              pc'["worker"] = pc["worker"] /\ arg'["worker"].ctx = arg["worker"].ctx
        BY <1>1, Zenon DEF Moves, Retrieving, Threads, Stored, ShutdownLabels
    <2>5. \A q \in Records : fate'[q] = "delivered" => fate[q] = "delivered"
        BY <1>1, Zenon
    <2>. QED
        BY <1>9, <2>1, <2>2, <2>3, <2>4, <2>5, Settled_Frame, Zenon
<1>12. PendingFlushHasTask'
    <2>1. CASE m_flushPending' = m_flushPending /\ flushTask' = flushTask
        BY <2>1, <1>1, Pending_Frame, Zenon DEF Moves, FlushLabels
    <2>2. CASE flushTask' = TRUE
        BY <2>2, Zenon DEF PendingFlushHasTask
    <2>. QED
        BY <2>1, <2>2, <1>1, Zenon
<1>. QED
    BY <1>2, <1>3, <1>4, <1>5, <1>6, <1>7, <1>8, <1>10, <1>11, <1>12, Zenon DEF Inv, Control

\* After shutdown has started the record goes to disk.
LEMMA StoreRecord_Disk_Keeps ==
    ASSUME Inv, NEW t \in Threads, StoreRecord_Disk(t)
    PROVE  Inv'
<1>. Control /\ Types /\ LockOwner /\ Contexts /\ Phases /\ Places /\ Held /\ Saved /\ Scrubbed /\ Settled
     /\ PendingFlushHasTask
    BY Zenon DEF Inv, Control
<1>1. /\ TypeOK'
      /\ SameMemory /\ SameReads /\ SameFlush /\ SameRun /\ uploads' = uploads
      /\ arg' = arg /\ fate' = fate /\ leased' = leased
      /\ disk' = IF m_db THEN disk \cup {arg[t].rec} ELSE disk
      /\ \E l \in Stored : Moves(t, "st_disk", l)
    <2>1. /\ SameMemory /\ SameFlush /\ uploads' = uploads
          /\ ops' = ops /\ m_shutdownStarted' = m_shutdownStarted
          /\ memoryReadCount' = memoryReadCount /\ m_readFromMemory' = m_readFromMemory
          /\ m_lastReadCount' = m_lastReadCount /\ m_tokenTime' = m_tokenTime
          /\ m_isRetryAfterActive' = m_isRetryAfterActive
          /\ m_flushComplete' = m_flushComplete
          /\ arg' = arg /\ pc[t] = "st_disk"
        BY Zenon DEF StoreRecord_Disk, memoryVars, flushVars, readVars, killVars, SameMemory, SameFlush
    <2>2. pc' \in [Threads -> Labels] /\ \E l \in Stored : Moves(t, "st_disk", l)
        <3>1. PICK l \in Stored : Goto(t, l)
            BY Zenon DEF StoreRecord_Disk, Stored
        <3>2. l \in Labels
            BY Zenon DEF Labels, Stored
        <3>. QED
            BY <2>1, <3>1, <3>2, GotoMoves, Zenon DEF Types, TypeOK
    <2>3. arg[t].rec \in Records
        BY <2>1, Zenon DEF Types, Storing
    <2>4. DiskStoreRecord(arg[t].rec)
        BY Zenon DEF StoreRecord_Disk
    <2>5. /\ disk' \subseteq Records /\ leased' \subseteq disk' /\ leased' = leased
          /\ retryCount' \in [Records -> Nat] /\ fate' = fate
          /\ diskReadCount' = diskReadCount /\ expirations' = expirations /\ m_db' = m_db
          /\ disk' = IF m_db THEN disk \cup {arg[t].rec} ELSE disk
        BY <2>3, <2>4, DiskStoreEffect, Zenon DEF Types
    <2>6. TypeOK'
        <3>. fate' \in [Records -> Fates]
            BY <2>5, Zenon DEF Types, TypeOK
        <3>. QED
            BY <2>1, <2>2, <2>5, Zenon DEF Types, TypeOK, SameMemory, SameFlush
    <2>. QED
        BY <2>1, <2>2, <2>5, <2>6, Zenon DEF SameReads, SameRun
<1>db. m_db' = m_db
    BY <1>1, Zenon DEF SameRun
<1>2. Types'
    BY <1>1, Types_Move, Zenon DEF Types, Storing, Stored, Retrieving, Responding, Scrubbing, Moves, Returns
<1>3. LockOwner'
    BY <1>1, LockOwner_Frame, Zenon DEF Moves, SameFlush, LockHeld, Stored, Threads
<1>4. Contexts'
    BY <1>1, Contexts_Outside, Zenon
       DEF SameRun, Storing, Stored, Retrieving, Responding, Scrubbing, Moves, Returns, Working
<1>5. Phases'
    BY <1>1, ReturnLabel, Zenon
       DEF Phases, SameRun, Threads, Moves, Returns, NoArg, Storing, Stored, Retrieving, Responding,
           Scrubbing, Deleting, Stopping, ShutdownLabels, FlushLabels
<1>6. Places'
    <2> DEFINE r == arg[t].rec
    <2>0. pc[t] = "st_disk" /\ r \in Records /\ fate[r] = "storing" /\ Unseen(r)
        <3>. pc[t] = "st_disk"
            BY <1>1, Zenon DEF Moves
        <3>. QED
            BY Zenon DEF Places, Fresh, Control, Types, Storing
    <2>1. /\ buffer' = buffer /\ uploads' = uploads /\ arg' = arg
          /\ \E l \in Stored : Moves(t, "st_disk", l)
        BY <1>1, Zenon DEF SameMemory
    <2>2. /\ memory' = memory /\ reserved' = reserved /\ buffer' = buffer /\ fate' = fate
          /\ disk' = disk \cup {r} \/ (disk' = disk /\ ~m_db)
        BY <1>1, Zenon DEF SameMemory
    <2> HIDE DEF r
    <2>3. \A q \in Records : q # r /\ Unseen(q) => q \notin Somewhere' /\ \A c \in Uploads : q \notin uploads'[c].ids
        BY <2>1, <2>2, Zenon DEF Unseen, Somewhere
    <2>4. AtMostOneCopy' /\ reserved' \cap Oversized = {}
        BY <2>0, <2>1, <2>2, Zenon DEF Places, AtMostOneCopy, Unseen, Somewhere
    <2>5. BufferOwned'
        BY <2>0, <2>1, BufferOwned_Frame, Zenon DEF Moves, Places, Draining
    <2>6. \A u \in Threads : u # t /\ pc'[u] \in Storing \cup Stored =>
             arg'[u].rec # r /\ arg[u].rec \in Records /\ pc[u] \in Storing \cup Stored
        <3> SUFFICES ASSUME NEW u \in Threads, u # t, pc'[u] \in Storing \cup Stored
                     PROVE  arg'[u].rec # r /\ arg[u].rec \in Records /\ pc[u] \in Storing \cup Stored
            BY Zenon
        <3>1. pc[u] \in Storing \cup Stored /\ arg'[u] = arg[u] /\ pc[t] \in Storing
            BY <2>0, <2>1, Zenon DEF Moves, Storing
        <3>2. arg[u].rec # arg[t].rec
            BY <3>1, Zenon DEF Places, Fresh
        <3>. QED
            BY <3>1, <3>2, Zenon DEF Types, r
    <2>7. Somewhere' = Somewhere \cup {r} \/ (Somewhere' = Somewhere /\ ~m_db)
        BY <2>2, Zenon DEF Somewhere
    <2>8. NoRecordLost'
        BY <1>db, <2>2, <2>7, Zenon DEF NoRecordLost, Places
    <2>9. \A u \in Threads : pc'[u] \in Stored => (fate'[arg'[u].rec] = "storing" /\ m_db' => arg'[u].rec \in Somewhere')
        BY <1>db, <2>1, <2>2, <2>7, Zenon DEF Places, Moves, r
    <2>10. \A q \in Records : fate'[q] = "new" => Unseen(q)'
        BY <2>0, <2>2, <2>3, Zenon DEF Places, Fresh, Unseen
    <2>11. \A u \in Threads : pc'[u] \in Storing => fate'[arg'[u].rec] = "storing" /\ Unseen(arg[u].rec)'
        <3> SUFFICES ASSUME NEW u \in Threads, pc'[u] \in Storing
                     PROVE  fate'[arg'[u].rec] = "storing" /\ Unseen(arg[u].rec)'
            BY Zenon
        <3>1. u # t
            BY <2>1, Zenon DEF Moves, Storing, Stored
        <3>2. PICK q \in Records : q = arg[u].rec /\ q = arg'[u].rec /\ q # r /\ fate[q] = "storing" /\ Unseen(q)
            BY <2>1, <2>6, <3>1, Zenon DEF Places, Fresh, Moves
        <3>3. fate'[q] = "storing" /\ Unseen(q)'
            BY <2>2, <2>3, <3>2, Zenon DEF Unseen
        <3>. QED
            BY <3>2, <3>3, Zenon DEF Unseen
    <2>12. \A u \in Threads : pc'[u] \in Stored => fate'[arg'[u].rec] # "new"
        <3> SUFFICES ASSUME NEW u \in Threads, pc'[u] \in Stored
                     PROVE  fate'[arg'[u].rec] # "new"
            BY Zenon
        <3>1. CASE u = t
            BY <2>0, <2>1, <2>2, <3>1, Zenon DEF r
        <3>2. CASE u # t
            BY <2>1, <2>2, <2>6, <3>2 DEF Places, Fresh, Moves
        <3>. QED
            BY <3>1, <3>2, Zenon
    <2>13. \A v, u \in Threads :
              v # u /\ pc'[v] \in Storing \cup Stored /\ pc'[u] \in Storing \cup Stored => arg'[v].rec # arg'[u].rec
        BY <2>0, <2>1, <2>6, Zenon DEF Places, Fresh, Moves, r
    <2>14. Fresh'
        BY <2>10, <2>11, <2>12, <2>13, Zenon DEF Fresh
    <2>. QED
        BY <2>4, <2>5, <2>8, <2>9, <2>14, Zenon DEF Places
<1>7. Held'
    <2> DEFINE U == {arg[t].rec}
    <2>0. Unseen(arg[t].rec)
        <3>. pc[t] \in Storing
            BY <1>1, Zenon DEF Moves, Storing
        <3>. QED
            BY Zenon DEF Places, Fresh
    <2>1. \A d \in Uploads : uploads'[d].ids = uploads[d].ids /\ uploads'[d].ids \cap U \subseteq Oversized
        BY <2>0, <1>1, Zenon DEF Unseen
    <2>2. /\ memory' \cup buffer' \subseteq memory \cup buffer /\ reserved' \subseteq reserved
        BY <1>1, Zenon DEF SameMemory
    <2> HIDE DEF U
    <2>. QED
        BY <2>1, <2>2, Held_Frame, Zenon
<1>8. Saved'
    <2> SUFFICES ASSUME m_shutdownStarted' PROVE Saved'
        BY <1>5, Saved_Early, Zenon
    <2>1. m_shutdownStarted /\ pc["user"] \in Stopping \cup FlushLabels
        BY <1>1, Zenon DEF SameRun, Control, Phases
    <2>2. pc'["user"] = pc["user"]
        BY <2>1, <1>1, Zenon DEF Moves, Returns, Stopping, FlushLabels, ShutdownLabels, Threads
    <2>3. reserved' = reserved
        BY <1>1, Zenon DEF SameMemory
    <2>4. \A r \in Records : fate'[r] = "live" =>
              /\ fate[r] = "live"
              /\ r \in memory' => r \in memory
              /\ r \in buffer' => r \in buffer \cup memory
        BY <1>1, Zenon DEF SameMemory
    <2>. QED
        BY <2>2, <2>3, <2>4, Saved_Frame, Zenon
<1>9. Arrives
    <2>1. fate[arg[t].rec] = "storing"
        BY <1>1, Zenon DEF Moves, Storing, Places, Fresh
    <2>. QED
        BY <2>1, <1>1, Zenon DEF Arrives, Somewhere, SameMemory
<1>10. Scrubbed'
    <2>1. ops' = ops
        BY <1>1, Zenon DEF SameRun
    <2>2. \A q \in Records : fate'[q] = "killed" => fate[q] = "killed"
        BY <1>1, Zenon
    <2>3. ops \cap {"Flush", "Immediate"} = {} /\ pc'["worker"] \in {"ks_memory", "ks_disk"} =>
              /\ pc'["worker"] = pc["worker"] /\ arg'["worker"] = arg["worker"]
              /\ reserved' \subseteq reserved
              /\ \A q \in Records : fate'[q] = "doomed" => fate[q] = "doomed" /\ (q \in memory' => q \in memory)
        BY <1>1, Zenon DEF Moves, Stored, SameMemory, Threads
    <2>. QED
        BY <1>9, <2>1, <2>2, <2>3, Scrubbed_Frame, Zenon
<1>11. Settled'
    <2>1. ops' = ops
        BY <1>1, Zenon DEF SameRun
    <2>2. OneReader =>
              /\ uploads' = uploads /\ reserved' \subseteq reserved
              /\ memoryReadCount' \in {memoryReadCount, 1} /\ diskReadCount' = diskReadCount
              /\ m_readFromMemory' = m_readFromMemory
        BY <1>1, Zenon DEF SameReads, SameMemory
    <2>3. \A c \in Uploads : \A q \in disk' \ disk : q \notin uploads[c].ids \ Oversized
        <3>1. Unseen(arg[t].rec)
            BY <1>1, Zenon DEF Moves, Storing, Places, Fresh
        <3>. QED
            BY <3>1, <1>1, Zenon DEF Unseen
    <2>4. pc'["worker"] \in Retrieving =>
              pc'["worker"] = pc["worker"] /\ arg'["worker"].ctx = arg["worker"].ctx
        BY <1>1, Zenon DEF Moves, Retrieving, Threads, Stored, ShutdownLabels
    <2>5. \A q \in Records : fate'[q] = "delivered" => fate[q] = "delivered"
        BY <1>1, Zenon
    <2>. QED
        BY <1>9, <2>1, <2>2, <2>3, <2>4, <2>5, Settled_Frame, Zenon
<1>12. PendingFlushHasTask'
    BY <1>1, Pending_Frame, Zenon DEF SameFlush, Moves, Returns, FlushLabels, Threads
<1>. QED
    BY <1>2, <1>3, <1>4, <1>5, <1>6, <1>7, <1>8, <1>10, <1>11, <1>12, Zenon DEF Inv, Control

\* The table has been trimmed, after StoreRecord's insert or Flush's.
Resized ==
    /\ TypeOK'
    /\ SameMemory /\ SameReads /\ SameFlush /\ SameRun /\ uploads' = uploads /\ arg' = arg
    /\ \E trimmed \in SUBSET disk :
          disk' = disk \ trimmed /\ leased' = leased \ trimmed /\ Seals(trimmed, "dropped")

\* Trimming keeps the invariant.
LEMMA Resized_Keeps ==
    ASSUME Inv, NEW t \in Threads, NEW l, NEW m, Moves(t, l, m), Resized,
           (l = "st_resize" /\ m = "st_end") \/ (l = "fl_resize" /\ m = "fl_store")
    PROVE  Inv'
<1>. Control /\ Types /\ LockOwner /\ Contexts /\ Phases /\ Places /\ Held /\ Saved /\ Scrubbed /\ Settled
     /\ PendingFlushHasTask
    BY Zenon DEF Inv, Control
<1>1. /\ TypeOK'
      /\ SameMemory /\ SameReads /\ SameFlush /\ SameRun /\ uploads' = uploads /\ arg' = arg
      /\ m_db' = m_db /\ ops' = ops /\ disk' \subseteq disk /\ buffer' = buffer
    BY Zenon DEF Resized, SameRun, SameMemory
<1>2. Types'
    BY <1>1, Types_Move, Zenon DEF Types, Storing, Stored, Retrieving, Responding, Scrubbing, Moves
<1>3. LockOwner'
    BY <1>1, LockOwner_Frame, Zenon DEF Moves, SameFlush, LockHeld, Threads
<1>4. Contexts'
    BY <1>1, Contexts_Outside, Zenon
       DEF SameRun, Storing, Stored, Retrieving, Responding, Scrubbing, Moves, Working
<1>5. Phases'
    <2>1. Moves(t, "st_resize", "st_end") \/ Moves(t, "fl_resize", "fl_store")
        BY Zenon
    <2>2. CASE Moves(t, "st_resize", "st_end")
        BY <1>1, <2>2
           DEF Phases, SameRun, Threads, Moves, Storing, Stored, Retrieving, Responding, Scrubbing, Deleting,
               Stopping, ShutdownLabels, FlushLabels
    <2>3. CASE Moves(t, "fl_resize", "fl_store")
        BY <1>1, <2>3
           DEF Phases, SameRun, Threads, Moves, Storing, Stored, Retrieving, Responding, Scrubbing, Deleting,
               Stopping, ShutdownLabels, FlushLabels
    <2>. QED
        BY <2>1, <2>2, <2>3, Zenon
<1>6. Places'
    <2>1. PICK trimmed \in SUBSET disk : disk' = disk \ trimmed /\ Seals(trimmed, "dropped")
        BY Zenon DEF Resized
    <2>2. Somewhere' = Somewhere \ trimmed /\ trimmed \subseteq Somewhere
        BY <1>1, <2>1, Zenon DEF SameMemory, Somewhere, Places, AtMostOneCopy
    <2>3. AtMostOneCopy' /\ reserved' \cap Oversized = {}
        BY <1>1, <2>1, Zenon DEF Places, AtMostOneCopy, SameMemory
    <2>4. \A q \in Records : fate'[q] \in Kept => q \notin trimmed
        BY <2>1, Zenon DEF Seals, Kept
    <2>5. Moved
        BY <1>1, <2>2, <2>3, <2>4, Zenon DEF Moved
    <2>6. Fated
        BY <2>1, <2>2, Fated_Seals, Zenon DEF Control, Unseen
    <2>7. BufferOwned'
        BY <1>1, BufferOwned_Frame, Zenon DEF Moves, Places, Draining
    <2>8. \A u \in Threads :
              /\ pc'[u] \in Storing => pc[u] \in Storing
              /\ pc'[u] \in Stored => pc[u] \in Stored
              /\ pc'[u] \in Storing \cup Stored => arg'[u].rec = arg[u].rec /\ arg[u].rec \in Records
        BY <1>1, Zenon DEF Moves, Control, Types, Storing, Stored
    <2>. QED
        BY <1>1, <2>5, <2>6, <2>7, <2>8, Places_Frame, Zenon
<1>7. Held'
    BY <1>1, Held_Same, Zenon
<1>8. Saved'
    <2>1. /\ pc'["user"] \in FlushLabels \cup Flushed => pc["user"] \in FlushLabels \cup Flushed
          /\ pc'["user"] \in Draining \cup Flushed => pc["user"] \in Draining \cup Flushed
          /\ pc'["user"] \in Flushed => pc["user"] \in Flushed
        BY Zenon DEF Moves, FlushLabels, Draining, Flushed, Threads
    <2>2. \A r \in Records : fate'[r] = "live" =>
              /\ fate[r] = "live"
              /\ r \in memory' => r \in memory
              /\ r \in buffer' => r \in buffer \cup memory
        BY <1>1, Zenon DEF SameMemory, Resized, Seals
    <2>. QED
        BY <1>1, <2>1, <2>2, Saved_Stage, Zenon DEF SameMemory
<1>9. Arrives
    BY <1>1, Arrives_Same, Zenon
<1>10. Scrubbed'
    <2>1. \A q \in Records : /\ fate'[q] = "killed" => fate[q] = "killed"
                             /\ fate'[q] = "doomed" => fate[q] = "doomed"
        BY Zenon DEF Resized, Seals
    <2>2. ops \cap {"Flush", "Immediate"} = {} /\ pc'["worker"] \in {"ks_memory", "ks_disk"} =>
              /\ pc'["worker"] = pc["worker"] /\ arg'["worker"] = arg["worker"]
              /\ reserved' \subseteq reserved
              /\ \A q \in Records : fate'[q] = "doomed" => fate[q] = "doomed" /\ (q \in memory' => q \in memory)
        BY <1>1, <2>1, Zenon DEF Moves, SameMemory, Threads
    <2>. QED
        BY <1>1, <1>9, <2>1, <2>2, Scrubbed_Frame, Zenon
<1>11. Settled'
    <2>1. OneReader =>
              /\ uploads' = uploads /\ reserved' \subseteq reserved
              /\ memoryReadCount' \in {memoryReadCount, 1} /\ diskReadCount' = diskReadCount
              /\ m_readFromMemory' = m_readFromMemory
        BY <1>1, Zenon DEF SameReads, SameMemory
    <2>2. \A c \in Uploads : \A q \in disk' \ disk : q \notin uploads[c].ids \ Oversized
        BY <1>1, Zenon
    <2>3. pc'["worker"] \in Retrieving =>
              pc'["worker"] = pc["worker"] /\ arg'["worker"].ctx = arg["worker"].ctx
        BY <1>1, Zenon DEF Moves, Retrieving, Threads
    <2>4. \A q \in Records : fate'[q] = "delivered" => fate[q] = "delivered"
        BY Zenon DEF Resized, Seals
    <2>. QED
        BY <1>1, <1>9, <2>1, <2>2, <2>3, <2>4, Settled_Frame, Zenon
<1>12. PendingFlushHasTask'
    BY <1>1, Pending_Frame, Zenon DEF SameFlush, Moves, FlushLabels, Threads
<1>. QED
    BY <1>2, <1>3, <1>4, <1>5, <1>6, <1>7, <1>8, <1>10, <1>11, <1>12, Zenon DEF Inv, Control

\* StoreRecord trims the table it has stored the record in.
LEMMA StoreRecord_Resize_Keeps ==
    ASSUME Inv, NEW t \in Threads, StoreRecord_Resize(t)
    PROVE  Inv'
<1>0. TypeOK /\ DiskResize
    BY Zenon DEF Inv, Control, Types, StoreRecord_Resize
<1>1. /\ SameMemory /\ SameFlush /\ ops' = ops /\ m_shutdownStarted' = m_shutdownStarted /\ uploads' = uploads
      /\ memoryReadCount' = memoryReadCount /\ m_readFromMemory' = m_readFromMemory
      /\ m_lastReadCount' = m_lastReadCount /\ m_tokenTime' = m_tokenTime
      /\ m_isRetryAfterActive' = m_isRetryAfterActive
      /\ m_flushComplete' = m_flushComplete
      /\ arg' = arg /\ pc[t] = "st_resize"
    BY Zenon DEF StoreRecord_Resize, memoryVars, flushVars, readVars, killVars, SameMemory, SameFlush
<1>2. pc' \in [Threads -> Labels] /\ Moves(t, "st_resize", "st_end")
    <2>. "st_end" \in Labels
        BY Zenon DEF Labels
    <2>. QED
        BY <1>0, <1>1, GotoMoves, Zenon DEF StoreRecord_Resize, TypeOK
<1>3. Resized
    <2>1. /\ disk' \subseteq Records /\ leased' \subseteq disk'
          /\ retryCount' \in [Records -> Nat] /\ fate' \in [Records -> Fates]
          /\ diskReadCount' = diskReadCount /\ expirations' = expirations /\ m_db' = m_db
          /\ \E trimmed \in SUBSET disk :
                disk' = disk \ trimmed /\ leased' = leased \ trimmed /\ Seals(trimmed, "dropped")
        BY <1>0, DiskResizeEffect, Zenon
    <2>2. TypeOK'
        BY <1>0, <1>1, <1>2, <2>1, Zenon DEF TypeOK, SameMemory, SameFlush
    <2>. QED
        BY <1>1, <2>1, <2>2, Zenon DEF Resized, SameReads, SameRun
<1>. QED
    BY <1>2, <1>3, Resized_Keeps, Zenon

\* StoreRecord has returned.
LEMMA StoreRecord_End_Keeps ==
    ASSUME Inv, NEW t \in Threads, StoreRecord_End(t)
    PROVE  Inv'
<1>. Control /\ Types /\ LockOwner /\ Contexts /\ Phases /\ Places /\ Held /\ Saved /\ Scrubbed /\ Settled
     /\ PendingFlushHasTask
    BY Zenon DEF Inv, Control
<1>1. /\ TypeOK'
      /\ SameMemory /\ SameDisk /\ SameReads /\ SameFlush /\ SameRun /\ uploads' = uploads
      /\ Returns(t, "st_end")
      /\ \A q \in Records : q # arg[t].rec => fate'[q] = fate[q]
      /\ \/ fate[arg[t].rec] # "storing" /\ fate' = fate
         \/ /\ fate[arg[t].rec] = "storing"
            /\ fate'[arg[t].rec] = IF m_shutdownStarted THEN "late" ELSE "live"
    <2>1. /\ SameMemory /\ SameDisk /\ SameReads /\ SameFlush /\ SameRun /\ uploads' = uploads
          /\ retryCount' = retryCount /\ m_flushComplete' = m_flushComplete
          /\ m_lastReadCount' = m_lastReadCount /\ m_tokenTime' = m_tokenTime
          /\ m_isRetryAfterActive' = m_isRetryAfterActive
          /\ pc[t] = "st_end"
        BY Zenon
           DEF StoreRecord_End, memoryVars, diskVars, flushVars, readVars, killVars, SameMemory, SameDisk,
               SameReads, SameFlush, SameRun
    <2>2. pc' \in [Threads -> Labels] /\ arg' \in [Threads -> ArgType] /\ Returns(t, "st_end")
        BY <2>1, ReturnMoves, Zenon DEF StoreRecord_End, Types
    <2>3. /\ fate' \in [Records -> Fates]
          /\ \A q \in Records : q # arg[t].rec => fate'[q] = fate[q]
          /\ \/ fate[arg[t].rec] # "storing" /\ fate' = fate
             \/ /\ fate[arg[t].rec] = "storing"
                /\ fate'[arg[t].rec] = IF m_shutdownStarted THEN "late" ELSE "live"
        <3>. arg[t].rec \in Records
            BY <2>1, Zenon DEF Types, Stored
        <3>. fate \in [Records -> Fates]
            BY Zenon DEF Types, TypeOK
        <3>. QED
            BY Zenon DEF StoreRecord_End, Fates, Kept
    <2>4. TypeOK'
        BY <2>1, <2>2, <2>3, Zenon
           DEF Types, TypeOK, SameMemory, SameDisk, SameReads, SameFlush, SameRun, ArgType
    <2>. QED
        BY <2>1, <2>2, <2>3, <2>4, Zenon
<1>db. m_db' = m_db
    BY <1>1, Zenon DEF SameRun
<1>2. Types'
    BY <1>1, Types_Return, Zenon
<1>3. LockOwner'
    <2>1. flushLock' = flushLock /\ Returns(t, "st_end")
        BY <1>1, Zenon DEF SameFlush
    <2>2. pc'[t] \in {"idle", "sh_close"} /\ \A u \in Threads : u # t => pc'[u] = pc[u]
        BY <2>1, ReturnLabel, Zenon DEF Returns, Moves
    <2>. QED
        BY <2>1, <2>2, LockOwner_Frame, Zenon DEF Returns, Moves, LockHeld
<1>4. Contexts'
    <2>1. pc'[t] \notin Working
        BY <1>1, ReturnLabel, Zenon
           DEF Storing, Stored, Retrieving, Responding, Scrubbing, Moves, Returns, Working
    <2>. QED
        BY <2>1, <1>1, Contexts_Outside, Zenon DEF SameRun, Moves, Returns
<1>5. Phases'
    BY <1>1, Phases_Return, Zenon DEF Stopping, ShutdownLabels
<1>6. Places'
    <2> DEFINE r == arg[t].rec
    <2>1. /\ SameMemory /\ disk' = disk /\ uploads' = uploads /\ buffer' = buffer /\ Returns(t, "st_end")
          /\ \A q \in Records : q # r => fate'[q] = fate[q]
          /\ \/ fate' = fate
             \/ fate[r] = "storing" /\ fate'[r] \in {"late", "live"}
          /\ fate'[r] = "live" /\ fate' # fate => ~m_shutdownStarted
        BY <1>1, Zenon DEF SameMemory, SameDisk
    <2>2. pc[t] = "st_end" /\ r \in Records
        BY <2>1, Zenon DEF Returns, Moves, Control, Types, Stored
    <2>3. Moved
        BY <2>1, Moved_Same, Zenon
    <2>4. Fated \/ (fate[r] = "storing" /\ fate'[r] \in {"late", "live"})
        BY <2>1, Fated_Same, Zenon
    <2>5. CASE Fated
        BY <1>db, <2>1, <2>3, <2>5, Places_Return, Zenon
    <2>6. CASE fate[r] = "storing" /\ fate'[r] \in {"late", "live"}
        <3>1. m_db => r \in Somewhere
            BY <2>2, <2>6, Zenon DEF Places, Stored
        <3>m. fate'[r] = "live" => m_db
            BY <2>1, <2>6, Zenon DEF Phases, Stopping, ShutdownLabels
        <3>2. Somewhere' = Somewhere
            BY <2>1, Zenon DEF Somewhere, SameMemory
        <3>3. \A u \in Threads : pc'[u] \in Storing \cup Stored =>
                 /\ u # t /\ pc'[u] = pc[u] /\ arg'[u] = arg[u]
                 /\ arg[u].rec # r /\ arg[u].rec \in Records
            <4>1. pc'[t] \notin Storing \cup Stored
                BY <2>1, ReturnLabel, Zenon DEF Returns, Moves, Storing, Stored, Control
            <4>2. \A u \in Threads : u # t => pc'[u] = pc[u] /\ arg'[u] = arg[u]
                BY <2>1, Zenon DEF Returns, Moves
            <4>3. \A u \in Threads : u # t /\ pc[u] \in Storing \cup Stored => arg[u].rec # r /\ arg[u].rec \in Records
                BY <2>2, Zenon DEF Places, Fresh, Stored, Control, Types
            <4>. QED
                BY <4>1, <4>2, <4>3, Zenon
        <3>4. \A q \in Records : Unseen(q) => Unseen(q)'
            BY <2>1, <3>2, Zenon DEF Unseen
        <3> HIDE DEF r
        <3>5. NoRecordLost'
            BY <1>db, <2>1, <3>1, <3>m, <3>2, <2>6 DEF Places, NoRecordLost
        <3>6. \A u \in Threads : pc'[u] \in Stored => (fate'[arg'[u].rec] = "storing" /\ m_db' => arg'[u].rec \in Somewhere')
            BY <1>db, <2>1, <3>2, <3>3, Zenon DEF Places
        <3>7. BufferOwned'
            BY <2>1, BufferOwned_Frame, Zenon DEF Places, Returns, Moves, Draining
        <3>8. \A q \in Records : fate'[q] = "new" => Unseen(q)'
            BY <2>1, <2>6, <3>4, Zenon DEF Places, Fresh
        <3>9. \A u \in Threads : pc'[u] \in Storing => fate'[arg'[u].rec] = "storing" /\ Unseen(arg[u].rec)'
            <4> SUFFICES ASSUME NEW u \in Threads, pc'[u] \in Storing
                         PROVE  fate'[arg'[u].rec] = "storing" /\ Unseen(arg[u].rec)'
                BY Zenon
            <4>1. PICK q \in Records : q = arg[u].rec /\ q = arg'[u].rec /\ q # r /\ fate[q] = "storing" /\ Unseen(q)
                BY <3>3, Zenon DEF Places, Fresh
            <4>2. fate'[q] = "storing" /\ Unseen(q)'
                BY <2>1, <3>4, <4>1, Zenon
            <4>. QED
                BY <4>1, <4>2, Zenon DEF Unseen
        <3>10. \A u \in Threads : pc'[u] \in Stored => fate'[arg'[u].rec] # "new"
            BY <2>1, <3>3 DEF Places, Fresh
        <3>11. \A v, u \in Threads :
                 v # u /\ pc'[v] \in Storing \cup Stored /\ pc'[u] \in Storing \cup Stored => arg'[v].rec # arg'[u].rec
            BY <3>3 DEF Places, Fresh
        <3>12. Fresh'
            BY <3>8, <3>9, <3>10, <3>11, Zenon DEF Fresh
        <3>. QED
            BY <2>3, <3>5, <3>6, <3>7, <3>12, Zenon DEF Places, Moved
    <2>. QED
        BY <2>4, <2>5, <2>6, Zenon
<1>7. Held'
    BY <1>1, Held_Same, Zenon
<1>8. Saved'
    <2> SUFFICES ASSUME m_shutdownStarted' PROVE Saved'
        BY <1>5, Saved_Early, Zenon
    <2>1. m_shutdownStarted /\ pc["user"] \in Stopping \cup FlushLabels
        BY <1>1, Zenon DEF SameRun, Control, Phases
    <2>2. pc'["user"] = pc["user"]
        BY <2>1, <1>1, Zenon DEF Moves, Returns, Stopping, FlushLabels, ShutdownLabels, Threads
    <2>3. reserved' = reserved
        BY <1>1, Zenon DEF SameMemory
    <2>4. \A r \in Records : fate'[r] = "live" =>
              /\ fate[r] = "live"
              /\ r \in memory' => r \in memory
              /\ r \in buffer' => r \in buffer \cup memory
        BY <2>1, <1>1, Zenon DEF SameMemory
    <2>. QED
        BY <2>2, <2>3, <2>4, Saved_Frame, Zenon
<1>9. Arrives
    BY <1>1, Arrives_Same, Zenon DEF SameDisk
<1>10. Scrubbed'
    <2>1. ops' = ops
        BY <1>1, Zenon DEF SameRun
    <2>2. \A q \in Records : fate'[q] = "killed" => fate[q] = "killed"
        BY <1>1, Zenon
    <2>3. ops \cap {"Flush", "Immediate"} = {} /\ pc'["worker"] \in {"ks_memory", "ks_disk"} =>
              /\ pc'["worker"] = pc["worker"] /\ arg'["worker"] = arg["worker"]
              /\ reserved' \subseteq reserved
              /\ \A q \in Records : fate'[q] = "doomed" => fate[q] = "doomed" /\ (q \in memory' => q \in memory)
        BY <1>1, ReturnLabel, Zenon DEF Returns, Moves, SameMemory, Threads
    <2>. QED
        BY <1>9, <2>1, <2>2, <2>3, Scrubbed_Frame, Zenon
<1>11. Settled'
    <2>1. ops' = ops
        BY <1>1, Zenon DEF SameRun
    <2>2. OneReader =>
              /\ uploads' = uploads /\ reserved' \subseteq reserved
              /\ memoryReadCount' \in {memoryReadCount, 1} /\ diskReadCount' = diskReadCount
              /\ m_readFromMemory' = m_readFromMemory
        BY <1>1, Zenon DEF SameReads, SameMemory
    <2>3. \A c \in Uploads : \A q \in disk' \ disk : q \notin uploads[c].ids \ Oversized
        BY <1>1, Zenon DEF SameDisk
    <2>4. pc'["worker"] \in Retrieving =>
              pc'["worker"] = pc["worker"] /\ arg'["worker"].ctx = arg["worker"].ctx
        BY <1>1, ReturnLabel, Zenon DEF Returns, Moves, Retrieving, Threads
    <2>5. \A q \in Records : fate'[q] = "delivered" => fate[q] = "delivered"
        BY <1>1, Zenon
    <2>. QED
        BY <1>9, <2>1, <2>2, <2>3, <2>4, <2>5, Settled_Frame, Zenon
<1>12. PendingFlushHasTask'
    BY <1>1, Pending_Frame, Zenon DEF SameFlush, Moves, Returns, FlushLabels, Threads
<1>. QED
    BY <1>2, <1>3, <1>4, <1>5, <1>6, <1>7, <1>8, <1>10, <1>11, <1>12, Zenon DEF Inv, Control

\* A flush begins.
LEMMA Flush_Begin_Keeps ==
    ASSUME Inv, NEW t \in Threads, Flush_Begin(t)
    PROVE  Inv'
<1>. Control /\ Types /\ LockOwner /\ Contexts /\ Phases /\ Places /\ Held /\ Saved /\ Scrubbed /\ Settled
     /\ PendingFlushHasTask
    BY Zenon DEF Inv, Control
<1>1. /\ TypeOK'
      /\ SameMemory /\ SameDisk /\ SameReads /\ SameRun /\ uploads' = uploads
      /\ arg' = arg /\ fate' = fate /\ flushLock' = flushLock /\ m_flushPending' = m_flushPending
      /\ t = "worker" \/ (t = "app" /\ "Flush" \in ops)
      /\ Moves(t, "idle", "fl_lock")
    <2>1. /\ SameMemory /\ SameDisk /\ SameReads /\ SameRun /\ uploads' = uploads
          /\ retryCount' = retryCount /\ m_flushComplete' = m_flushComplete
          /\ m_lastReadCount' = m_lastReadCount /\ m_tokenTime' = m_tokenTime
          /\ m_isRetryAfterActive' = m_isRetryAfterActive
          /\ arg' = arg /\ fate' = fate /\ flushLock' = flushLock /\ m_flushPending' = m_flushPending
          /\ flushTask' \in {flushTask, FALSE}
          /\ t = "worker" \/ (t = "app" /\ "Flush" \in ops)
          /\ pc[t] = "idle"
        BY Zenon DEF Flush_Begin, memoryVars, diskVars, readVars, killVars, SameMemory, SameDisk, SameReads, SameRun
    <2>2. pc' \in [Threads -> Labels] /\ Moves(t, "idle", "fl_lock")
        <3>. "fl_lock" \in Labels
            BY Zenon DEF Labels, FlushLabels
        <3>. QED
            BY <2>1, GotoMoves, Zenon DEF Flush_Begin, Types, TypeOK
    <2>3. TypeOK'
        BY <2>1, <2>2, Zenon DEF Types, TypeOK, SameMemory, SameDisk, SameReads, SameRun
    <2>. QED
        BY <2>1, <2>2, <2>3, Zenon
<1>db. m_db' = m_db
    BY <1>1, Zenon DEF SameRun
<1>2. Types'
    BY <1>1, Types_Move, Zenon DEF Types, Storing, Stored, Retrieving, Responding, Scrubbing, Moves, Returns
<1>3. LockOwner'
    BY <1>1, LockOwner_Frame, Zenon DEF Moves, Returns, SameFlush, LockHeld, Threads
<1>4. Contexts'
    BY <1>1, Contexts_Outside, Zenon
       DEF SameRun, Storing, Stored, Retrieving, Responding, Scrubbing, Moves, Returns, Working
<1>5. Phases'
    BY <1>1, ReturnLabel, Zenon
       DEF Phases, SameRun, Threads, Moves, Returns, NoArg, Storing, Stored, Retrieving, Responding,
           Scrubbing, Deleting, Stopping, ShutdownLabels, FlushLabels
<1>6. Places'
    <2>1. Moved
        BY <1>1, Moved_Same, Zenon DEF SetsUpload, SameDisk
    <2>2. Fated
        BY <1>1, Fated_Same, Zenon
    <2>3. buffer' = buffer /\ Moves(t, "idle", "fl_lock") /\ t \in Threads /\ \A u \in Threads : u # t => arg'[u] = arg[u]
        BY <1>1, Zenon DEF SameMemory, Threads
    <2>. QED
        BY <1>db, <2>1, <2>2, <2>3, Places_Move, Zenon DEF Storing, Stored
<1>7. Held'
    BY <1>1, Held_Same, Zenon
<1>8. Saved'
    <2> SUFFICES ASSUME m_shutdownStarted' PROVE Saved'
        BY <1>5, Saved_Early, Zenon
    <2>1. m_shutdownStarted /\ pc["user"] \in Stopping \cup FlushLabels
        BY <1>1, Zenon DEF SameRun, Control, Phases
    <2>2. pc'["user"] = pc["user"]
        BY <2>1, <1>1, Zenon DEF Moves, Returns, Stopping, FlushLabels, ShutdownLabels, Threads
    <2>3. reserved' = reserved
        BY <1>1, Zenon DEF SameMemory
    <2>4. \A r \in Records : fate'[r] = "live" =>
              /\ fate[r] = "live"
              /\ r \in memory' => r \in memory
              /\ r \in buffer' => r \in buffer \cup memory
        BY <1>1, Zenon DEF SameMemory
    <2>. QED
        BY <2>2, <2>3, <2>4, Saved_Frame, Zenon
<1>9. Arrives
    BY <1>1, Arrives_Same, Zenon DEF SameDisk
<1>10. Scrubbed'
    <2>1. ops' = ops
        BY <1>1, Zenon DEF SameRun
    <2>2. \A q \in Records : fate'[q] = "killed" => fate[q] = "killed"
        BY <1>1, Zenon
    <2>3. ops \cap {"Flush", "Immediate"} = {} /\ pc'["worker"] \in {"ks_memory", "ks_disk"} =>
              /\ pc'["worker"] = pc["worker"] /\ arg'["worker"] = arg["worker"]
              /\ reserved' \subseteq reserved
              /\ \A q \in Records : fate'[q] = "doomed" => fate[q] = "doomed" /\ (q \in memory' => q \in memory)
        BY <1>1, Zenon DEF Moves, SameMemory, Threads, ShutdownLabels
    <2>. QED
        BY <1>9, <2>1, <2>2, <2>3, Scrubbed_Frame, Zenon
<1>11. Settled'
    <2>1. ops' = ops
        BY <1>1, Zenon DEF SameRun
    <2>2. OneReader =>
              /\ uploads' = uploads /\ reserved' \subseteq reserved
              /\ memoryReadCount' \in {memoryReadCount, 1} /\ diskReadCount' = diskReadCount
              /\ m_readFromMemory' = m_readFromMemory
        BY <1>1, Zenon DEF SameReads, SameMemory
    <2>3. \A c \in Uploads : \A q \in disk' \ disk : q \notin uploads[c].ids \ Oversized
        BY <1>1, Zenon DEF SameDisk
    <2>4. pc'["worker"] \in Retrieving =>
              pc'["worker"] = pc["worker"] /\ arg'["worker"].ctx = arg["worker"].ctx
        BY <1>1, Zenon DEF Moves, Retrieving, Threads, Stored, ShutdownLabels
    <2>5. \A q \in Records : fate'[q] = "delivered" => fate[q] = "delivered"
        BY <1>1, Zenon
    <2>. QED
        BY <1>9, <2>1, <2>2, <2>3, <2>4, <2>5, Settled_Frame, Zenon
<1>12. PendingFlushHasTask'
    <2>. pc'[t] \in FlushLabels
        BY <1>1, Zenon DEF Moves, FlushLabels
    <2>. QED
        BY Zenon DEF PendingFlushHasTask
<1>. QED
    BY <1>2, <1>3, <1>4, <1>5, <1>6, <1>7, <1>8, <1>10, <1>11, <1>12, Zenon DEF Inv, Control

\* The flush has the lock.
LEMMA Flush_Lock_Keeps ==
    ASSUME Inv, NEW t \in Threads, Flush_Lock(t)
    PROVE  Inv'
<1>. Control /\ Types /\ LockOwner /\ Contexts /\ Phases /\ Places /\ Held /\ Saved /\ Scrubbed /\ Settled
     /\ PendingFlushHasTask
    BY Zenon DEF Inv, Control
<1>1. /\ TypeOK'
      /\ SameMemory /\ SameDisk /\ SameReads /\ SameRun /\ uploads' = uploads
      /\ arg' = arg /\ fate' = fate /\ flushLock = "none" /\ flushLock' = t
      /\ m_flushPending' = m_flushPending
      /\ Moves(t, "fl_lock", "fl_take")
    <2>1. /\ SameMemory /\ SameDisk /\ SameReads /\ SameRun /\ uploads' = uploads
          /\ retryCount' = retryCount /\ m_flushComplete' = m_flushComplete
          /\ m_lastReadCount' = m_lastReadCount /\ m_tokenTime' = m_tokenTime
          /\ m_isRetryAfterActive' = m_isRetryAfterActive
          /\ arg' = arg /\ fate' = fate /\ flushLock = "none" /\ flushLock' = t
          /\ m_flushPending' = m_flushPending /\ flushTask' = FALSE
          /\ pc[t] = "fl_lock"
        BY Zenon DEF Flush_Lock, memoryVars, diskVars, readVars, killVars, SameMemory, SameDisk, SameReads, SameRun
    <2>2. pc' \in [Threads -> Labels] /\ Moves(t, "fl_lock", "fl_take")
        <3>. "fl_take" \in Labels
            BY Zenon DEF Labels, FlushLabels
        <3>. QED
            BY <2>1, GotoMoves, Zenon DEF Flush_Lock, Types, TypeOK
    <2>3. TypeOK'
        BY <2>1, <2>2, Zenon DEF Types, TypeOK, SameMemory, SameDisk, SameReads, SameRun
    <2>. QED
        BY <2>1, <2>2, <2>3, Zenon
<1>db. m_db' = m_db
    BY <1>1, Zenon DEF SameRun
<1>2. Types'
    BY <1>1, Types_Move, Zenon DEF Types, Storing, Stored, Retrieving, Responding, Scrubbing, Moves, Returns
<1>3. LockOwner'
    <2>1. flushLock = "none" /\ flushLock' = t /\ Moves(t, "fl_lock", "fl_take")
        BY <1>1, Zenon
    <2>2. \A u \in Threads : pc[u] \notin LockHeld
        BY <2>1, Zenon DEF LockOwner, Threads
    <2>. QED
        BY <2>1, <2>2, Zenon DEF LockOwner, Moves, LockHeld
<1>4. Contexts'
    BY <1>1, Contexts_Outside, Zenon
       DEF SameRun, Storing, Stored, Retrieving, Responding, Scrubbing, Moves, Returns, Working
<1>5. Phases'
    BY <1>1, ReturnLabel, Zenon
       DEF Phases, SameRun, Threads, Moves, Returns, NoArg, Storing, Stored, Retrieving, Responding,
           Scrubbing, Deleting, Stopping, ShutdownLabels, FlushLabels
<1>6. Places'
    <2>1. Moved
        BY <1>1, Moved_Same, Zenon DEF SetsUpload, SameDisk
    <2>2. Fated
        BY <1>1, Fated_Same, Zenon
    <2>3. buffer' = buffer /\ Moves(t, "fl_lock", "fl_take") /\ t \in Threads /\ \A u \in Threads : u # t => arg'[u] = arg[u]
        BY <1>1, Zenon DEF SameMemory, Threads
    <2>. QED
        BY <1>db, <2>1, <2>2, <2>3, Places_Move, Zenon DEF Storing, Stored
<1>7. Held'
    BY <1>1, Held_Same, Zenon
<1>8. Saved'
    <2> SUFFICES ASSUME m_shutdownStarted' PROVE Saved'
        BY <1>5, Saved_Early, Zenon
    <2>1. /\ SameMemory /\ fate' = fate /\ Moves(t, "fl_lock", "fl_take")
        BY <1>1, Zenon
    <2>2. pc["user"] \in FlushLabels \cup Flushed <=> pc'["user"] \in FlushLabels \cup Flushed
        BY <2>1, Zenon DEF Moves, FlushLabels, Threads
    <2>3. pc'["user"] \in Draining \cup Flushed => pc'["user"] = pc["user"]
        BY <2>1, Zenon DEF Moves, Threads, Draining, Flushed
    <2>. QED
        BY <2>1, <2>2, <2>3, Zenon DEF Saved, SameMemory
<1>9. Arrives
    BY <1>1, Arrives_Same, Zenon DEF SameDisk
<1>10. Scrubbed'
    <2>1. ops' = ops
        BY <1>1, Zenon DEF SameRun
    <2>2. \A q \in Records : fate'[q] = "killed" => fate[q] = "killed"
        BY <1>1, Zenon
    <2>3. ops \cap {"Flush", "Immediate"} = {} /\ pc'["worker"] \in {"ks_memory", "ks_disk"} =>
              /\ pc'["worker"] = pc["worker"] /\ arg'["worker"] = arg["worker"]
              /\ reserved' \subseteq reserved
              /\ \A q \in Records : fate'[q] = "doomed" => fate[q] = "doomed" /\ (q \in memory' => q \in memory)
        BY <1>1, Zenon DEF Moves, SameMemory, Threads, ShutdownLabels
    <2>. QED
        BY <1>9, <2>1, <2>2, <2>3, Scrubbed_Frame, Zenon
<1>11. Settled'
    <2>1. ops' = ops
        BY <1>1, Zenon DEF SameRun
    <2>2. OneReader =>
              /\ uploads' = uploads /\ reserved' \subseteq reserved
              /\ memoryReadCount' \in {memoryReadCount, 1} /\ diskReadCount' = diskReadCount
              /\ m_readFromMemory' = m_readFromMemory
        BY <1>1, Zenon DEF SameReads, SameMemory
    <2>3. \A c \in Uploads : \A q \in disk' \ disk : q \notin uploads[c].ids \ Oversized
        BY <1>1, Zenon DEF SameDisk
    <2>4. pc'["worker"] \in Retrieving =>
              pc'["worker"] = pc["worker"] /\ arg'["worker"].ctx = arg["worker"].ctx
        BY <1>1, Zenon DEF Moves, Retrieving, Threads, Stored, ShutdownLabels
    <2>5. \A q \in Records : fate'[q] = "delivered" => fate[q] = "delivered"
        BY <1>1, Zenon
    <2>. QED
        BY <1>9, <2>1, <2>2, <2>3, <2>4, <2>5, Settled_Frame, Zenon
<1>12. PendingFlushHasTask'
    <2>. pc'[t] \in FlushLabels
        BY <1>1, Zenon DEF Moves, FlushLabels
    <2>. QED
        BY Zenon DEF PendingFlushHasTask
<1>. QED
    BY <1>2, <1>3, <1>4, <1>5, <1>6, <1>7, <1>8, <1>10, <1>11, <1>12, Zenon DEF Inv, Control

\* The flush has the records of the queue.
LEMMA Flush_Take_Keeps ==
    ASSUME Inv, NEW t \in Threads, Flush_Take(t)
    PROVE  Inv'
<1>. Control /\ Types /\ LockOwner /\ Contexts /\ Phases /\ Places /\ Held /\ Saved /\ Scrubbed /\ Settled
     /\ PendingFlushHasTask
    BY Zenon DEF Inv, Control
<1>1. /\ TypeOK'
      /\ buffer' = memory /\ memory' = {} /\ reserved' = reserved
      /\ memoryReadCount' \in {memoryReadCount, 1}
      /\ diskReadCount' = diskReadCount /\ m_readFromMemory' = m_readFromMemory
      /\ SameDisk /\ SameFlush /\ SameRun /\ uploads' = uploads
      /\ arg' = arg /\ fate' = fate
      /\ Moves(t, "fl_take", "fl_store")
    <2>1. /\ buffer' = memory /\ memory' = {} /\ reserved' = reserved
          /\ memoryReadCount' \in {memoryReadCount, 1}
          /\ diskReadCount' = diskReadCount /\ m_readFromMemory' = m_readFromMemory
          /\ SameDisk /\ SameFlush /\ SameRun /\ uploads' = uploads
          /\ retryCount' = retryCount /\ m_flushComplete' = m_flushComplete
          /\ m_lastReadCount' = m_lastReadCount /\ m_tokenTime' = m_tokenTime
          /\ m_isRetryAfterActive' = m_isRetryAfterActive
          /\ arg' = arg /\ fate' = fate
          /\ pc[t] = "fl_take"
        BY Zenon DEF Flush_Take, diskVars, readVars, killVars, SameDisk, SameFlush, SameRun
    <2>2. pc' \in [Threads -> Labels] /\ Moves(t, "fl_take", "fl_store")
        <3>. "fl_store" \in Labels
            BY Zenon DEF Labels, FlushLabels
        <3>. QED
            BY <2>1, GotoMoves DEF Flush_Take, Types, TypeOK
    <2>3. TypeOK'
        BY <2>1, <2>2 DEF Types, TypeOK, SameDisk, SameFlush, SameRun
    <2>. QED
        BY <2>1, <2>2, <2>3, Zenon
<1>db. m_db' = m_db
    BY <1>1, Zenon DEF SameRun
<1>2. Types'
    BY <1>1, Types_Move, Zenon DEF Types, Storing, Stored, Retrieving, Responding, Scrubbing, Moves, Returns
<1>3. LockOwner'
    BY <1>1, LockOwner_Frame, Zenon DEF Moves, Returns, SameFlush, LockHeld, Threads
<1>4. Contexts'
    BY <1>1, Contexts_Outside, Zenon
       DEF SameRun, Storing, Stored, Retrieving, Responding, Scrubbing, Moves, Returns, Working
<1>5. Phases'
    BY <1>1, ReturnLabel, Zenon
       DEF Phases, SameRun, Threads, Moves, Returns, NoArg, Storing, Stored, Retrieving, Responding,
           Scrubbing, Deleting, Stopping, ShutdownLabels, FlushLabels
<1>6. Places'
    <2>1. /\ buffer' = memory /\ memory' = {} /\ reserved' = reserved /\ disk' = disk
          /\ uploads' = uploads /\ fate' = fate /\ arg' = arg /\ Moves(t, "fl_take", "fl_store")
        BY <1>1, Zenon DEF SameDisk
    <2>2. buffer = {}
        BY <2>1, BufferEmpty, Zenon DEF Moves
    <2>3. Somewhere' = Somewhere
        BY <2>1, <2>2, Zenon DEF Somewhere
    <2>4. AtMostOneCopy' /\ reserved' \cap Oversized = {}
        BY <2>1, <2>2, Zenon DEF Places, AtMostOneCopy
    <2>5. Moved
        BY <2>1, <2>3, <2>4, Zenon DEF Moved
    <2>6. Fated
        BY <2>1, Fated_Same, Zenon
    <2>7. BufferOwned'
        BY <2>1, Zenon DEF BufferOwned, Moves, Draining
    <2>8. \A u \in Threads :
              /\ pc'[u] \in Storing => pc[u] \in Storing
              /\ pc'[u] \in Stored => pc[u] \in Stored
              /\ pc'[u] \in Storing \cup Stored => arg'[u].rec = arg[u].rec /\ arg[u].rec \in Records
        BY <2>1, Zenon DEF Moves, Control, Types, Storing, Stored
    <2>. QED
        BY <1>db, <2>5, <2>6, <2>7, <2>8, Places_Frame, Zenon
<1>7. Held'
    <2>1. \A d \in Uploads : uploads'[d].ids = uploads[d].ids /\ uploads'[d].ids \cap {} \subseteq Oversized
        BY <1>1, Zenon
    <2>2. memory' \cup buffer' \subseteq memory \cup buffer /\ reserved' \subseteq reserved
        BY <1>1, Zenon DEF SameMemory, SameDisk
    <2>. QED
        BY <2>1, <2>2, Held_Frame, Zenon
<1>8. Saved'
    <2> SUFFICES ASSUME m_shutdownStarted' PROVE Saved'
        BY <1>5, Saved_Early, Zenon
    <2>1. /\ buffer' = memory /\ memory' = {} /\ reserved' = reserved /\ fate' = fate
          /\ Moves(t, "fl_take", "fl_store")
        BY <1>1, Zenon
    <2>2. pc["user"] \in FlushLabels \cup Flushed <=> pc'["user"] \in FlushLabels \cup Flushed
        BY <2>1, Zenon DEF Moves, FlushLabels, Threads
    <2>3. pc'["user"] \in Flushed => pc["user"] \in Flushed
        BY <2>1, Zenon DEF Moves, Threads, Flushed
    <2>. QED
        BY <2>1, <2>2, <2>3, Zenon DEF Saved
<1>9. Arrives
    BY <1>1, Zenon DEF Arrives, Somewhere, SameDisk
<1>10. Scrubbed'
    <2>1. ops' = ops
        BY <1>1, Zenon DEF SameRun
    <2>2. \A q \in Records : fate'[q] = "killed" => fate[q] = "killed"
        BY <1>1, Zenon
    <2>3. ops \cap {"Flush", "Immediate"} = {} /\ pc'["worker"] \in {"ks_memory", "ks_disk"} =>
              /\ pc'["worker"] = pc["worker"] /\ arg'["worker"] = arg["worker"]
              /\ reserved' \subseteq reserved
              /\ \A q \in Records : fate'[q] = "doomed" => fate[q] = "doomed" /\ (q \in memory' => q \in memory)
        BY <1>1, Zenon DEF Moves, SameMemory, Threads, ShutdownLabels
    <2>. QED
        BY <1>9, <2>1, <2>2, <2>3, Scrubbed_Frame, Zenon
<1>11. Settled'
    <2>1. ops' = ops
        BY <1>1, Zenon DEF SameRun
    <2>2. OneReader =>
              /\ uploads' = uploads /\ reserved' \subseteq reserved
              /\ memoryReadCount' \in {memoryReadCount, 1} /\ diskReadCount' = diskReadCount
              /\ m_readFromMemory' = m_readFromMemory
        BY <1>1, Zenon DEF SameReads, SameMemory
    <2>3. \A c \in Uploads : \A q \in disk' \ disk : q \notin uploads[c].ids \ Oversized
        BY <1>1, Zenon DEF SameDisk
    <2>4. pc'["worker"] \in Retrieving =>
              pc'["worker"] = pc["worker"] /\ arg'["worker"].ctx = arg["worker"].ctx
        BY <1>1, Zenon DEF Moves, Retrieving, Threads, Stored, ShutdownLabels
    <2>5. \A q \in Records : fate'[q] = "delivered" => fate[q] = "delivered"
        BY <1>1, Zenon
    <2>. QED
        BY <1>9, <2>1, <2>2, <2>3, <2>4, <2>5, Settled_Frame, Zenon
<1>12. PendingFlushHasTask'
    BY <1>1, Pending_Frame, Zenon DEF SameFlush, Moves, Returns, FlushLabels, Threads
<1>. QED
    BY <1>2, <1>3, <1>4, <1>5, <1>6, <1>7, <1>8, <1>10, <1>11, <1>12, Zenon DEF Inv, Control

\* One record of the buffer is on disk, or lost if the database is closed.
LEMMA Flush_Store_Keeps ==
    ASSUME Inv, NEW t \in Threads, Flush_Store(t)
    PROVE  Inv'
<1>. Control /\ Types /\ LockOwner /\ Contexts /\ Phases /\ Places /\ Held /\ Saved /\ Scrubbed /\ Settled
     /\ PendingFlushHasTask
    BY Zenon DEF Inv, Control
<1>1. /\ TypeOK'
      /\ Moves(t, "fl_store", IF m_db THEN "fl_resize" ELSE "fl_store")
      /\ memory' = memory /\ reserved' = reserved /\ arg' = arg /\ fate' = fate
      /\ SameReads /\ SameFlush /\ SameRun /\ uploads' = uploads
      /\ \E r \in buffer : buffer' = buffer \ {r} /\ disk' = IF m_db THEN disk \cup {r} ELSE disk
    <2>1. /\ memory' = memory /\ reserved' = reserved
          /\ memoryReadCount' = memoryReadCount /\ m_readFromMemory' = m_readFromMemory
          /\ SameFlush /\ uploads' = uploads /\ ops' = ops /\ m_shutdownStarted' = m_shutdownStarted
          /\ m_flushComplete' = m_flushComplete
          /\ m_lastReadCount' = m_lastReadCount /\ m_tokenTime' = m_tokenTime
          /\ m_isRetryAfterActive' = m_isRetryAfterActive
          /\ pc[t] = "fl_store" /\ arg' = arg
        BY Zenon DEF Flush_Store, memoryVars, readVars, killVars, SameFlush
    <2>2. PICK r \in buffer : DiskStoreRecord(r) /\ buffer' = buffer \ {r}
        BY Zenon DEF Flush_Store
    <2>3. r \in Records
        BY Zenon DEF Types, TypeOK
    <2>4. /\ pc' \in [Threads -> Labels]
          /\ Moves(t, "fl_store", IF m_db THEN "fl_resize" ELSE "fl_store")
        <3>. (IF m_db THEN "fl_resize" ELSE "fl_store") \in Labels
            BY Zenon DEF Labels, FlushLabels
        <3>. QED
            BY <2>1, GotoMoves DEF Flush_Store, Types, TypeOK
    <2>5. /\ disk' \subseteq Records /\ leased' \subseteq disk'
          /\ retryCount' \in [Records -> Nat] /\ fate' = fate
          /\ diskReadCount' = diskReadCount /\ expirations' = expirations /\ m_db' = m_db
          /\ disk' = IF m_db THEN disk \cup {r} ELSE disk
        BY <2>2, <2>3, DiskStoreEffect, Zenon DEF Types
    <2>6. TypeOK'
        <3>. fate' \in [Records -> Fates]
            BY <2>5, Zenon DEF Types, TypeOK
        <3>. QED
            BY <2>1, <2>2, <2>4, <2>5, Zenon DEF Types, TypeOK, SameFlush
    <2>. QED
        BY <2>1, <2>2, <2>4, <2>5, <2>6, Zenon DEF SameReads, SameRun
<1>db. m_db' = m_db
    BY <1>1, Zenon DEF SameRun
<1>2. Types'
    BY <1>1, Types_Move, Zenon DEF Storing, Stored, Retrieving, Responding, Scrubbing, Moves
<1>3. LockOwner'
    BY <1>1, LockOwner_Frame, Zenon DEF SameFlush, Moves, LockHeld
<1>4. Contexts'
    BY <1>1, Contexts_Outside, Zenon
       DEF SameRun, Storing, Stored, Retrieving, Responding, Scrubbing, Moves, Working
<1>5. Phases'
    BY <1>1, Zenon
       DEF Phases, SameRun, Threads, Moves, Storing, Stored, Retrieving, Responding, Scrubbing, Deleting,
           Stopping, ShutdownLabels, FlushLabels
<1>6. Places'
    <2>1. PICK r \in buffer : buffer' = buffer \ {r} /\ disk' = IF m_db THEN disk \cup {r} ELSE disk
        BY <1>1, Zenon
    <2>2. /\ memory' = memory /\ reserved' = reserved /\ uploads' = uploads /\ arg' = arg /\ fate' = fate
          /\ Moves(t, "fl_store", IF m_db THEN "fl_resize" ELSE "fl_store")
        BY <1>1, Zenon
    <2>3. Somewhere' \subseteq Somewhere /\ Somewhere \subseteq Somewhere' \cup {r} /\ (m_db => Somewhere' = Somewhere)
        BY <2>1, <2>2, Zenon DEF Somewhere
    <2>4. AtMostOneCopy' /\ reserved' \cap Oversized = {}
        BY <2>1, <2>2, Zenon DEF Places, AtMostOneCopy
    <2>5. ~m_db => fate[r] # "live"
        BY Zenon DEF Phases, Saved, Flushed, Types, TypeOK
    <2>6. Moved
        BY <2>2, <2>3, <2>4, <2>5, Zenon DEF Moved
    <2>8. Fated
        BY <2>2, Fated_Same, Zenon
    <2>9. BufferOwned'
        BY <2>2, Zenon DEF BufferOwned, Moves, Draining
    <2>10. \A u \in Threads :
              /\ pc'[u] \in Storing => pc[u] \in Storing
              /\ pc'[u] \in Stored => pc[u] \in Stored
              /\ pc'[u] \in Storing \cup Stored => arg'[u].rec = arg[u].rec /\ arg[u].rec \in Records
        BY <2>2, Zenon DEF Moves, Types, Storing, Stored
    <2>. QED
        BY <1>db, <2>6, <2>8, <2>9, <2>10, Places_Frame, Zenon
<1>7. Held'
    <2>1. \A d \in Uploads : uploads'[d].ids = uploads[d].ids /\ uploads'[d].ids \cap {} \subseteq Oversized
        BY <1>1, Zenon
    <2>3. memory' \cup buffer' \subseteq memory \cup buffer /\ reserved' \subseteq reserved
        BY <1>1, Zenon
    <2>. QED
        BY <2>1, <2>3, Held_Frame, Zenon
<1>8. Saved'
    <2>1. /\ pc'["user"] \in FlushLabels \cup Flushed => pc["user"] \in FlushLabels \cup Flushed
          /\ pc'["user"] \in Draining \cup Flushed => pc["user"] \in Draining \cup Flushed
          /\ pc'["user"] \in Flushed => pc["user"] \in Flushed
        BY <1>1, Zenon DEF Moves, FlushLabels, Draining, Flushed, Threads
    <2>2. \A r \in Records : fate'[r] = "live" =>
              /\ fate[r] = "live"
              /\ r \in memory' => r \in memory
              /\ r \in buffer' => r \in buffer \cup memory
        BY <1>1, Zenon
    <2>3. reserved' \subseteq reserved
        BY <1>1, Zenon
    <2>. QED
        BY <2>1, <2>2, <2>3, Saved_Stage, Zenon
<1>9. Arrives
    BY <1>1, Zenon DEF Arrives, Somewhere, SameDisk
<1>10. Scrubbed'
    <2>1. ops' = ops
        BY <1>1, Zenon DEF SameRun
    <2>2. \A q \in Records : fate'[q] = "killed" => fate[q] = "killed"
        BY <1>1, Zenon
    <2>3. ops \cap {"Flush", "Immediate"} = {} /\ pc'["worker"] \in {"ks_memory", "ks_disk"} =>
              /\ pc'["worker"] = pc["worker"] /\ arg'["worker"] = arg["worker"]
              /\ reserved' \subseteq reserved
              /\ \A q \in Records : fate'[q] = "doomed" => fate[q] = "doomed" /\ (q \in memory' => q \in memory)
        BY <1>1, Zenon DEF Moves, SameMemory, Threads, ShutdownLabels
    <2>. QED
        BY <1>9, <2>1, <2>2, <2>3, Scrubbed_Frame, Zenon
<1>11. Settled'
    <2>1. ops' = ops
        BY <1>1, Zenon DEF SameRun
    <2>2. OneReader =>
              /\ uploads' = uploads /\ reserved' \subseteq reserved
              /\ memoryReadCount' \in {memoryReadCount, 1} /\ diskReadCount' = diskReadCount
              /\ m_readFromMemory' = m_readFromMemory
        BY <1>1, Zenon DEF SameReads, SameMemory
    <2>3. \A c \in Uploads : \A q \in disk' \ disk : q \notin uploads[c].ids \ Oversized
        BY <1>1, Disk_Frame, Zenon
    <2>4. pc'["worker"] \in Retrieving =>
              pc'["worker"] = pc["worker"] /\ arg'["worker"].ctx = arg["worker"].ctx
        BY <1>1, Zenon DEF Moves, Retrieving, Threads, Stored, ShutdownLabels
    <2>5. \A q \in Records : fate'[q] = "delivered" => fate[q] = "delivered"
        BY <1>1, Zenon
    <2>. QED
        BY <1>9, <2>1, <2>2, <2>3, <2>4, <2>5, Settled_Frame, Zenon
<1>12. PendingFlushHasTask'
    BY <1>1, Pending_Frame, Zenon DEF SameFlush, Moves, Returns, FlushLabels, Threads
<1>. QED
    BY <1>2, <1>3, <1>4, <1>5, <1>6, <1>7, <1>8, <1>10, <1>11, <1>12, Zenon DEF Inv, Control

\* Flush trims the table it has stored a record in.
LEMMA Flush_Resize_Keeps ==
    ASSUME Inv, NEW t \in Threads, Flush_Resize(t)
    PROVE  Inv'
<1>0. TypeOK /\ DiskResize
    BY Zenon DEF Inv, Control, Types, Flush_Resize
<1>1. /\ SameMemory /\ SameFlush /\ ops' = ops /\ m_shutdownStarted' = m_shutdownStarted /\ uploads' = uploads
      /\ memoryReadCount' = memoryReadCount /\ m_readFromMemory' = m_readFromMemory
      /\ m_lastReadCount' = m_lastReadCount /\ m_tokenTime' = m_tokenTime
      /\ m_isRetryAfterActive' = m_isRetryAfterActive
      /\ m_flushComplete' = m_flushComplete
      /\ arg' = arg /\ pc[t] = "fl_resize"
    BY Zenon DEF Flush_Resize, memoryVars, flushVars, readVars, killVars, SameMemory, SameFlush
<1>2. pc' \in [Threads -> Labels] /\ Moves(t, "fl_resize", "fl_store")
    <2>. "fl_store" \in Labels
        BY Zenon DEF Labels, FlushLabels
    <2>. QED
        BY <1>0, <1>1, GotoMoves, Zenon DEF Flush_Resize, TypeOK
<1>3. Resized
    <2>1. /\ disk' \subseteq Records /\ leased' \subseteq disk'
          /\ retryCount' \in [Records -> Nat] /\ fate' \in [Records -> Fates]
          /\ diskReadCount' = diskReadCount /\ expirations' = expirations /\ m_db' = m_db
          /\ \E trimmed \in SUBSET disk :
                disk' = disk \ trimmed /\ leased' = leased \ trimmed /\ Seals(trimmed, "dropped")
        BY <1>0, DiskResizeEffect, Zenon
    <2>2. TypeOK'
        BY <1>0, <1>1, <1>2, <2>1, Zenon DEF TypeOK, SameMemory, SameFlush
    <2>. QED
        BY <1>1, <2>1, <2>2, Zenon DEF Resized, SameReads, SameRun
<1>. QED
    BY <1>2, <1>3, Resized_Keeps, Zenon

\* The flush has ended.
LEMMA Flush_End_Keeps ==
    ASSUME Inv, NEW t \in Threads, Flush_End(t)
    PROVE  Inv'
<1>. Control /\ Types /\ LockOwner /\ Contexts /\ Phases /\ Places /\ Held /\ Saved /\ Scrubbed /\ Settled
     /\ PendingFlushHasTask
    BY Zenon DEF Inv, Control
<1>1. /\ TypeOK'
      /\ SameMemory /\ SameDisk /\ SameReads /\ SameRun /\ uploads' = uploads /\ fate' = fate
      /\ buffer = {} /\ flushLock' = "none" /\ m_flushPending' = FALSE
      /\ Returns(t, "fl_store")
    <2>1. /\ SameMemory /\ SameDisk /\ SameReads /\ SameRun /\ uploads' = uploads /\ fate' = fate
          /\ retryCount' = retryCount
          /\ m_lastReadCount' = m_lastReadCount /\ m_tokenTime' = m_tokenTime
          /\ m_isRetryAfterActive' = m_isRetryAfterActive
          /\ buffer = {} /\ flushLock' = "none" /\ m_flushPending' = FALSE /\ flushTask' = flushTask
          /\ m_flushComplete' = TRUE
          /\ pc[t] = "fl_store"
        BY Zenon DEF Flush_End, memoryVars, diskVars, readVars, killVars, SameMemory, SameDisk, SameReads, SameRun
    <2>2. pc' \in [Threads -> Labels] /\ arg' \in [Threads -> ArgType] /\ Returns(t, "fl_store")
        BY <2>1, ReturnMoves, Zenon DEF Flush_End, Types
    <2>3. TypeOK'
        BY <2>1, <2>2, Zenon DEF Types, TypeOK, SameMemory, SameDisk, SameReads, SameRun, ArgType
    <2>. QED
        BY <2>1, <2>2, <2>3, Zenon
<1>db. m_db' = m_db
    BY <1>1, Zenon DEF SameRun
<1>2. Types'
    BY <1>1, Types_Return, Zenon
<1>3. LockOwner'
    <2>1. flushLock' = "none" /\ Returns(t, "fl_store")
        BY <1>1, Zenon
    <2>2. \A u \in Threads : u # t => pc'[u] \notin LockHeld
        BY <2>1, Zenon DEF LockOwner, LockHeld, Returns, Moves
    <2>3. pc'[t] \notin LockHeld
        BY <2>1, ReturnLabel, Zenon DEF LockHeld, Returns, Moves
    <2>. QED
        BY <2>1, <2>2, <2>3, Zenon DEF LockOwner, Threads
<1>4. Contexts'
    <2>1. pc'[t] \notin Working
        BY <1>1, ReturnLabel, Zenon
           DEF Storing, Stored, Retrieving, Responding, Scrubbing, Moves, Returns, Working
    <2>. QED
        BY <2>1, <1>1, Contexts_Outside, Zenon DEF SameRun, Moves, Returns
<1>5. Phases'
    BY <1>1, Phases_Return, Zenon DEF Stopping, ShutdownLabels
<1>6. Places'
    <2>1. Moved
        BY <1>1, Moved_Same, Zenon DEF SameDisk
    <2>2. Fated
        BY <1>1, Fated_Same, Zenon
    <2>3. buffer' = buffer /\ buffer = {} /\ Returns(t, "fl_store")
        BY <1>1, Zenon DEF SameMemory
    <2>. QED
        BY <1>db, <2>1, <2>2, <2>3, Places_Return, Zenon
<1>7. Held'
    BY <1>1, Held_Same, Zenon
<1>8. Saved'
    <2> SUFFICES ASSUME m_shutdownStarted' PROVE Saved'
        BY <1>5, Saved_Early, Zenon
    <2>1. SameMemory /\ fate' = fate /\ buffer = {} /\ Returns(t, "fl_store") /\ SameRun
        BY <1>1, Zenon
    <2>2. CASE t = "user"
        <3>1. pc["user"] = "fl_store"
            BY <2>1, <2>2, Zenon DEF Returns, Moves
        <3>. QED
            BY <2>1, <3>1, Zenon DEF Saved, SameMemory, FlushLabels, Draining
    <2>3. CASE t # "user"
        <3>1. pc'["user"] = pc["user"]
            BY <2>1, <2>3, Zenon DEF Returns, Moves, Threads
        <3>. QED
            BY <2>1, <3>1, Saved_Frame, Zenon DEF SameMemory
    <2>. QED
        BY <2>2, <2>3, Zenon
<1>9. Arrives
    BY <1>1, Arrives_Same, Zenon DEF SameDisk
<1>10. Scrubbed'
    <2>1. ops' = ops
        BY <1>1, Zenon DEF SameRun
    <2>2. \A q \in Records : fate'[q] = "killed" => fate[q] = "killed"
        BY <1>1, Zenon
    <2>3. ops \cap {"Flush", "Immediate"} = {} /\ pc'["worker"] \in {"ks_memory", "ks_disk"} =>
              /\ pc'["worker"] = pc["worker"] /\ arg'["worker"] = arg["worker"]
              /\ reserved' \subseteq reserved
              /\ \A q \in Records : fate'[q] = "doomed" => fate[q] = "doomed" /\ (q \in memory' => q \in memory)
        BY <1>1, ReturnLabel, Zenon DEF Returns, Moves, SameMemory, Threads
    <2>. QED
        BY <1>9, <2>1, <2>2, <2>3, Scrubbed_Frame, Zenon
<1>11. Settled'
    <2>1. ops' = ops
        BY <1>1, Zenon DEF SameRun
    <2>2. OneReader =>
              /\ uploads' = uploads /\ reserved' \subseteq reserved
              /\ memoryReadCount' \in {memoryReadCount, 1} /\ diskReadCount' = diskReadCount
              /\ m_readFromMemory' = m_readFromMemory
        BY <1>1, Zenon DEF SameReads, SameMemory
    <2>3. \A c \in Uploads : \A q \in disk' \ disk : q \notin uploads[c].ids \ Oversized
        BY <1>1, Zenon DEF SameDisk
    <2>4. pc'["worker"] \in Retrieving =>
              pc'["worker"] = pc["worker"] /\ arg'["worker"].ctx = arg["worker"].ctx
        BY <1>1, ReturnLabel, Zenon DEF Returns, Moves, Retrieving, Threads
    <2>5. \A q \in Records : fate'[q] = "delivered" => fate[q] = "delivered"
        BY <1>1, Zenon
    <2>. QED
        BY <1>9, <2>1, <2>2, <2>3, <2>4, <2>5, Settled_Frame, Zenon
<1>12. PendingFlushHasTask'
    <2>. ~m_flushPending'
        BY <1>1, Zenon
    <2>. QED
        BY Zenon DEF PendingFlushHasTask
<1>. QED
    BY <1>2, <1>3, <1>4, <1>5, <1>6, <1>7, <1>8, <1>10, <1>11, <1>12, Zenon DEF Inv, Control

\* An upload begins with a free context.
LEMMA Retrieve_Begin_Keeps ==
    ASSUME Inv, NEW t \in Threads, Retrieve_Begin(t)
    PROVE  Inv'
<1>. Control /\ Types /\ LockOwner /\ Contexts /\ Phases /\ Places /\ Held /\ Saved /\ Scrubbed /\ Settled
     /\ PendingFlushHasTask
    BY Zenon DEF Inv, Control
<1>1. /\ TypeOK'
      /\ SameMemory /\ SameDisk /\ SameFlush /\ SameRun /\ fate' = fate
      /\ ~m_shutdownStarted /\ (t = "worker" \/ (t = "user" /\ "Immediate" \in ops))
      /\ \E c \in Uploads :
            /\ uploads[c].st = "free"
            /\ SetsUpload(c, "open", uploads[c].ids, uploads[c].fromMemory)
            /\ arg'[t].ctx = c /\ arg'[t].rec = arg[t].rec
            /\ arg'[t].keys = arg[t].keys /\ arg'[t].cont = arg[t].cont
            /\ \A u \in Threads : u # t => arg'[u] = arg[u]
      /\ Moves(t, "idle", "gr_memory")
    <2>1. /\ SameMemory /\ SameDisk /\ SameFlush /\ SameRun /\ fate' = fate
          /\ memoryReadCount' = memoryReadCount /\ diskReadCount' = diskReadCount
          /\ retryCount' = retryCount /\ m_flushComplete' = m_flushComplete
          /\ m_lastReadCount' = 0 /\ m_readFromMemory' = FALSE /\ m_tokenTime' = m_tokenTime
          /\ m_isRetryAfterActive' = m_isRetryAfterActive
          /\ pc[t] = "idle"
          /\ ~m_shutdownStarted /\ (t = "worker" \/ (t = "user" /\ "Immediate" \in ops))
        BY Zenon DEF Retrieve_Begin, memoryVars, diskVars, flushVars, killVars, SameMemory, SameDisk, SameFlush, SameRun
    <2>2. pc' \in [Threads -> Labels] /\ Moves(t, "idle", "gr_memory")
        <3>. "gr_memory" \in Labels
            BY Zenon DEF Labels
        <3>. QED
            BY <2>1, GotoMoves DEF Retrieve_Begin, Types, TypeOK
    <2>3. PICK c \in UnusedUploads : /\ uploads' = [uploads EXCEPT ![c].st = "open"]
                                     /\ arg' = [arg EXCEPT ![t].ctx = c]
        BY Zenon DEF Retrieve_Begin
    <2>4. c \in Uploads /\ uploads[c].st = "free"
        BY Zenon DEF UnusedUploads
    <2>5. /\ uploads' \in [Uploads -> UploadType]
          /\ SetsUpload(c, "open", uploads[c].ids, uploads[c].fromMemory)
        BY <2>3, <2>4, Zenon DEF Types, TypeOK, UploadType, SetsUpload
    <2>6. /\ arg' \in [Threads -> ArgType]
          /\ arg'[t].ctx = c /\ arg'[t].rec = arg[t].rec
          /\ arg'[t].keys = arg[t].keys /\ arg'[t].cont = arg[t].cont
          /\ \A u \in Threads : u # t => arg'[u] = arg[u]
        <3>. arg \in [Threads -> ArgType]
            BY Zenon DEF Types, TypeOK, ArgType
        <3>. QED
            BY <2>3, <2>4, Zenon DEF ArgType
    <2>7. TypeOK'
        <3>1. /\ pc' \in [Threads -> Labels]
              /\ arg' \in [Threads -> ArgType] /\ uploads' \in [Uploads -> UploadType]
            BY <2>2, <2>5, <2>6, Zenon
        <3>2. m_lastReadCount' \in 0..1
            <4>. m_lastReadCount' = 0
                BY <2>1, Zenon
            <4>. QED
                OBVIOUS
        <3>4. m_readFromMemory' \in BOOLEAN
            BY <2>1, Zenon
        <3>3. /\ SameMemory /\ SameDisk /\ SameFlush /\ SameRun /\ fate' = fate
              /\ memoryReadCount' = memoryReadCount /\ diskReadCount' = diskReadCount
              /\ retryCount' = retryCount /\ m_flushComplete' = m_flushComplete
              /\ m_tokenTime' = m_tokenTime
          /\ m_isRetryAfterActive' = m_isRetryAfterActive
            BY <2>1, Zenon
        <3>. QED
            BY <3>1, <3>2, <3>3, <3>4, Zenon
               DEF Types, TypeOK, SameMemory, SameDisk, SameFlush, SameRun, ArgType, UploadType
    <2>. QED
        BY <2>1, <2>2, <2>4, <2>5, <2>6, <2>7, Zenon
<1>db. m_db' = m_db
    BY <1>1, Zenon DEF SameRun
<1>2. Types'
    BY <1>1, Types_Move, Zenon DEF Types, Storing, Stored, Retrieving, Responding, Scrubbing, Moves, Returns
<1>3. LockOwner'
    BY <1>1, LockOwner_Frame, Zenon DEF Moves, Returns, SameFlush, LockHeld, Threads
<1>4. Contexts'
    <2>1. PICK c \in Uploads :
             /\ uploads[c].st = "free"
             /\ SetsUpload(c, "open", uploads[c].ids, uploads[c].fromMemory)
             /\ arg'[t].ctx = c
             /\ \A u \in Threads : u # t => arg'[u] = arg[u]
        BY <1>1, Zenon
    <2>2. ~m_shutdownStarted' /\ Moves(t, "idle", "gr_memory")
        BY <1>1, Zenon DEF SameRun
    <2>3. \A u \in Threads : pc[u] \in Working => arg[u].ctx # c /\ arg[u].ctx \in Uploads
        BY <2>1, OwnContext, Zenon
    <2>4. uploads[c].ids = {}
        BY <2>1, Zenon DEF Contexts
    <2>5. pc'[t] \notin Responding
        BY <2>2, Zenon DEF Moves, Responding, Scrubbing
    <2>. QED
        BY <2>1, <2>2, <2>3, <2>4, <2>5, Contexts_Upload, Zenon DEF SetsUpload, Moves
<1>5. Phases'
    BY <1>1, ReturnLabel
       DEF Phases, SameRun, Threads, Moves, Returns, NoArg, Storing, Stored, Retrieving, Responding,
           Scrubbing, Deleting, Stopping, ShutdownLabels, FlushLabels
<1>6. Places'
    <2>1. Moved
        BY <1>1, Moved_Same, Zenon DEF SetsUpload, SameDisk
    <2>2. Fated
        BY <1>1, Fated_Same, Zenon
    <2>3. buffer' = buffer /\ Moves(t, "idle", "gr_memory") /\ t \in Threads /\ \A u \in Threads : u # t => arg'[u] = arg[u]
        BY <1>1, Zenon DEF SameMemory, Threads
    <2>. QED
        BY <1>db, <2>1, <2>2, <2>3, Places_Move, Zenon DEF Storing, Stored
<1>7. Held'
    <2>1. \A d \in Uploads : uploads'[d].ids \subseteq uploads[d].ids
        BY <1>1, Zenon DEF SetsUpload
    <2>. QED
        BY <2>1, <1>1, Held_Same, Zenon
<1>8. Saved'
    <2> SUFFICES ASSUME m_shutdownStarted' PROVE Saved'
        BY <1>5, Saved_Early, Zenon
    <2>. QED
        BY <1>1, Zenon DEF SameRun
<1>9. Arrives
    BY <1>1, Arrives_Same, Zenon DEF SameDisk
<1>10. Scrubbed'
    <2>1. ops' = ops
        BY <1>1, Zenon DEF SameRun
    <2>2. \A q \in Records : fate'[q] = "killed" => fate[q] = "killed"
        BY <1>1, Zenon
    <2>3. ops \cap {"Flush", "Immediate"} = {} /\ pc'["worker"] \in {"ks_memory", "ks_disk"} =>
              /\ pc'["worker"] = pc["worker"] /\ arg'["worker"] = arg["worker"]
              /\ reserved' \subseteq reserved
              /\ \A q \in Records : fate'[q] = "doomed" => fate[q] = "doomed" /\ (q \in memory' => q \in memory)
        BY <1>1, Zenon DEF Moves, Threads
    <2>. QED
        BY <1>9, <2>1, <2>2, <2>3, Scrubbed_Frame, Zenon
<1>11. Settled'
    <2> SUFFICES ASSUME OneReader PROVE Settled'
        BY <1>1, Zenon DEF Settled, OneReader, SameRun
    <2>t. t = "worker"
        BY <1>1, Zenon DEF OneReader
    <2>g. \A r \in Records \ Oversized : fate'[r] = "delivered" => r \notin Somewhere'
        BY <1>1, <1>9, Zenon DEF Settled, OneReaderSettles, Arrives
    <2>1. PICK c \in Uploads :
             uploads[c].st = "free" /\ SetsUpload(c, "open", uploads[c].ids, uploads[c].fromMemory)
        BY <1>1, Zenon
    <2>2. /\ reserved' = reserved /\ disk' = disk /\ pc'["worker"] = "gr_memory"
        BY <2>t, <1>1, Zenon DEF SameMemory, SameDisk, Moves
    <2>3. \A d \in Uploads : uploads'[d].ids = uploads[d].ids
        BY <2>1, Zenon DEF SetsUpload
    <2>4. reserved' \subseteq UNION {uploads'[d].ids : d \in Uploads}
        BY <2>2, <2>3, Zenon DEF Settled, OneReaderSettles
    <2>5. \A d \in Uploads : uploads'[d].st \in Answered \cup {"sent"} =>
              uploads[d].st = uploads'[d].st /\ uploads'[d].fromMemory = uploads[d].fromMemory
        BY <2>1, Zenon DEF SetsUpload, Answered
    <2>6. \A d \in Uploads : uploads'[d].st \in Answered \cup {"sent"} => Located(d, uploads[d].fromMemory)'
        BY <2>2, <2>3, <2>5, Zenon DEF Settled, Located
    <2>7. OneReaderSettles'
        BY <2>4, <2>g, Zenon DEF OneReaderSettles
    <2>. QED
        BY <2>2, <2>6, <2>7, Zenon DEF Settled
<1>12. PendingFlushHasTask'
    BY <1>1, Pending_Frame, Zenon DEF SameFlush, Moves, Returns, FlushLabels, Threads
<1>. QED
    BY <1>2, <1>3, <1>4, <1>5, <1>6, <1>7, <1>8, <1>10, <1>11, <1>12, Zenon DEF Inv, Control

\* A batch is reserved in memory; or a record over the limit is packaged and left where it is.
LEMMA Retrieve_Memory_Keeps ==
    ASSUME Inv, NEW t \in Threads, Retrieve_Memory(t)
    PROVE  Inv'
<1>. Control /\ Types /\ LockOwner /\ Contexts /\ Phases /\ Places /\ Held /\ Saved /\ Scrubbed /\ Settled
     /\ PendingFlushHasTask
    BY Zenon DEF Inv, Control
<1>1. /\ TypeOK'
      /\ buffer' = buffer /\ SameDisk /\ SameFlush /\ SameRun /\ fate' = fate /\ arg' = arg
      /\ diskReadCount' = diskReadCount /\ m_readFromMemory' = m_readFromMemory
      /\ arg[t].ctx \in Uploads
      /\ \E batch \in SUBSET memory :
            /\ SetsUpload(arg[t].ctx, uploads[arg[t].ctx].st, batch, uploads[arg[t].ctx].fromMemory)
            /\ \/ /\ batch \cap Oversized = {}
                  /\ memory' = memory \ batch /\ reserved' = reserved \cup batch
                  /\ batch = {} \/ memoryReadCount' = 1
               \/ batch \subseteq Oversized /\ memory' = memory /\ reserved' = reserved
      /\ Moves(t, "gr_memory", "gr_count")
    <2>1. /\ buffer' = buffer /\ SameDisk /\ SameFlush /\ SameRun /\ fate' = fate /\ arg' = arg
          /\ diskReadCount' = diskReadCount /\ m_readFromMemory' = m_readFromMemory
          /\ retryCount' = retryCount /\ m_flushComplete' = m_flushComplete
          /\ m_lastReadCount' = m_lastReadCount /\ m_tokenTime' = m_tokenTime
          /\ m_isRetryAfterActive' = m_isRetryAfterActive
          /\ pc[t] = "gr_memory"
        BY Zenon DEF Retrieve_Memory, diskVars, flushVars, readVars, killVars, SameDisk, SameFlush, SameRun
    <2>2. pc' \in [Threads -> Labels] /\ Moves(t, "gr_memory", "gr_count")
        <3>. "gr_count" \in Labels
            BY Zenon DEF Labels
        <3>. QED
            BY <2>1, GotoMoves DEF Retrieve_Memory, Types, TypeOK
    <2>3. arg[t].ctx \in Uploads
        BY <2>1, Zenon DEF Types, Retrieving
    <2>4. PICK batch \in SUBSET memory :
             /\ uploads' = [uploads EXCEPT ![arg[t].ctx].ids = batch]
             /\ \/ /\ batch \cap Oversized = {}
                   /\ memory' = memory \ batch /\ reserved' = reserved \cup batch
                   /\ memoryReadCount' = ReadCount(batch)
                \/ batch \subseteq Oversized /\ memory' = memory /\ reserved' = reserved /\ memoryReadCount' = 0
        <3>1. CASE \E b \in SUBSET (memory \ Oversized) :
                     /\ memory' = memory \ b
                     /\ reserved' = reserved \cup b
                     /\ memoryReadCount' = ReadCount(b)
                     /\ uploads' = [uploads EXCEPT ![arg[t].ctx].ids = b]
            <4>1. PICK b \in SUBSET (memory \ Oversized) :
                     /\ memory' = memory \ b
                     /\ reserved' = reserved \cup b
                     /\ memoryReadCount' = ReadCount(b)
                     /\ uploads' = [uploads EXCEPT ![arg[t].ctx].ids = b]
                BY <3>1, Zenon
            <4>2. b \in SUBSET memory /\ b \cap Oversized = {}
                BY Zenon
            <4>. QED
                BY <4>1, <4>2, Zenon
        <3>2. CASE \E r \in memory \cap Oversized :
                     /\ memoryReadCount' = 0
                     /\ uploads' = [uploads EXCEPT ![arg[t].ctx].ids = {r}]
                     /\ UNCHANGED <<memory, reserved>>
            <4>1. PICK r \in memory \cap Oversized :
                     /\ memoryReadCount' = 0
                     /\ uploads' = [uploads EXCEPT ![arg[t].ctx].ids = {r}]
                     /\ UNCHANGED <<memory, reserved>>
                BY <3>2, Zenon
            <4>2. {r} \in SUBSET memory /\ {r} \subseteq Oversized
                BY Zenon
            <4>. QED
                BY <4>1, <4>2, Zenon
        <3>. QED
            BY <3>1, <3>2, Zenon DEF Retrieve_Memory
    <2>5. memoryReadCount' \in 0..1 /\ (ReadCount(batch) = 1 \/ batch = {})
        BY <2>4 DEF ReadCount
    <2>6. batch \subseteq Records
        BY Zenon DEF Types, TypeOK
    <2>7. /\ uploads' \in [Uploads -> UploadType]
          /\ SetsUpload(arg[t].ctx, uploads[arg[t].ctx].st, batch, uploads[arg[t].ctx].fromMemory)
        BY <2>3, <2>4, <2>6 DEF Types, TypeOK, UploadType, SetsUpload
    <2>8. memory' \subseteq Records /\ reserved' \subseteq Records
        BY <2>4, <2>6, Zenon DEF Types, TypeOK
    <2>9. TypeOK'
        BY <2>1, <2>2, <2>5, <2>7, <2>8, Zenon DEF Types, TypeOK, SameDisk, SameFlush, SameRun, UploadType
    <2>10. /\ SetsUpload(arg[t].ctx, uploads[arg[t].ctx].st, batch, uploads[arg[t].ctx].fromMemory)
           /\ \/ /\ batch \cap Oversized = {}
                 /\ memory' = memory \ batch /\ reserved' = reserved \cup batch
                 /\ batch = {} \/ memoryReadCount' = 1
              \/ batch \subseteq Oversized /\ memory' = memory /\ reserved' = reserved
        BY <2>4, <2>5, <2>7, Zenon
    <2>. QED
        BY <2>1, <2>2, <2>3, <2>9, <2>10, Zenon
<1>db. m_db' = m_db
    BY <1>1, Zenon DEF SameRun
<1>2. Types'
    BY <1>1, Types_Move, Zenon DEF Types, Storing, Stored, Retrieving, Responding, Scrubbing, Moves, Returns
<1>3. LockOwner'
    BY <1>1, LockOwner_Frame, Zenon DEF Moves, Returns, SameFlush, LockHeld, Threads
<1>4. Contexts'
    <2> DEFINE c == arg[t].ctx
    <2>0. pc[t] = "gr_memory"
        BY <1>1, Zenon DEF Moves
    <2>1. /\ c \in Uploads /\ uploads[c].st = "open"
          /\ \A u \in Threads : u # t /\ pc[u] \in Working => arg[u].ctx # c /\ arg[u].ctx \in Uploads
        BY <2>0, OwnContext, Zenon DEF Contexts, Working, Retrieving
    <2>2. ~m_shutdownStarted
        BY <2>1, ActiveUpload, Zenon
    <2>3. /\ uploads'[c].st = "open" /\ \A d \in Uploads : d # c => uploads'[d] = uploads[d]
          /\ m_shutdownStarted' = m_shutdownStarted /\ arg' = arg
        BY <2>1, <1>1, Zenon DEF SameRun, SetsUpload
    <2>4. /\ pc'[t] \in Retrieving /\ pc'[t] \notin Responding /\ pc'[t] # "gr_memory"
          /\ \A u \in Threads : u # t => pc'[u] = pc[u]
        BY <1>1, Zenon DEF Moves, Retrieving, Responding, Scrubbing
    <2> HIDE DEF c
    <2>. QED
        BY <2>1, <2>2, <2>3, <2>4, Contexts_Upload DEF c
<1>5. Phases'
    BY <1>1, ReturnLabel, Zenon
       DEF Phases, SameRun, Threads, Moves, Returns, NoArg, Storing, Stored, Retrieving, Responding,
           Scrubbing, Deleting, Stopping, ShutdownLabels, FlushLabels
<1>6. Places'
    <2> DEFINE c == arg[t].ctx
    <2>1. PICK batch \in SUBSET memory :
             /\ uploads'[c].ids = batch /\ \A d \in Uploads : d # c => uploads'[d] = uploads[d]
             /\ \/ /\ batch \cap Oversized = {}
                   /\ memory' = memory \ batch /\ reserved' = reserved \cup batch
                \/ memory' = memory /\ reserved' = reserved
        BY <1>1, Zenon DEF SetsUpload
    <2>2. /\ buffer' = buffer /\ disk' = disk /\ fate' = fate /\ arg' = arg /\ c \in Uploads
          /\ Moves(t, "gr_memory", "gr_count")
        BY <1>1, Zenon DEF SameDisk
    <2> HIDE DEF c
    <2>3. Somewhere' = Somewhere
        BY <2>1, <2>2, Zenon DEF Somewhere
    <2>4. AtMostOneCopy'
        BY <2>1, <2>2, Zenon DEF Places, AtMostOneCopy
    <2>5. reserved' \cap Oversized = {}
        BY <2>1, Zenon DEF Places
    <2>6. \A d \in Uploads : uploads'[d].ids \subseteq uploads[d].ids \cup Somewhere
        BY <2>1, <2>2, Zenon DEF Somewhere
    <2>7. Moved
        BY <2>3, <2>4, <2>5, <2>6, Zenon DEF Moved
    <2>8. Fated
        BY <2>2, Fated_Same, Zenon
    <2>. QED
        BY <1>db, <2>2, <2>7, <2>8, Places_Move, Zenon DEF Storing, Stored
<1>7. Held'
    <2> DEFINE c == arg[t].ctx
    <2>1. PICK batch \in SUBSET memory :
             /\ uploads'[c].ids = batch /\ \A d \in Uploads : d # c => uploads'[d].ids = uploads[d].ids
             /\ \/ memory' = memory \ batch /\ reserved' = reserved \cup batch
                \/ batch \subseteq Oversized /\ memory' = memory /\ reserved' = reserved
        BY <1>1, Zenon DEF SetsUpload
    <2>2. buffer' = buffer /\ SameDisk /\ c \in Uploads
        BY <1>1, Zenon
    <2>3. batch \cap (buffer \cup disk) = {}
        BY Zenon DEF Places, AtMostOneCopy
    <2> HIDE DEF c
    <2>4. \A d \in Uploads : d # c => batch \cap uploads[d].ids \subseteq Oversized
        BY Zenon DEF Held
    <2>5. \A d \in Uploads : \A r \in uploads'[d].ids \ Oversized : r \notin memory' \cup buffer'
        BY <2>1, <2>2, <2>3, Zenon DEF Held
    <2>6. \A e, d \in Uploads : e # d =>
              \A r \in (uploads'[e].ids \cap uploads'[d].ids) \ Oversized : r \notin reserved'
        BY <2>1, <2>2, <2>4, Zenon DEF Held
    <2>. QED
        BY <2>5, <2>6, Zenon DEF Held
<1>8. Saved'
    <2> SUFFICES ASSUME m_shutdownStarted' PROVE Saved'
        BY <1>5, Saved_Early, Zenon
    <2>. QED
        BY <1>1, NoWork, Zenon DEF SameRun, Control, Working, Retrieving, Responding, Moves, Returns
<1>9. Arrives
    BY <1>1, Zenon DEF Arrives, Somewhere, SameDisk
<1>10. Scrubbed'
    <2>1. ops' = ops
        BY <1>1, Zenon DEF SameRun
    <2>2. \A q \in Records : fate'[q] = "killed" => fate[q] = "killed"
        BY <1>1, Zenon
    <2>3. ops \cap {"Flush", "Immediate"} = {} /\ pc'["worker"] \in {"ks_memory", "ks_disk"} =>
              /\ pc'["worker"] = pc["worker"] /\ arg'["worker"] = arg["worker"]
              /\ reserved' \subseteq reserved
              /\ \A q \in Records : fate'[q] = "doomed" => fate[q] = "doomed" /\ (q \in memory' => q \in memory)
        <3>1. pc[t] \in Retrieving \cup Responding /\ pc'["worker"] \in {"ks_memory", "ks_disk"} => t # "worker"
            BY <1>1, ReturnLabel, Zenon DEF Moves, Returns, Retrieving, Responding, Scrubbing
        <3>2. pc[t] \in Retrieving \cup Responding /\ (t = "user" => "Immediate" \in ops) /\ t # "app"
            BY <1>1, Zenon DEF Moves, Returns, Retrieving, Responding, Control, Phases, FlushLabels, Scrubbing
        <3>. QED
            BY <3>1, <3>2, Zenon DEF Threads
    <2>. QED
        BY <1>9, <2>1, <2>2, <2>3, Scrubbed_Frame, Zenon
<1>11. Settled'
    <2> SUFFICES ASSUME OneReader PROVE Settled'
        BY <1>1, Zenon DEF Settled, OneReader, SameRun
    <2>t. t = "worker"
        BY <1>1, OnlyWorker, Zenon DEF Moves, Returns, Retrieving, Responding
    <2>g. \A r \in Records \ Oversized : fate'[r] = "delivered" => r \notin Somewhere'
        BY <1>1, <1>9, Zenon DEF Settled, OneReaderSettles, Arrives
    <2>1. arg' = arg /\ arg[t].ctx \in Uploads /\ uploads[arg[t].ctx].st = "open"
        BY <1>1, Zenon DEF Control, Contexts, Types, Moves, Retrieving
    <2> DEFINE c == arg[t].ctx
    <2>2. PICK batch \in SUBSET memory :
              /\ SetsUpload(c, uploads[c].st, batch, uploads[c].fromMemory)
              /\ \/ /\ batch \cap Oversized = {}
                    /\ memory' = memory \ batch /\ reserved' = reserved \cup batch
                    /\ batch = {} \/ memoryReadCount' = 1
                 \/ batch \subseteq Oversized /\ memory' = memory /\ reserved' = reserved
        BY <1>1, Zenon
    <2>3. disk' = disk /\ pc[t] = "gr_memory" /\ pc'["worker"] = "gr_count" /\ reserved' \subseteq reserved \cup memory
        BY <2>t, <2>2, <1>1, Zenon DEF SameDisk, Moves
    <2>4. uploads[c].ids = {}
        BY <2>3, Zenon DEF Control, Contexts
    <2>5. uploads'[c].st = "open" /\ uploads'[c].ids = batch
        BY <2>1, <2>2, Zenon DEF SetsUpload
    <2>6. \A d \in Uploads : d # c => uploads'[d] = uploads[d]
        BY <2>2, Zenon DEF SetsUpload
    <2>7. Located(arg["worker"].ctx, TRUE)'
        <3>1. \A r \in batch : r \notin disk
            BY Zenon DEF Places, AtMostOneCopy
        <3>. QED
            BY <2>1, <2>t, <2>3, <2>5, <3>1, Zenon DEF Located
    <2>8. uploads'[c].ids \subseteq Oversized \/ memoryReadCount' = 1
        BY <2>2, <2>5, Zenon
    <2>9. ASSUME NEW d \in Uploads, uploads'[d].st \in Answered \cup {"sent"}
          PROVE  Located(d, uploads[d].fromMemory)'
        <3>1. d # c
            BY <2>5, <2>9, Zenon DEF Answered
        <3>2. Located(d, uploads[d].fromMemory) /\ uploads'[d] = uploads[d]
            BY <2>6, <2>9, <3>1, Zenon DEF Settled
        <3>3. \A r \in uploads[d].ids \ Oversized : r \notin memory
            BY Zenon DEF Held
        <3>. QED
            BY <2>3, <3>2, <3>3, Zenon DEF Located
    <2>10. reserved' \subseteq UNION {uploads'[d].ids : d \in Uploads}
        <3>1. ASSUME NEW r \in reserved PROVE \E d \in Uploads : r \in uploads'[d].ids
            BY <2>4, <2>6 DEF Settled, OneReaderSettles
        <3>. QED
            BY <2>1, <2>2, <2>5, <3>1, Zenon
    <2>11. OneReaderSettles'
        BY <2>10, <2>g, Zenon DEF OneReaderSettles
    <2>. QED
        BY <2>1, <2>t, <2>3, <2>7, <2>8, <2>9, <2>11, Zenon DEF Settled
<1>12. PendingFlushHasTask'
    BY <1>1, Pending_Frame, Zenon DEF SameFlush, Moves, Returns, FlushLabels, Threads
<1>. QED
    BY <1>2, <1>3, <1>4, <1>5, <1>6, <1>7, <1>8, <1>10, <1>11, <1>12, Zenon DEF Inv, Control

\* The handler looks at the count: what was read from memory is sent, else the disk is read.
LEMMA Retrieve_Count_Keeps ==
    ASSUME Inv, NEW t \in Threads, Retrieve_Count(t)
    PROVE  Inv'
<1>. Control /\ Types /\ LockOwner /\ Contexts /\ Phases /\ Places /\ Held /\ Saved /\ Scrubbed /\ Settled
     /\ PendingFlushHasTask
    BY Zenon DEF Inv, Control
<1>1. /\ TypeOK'
      /\ SameMemory /\ SameDisk /\ SameFlush /\ SameRun /\ uploads' = uploads
      /\ fate' = fate /\ arg' = arg
      /\ memoryReadCount' = memoryReadCount /\ diskReadCount' = diskReadCount
      /\ m_readFromMemory' = TRUE
      /\ \/ Moves(t, "gr_count", "gr_end")
         \/ Moves(t, "gr_count", "gr_disk") /\ memoryReadCount # 1
    <2>1. /\ SameMemory /\ SameDisk /\ SameFlush /\ SameRun /\ uploads' = uploads
          /\ fate' = fate /\ arg' = arg
          /\ memoryReadCount' = memoryReadCount /\ diskReadCount' = diskReadCount
          /\ retryCount' = retryCount /\ m_flushComplete' = m_flushComplete
          /\ m_tokenTime' = m_tokenTime
          /\ m_isRetryAfterActive' = m_isRetryAfterActive
          /\ pc[t] = "gr_count"
        BY Zenon DEF Retrieve_Count, memoryVars, diskVars, flushVars, killVars, SameMemory, SameDisk, SameFlush, SameRun
    <2>2. m_lastReadCount' \in 0..1 /\ (memoryReadCount = 1 => m_lastReadCount' > 0)
        BY DEF Retrieve_Count, Types, TypeOK
    <2>3. /\ pc' \in [Threads -> Labels]
          /\ \/ Moves(t, "gr_count", "gr_end")
             \/ Moves(t, "gr_count", "gr_disk") /\ memoryReadCount # 1
        <3>. "gr_end" \in Labels /\ "gr_disk" \in Labels
            BY Zenon DEF Labels
        <3>1. CASE m_lastReadCount' > 0
            <4>. Goto(t, "gr_end")
                BY <3>1, Zenon DEF Retrieve_Count
            <4>. QED
                BY <2>1, GotoMoves DEF Types, TypeOK
        <3>2. CASE ~(m_lastReadCount' > 0)
            <4>. Goto(t, "gr_disk") /\ memoryReadCount # 1
                BY <2>2, <3>2, Zenon DEF Retrieve_Count
            <4>. QED
                BY <2>1, GotoMoves, Zenon DEF Types, TypeOK
        <3>. QED
            BY <3>1, <3>2, Zenon
    <2>4. m_readFromMemory' = TRUE
        BY Zenon DEF Retrieve_Count
    <2>5. m_readFromMemory' \in BOOLEAN
        BY <2>4, Zenon
    <2>6. TypeOK'
        <3>. pc' \in [Threads -> Labels] /\ m_lastReadCount' \in 0..1
            BY <2>2, <2>3, Zenon
        <3>. QED
            BY <2>1, <2>5, Zenon DEF Types, TypeOK, SameMemory, SameDisk, SameFlush, SameRun
    <2>. QED
        BY <2>1, <2>3, <2>4, <2>6, Zenon
<1>db. m_db' = m_db
    BY <1>1, Zenon DEF SameRun
<1>2. Types'
    BY <1>1, Types_Move, Zenon DEF Types, Storing, Stored, Retrieving, Responding, Scrubbing, Moves, Returns
<1>3. LockOwner'
    BY <1>1, LockOwner_Frame, Zenon DEF Moves, Returns, SameFlush, LockHeld, Threads
<1>4. Contexts'
    BY <1>1, Contexts_Frame, Zenon
       DEF SameRun, Storing, Stored, Retrieving, Responding, Scrubbing, Moves, Returns, Working
<1>5. Phases'
    BY <1>1, ReturnLabel, Zenon
       DEF Phases, SameRun, Threads, Moves, Returns, NoArg, Storing, Stored, Retrieving, Responding,
           Scrubbing, Deleting, Stopping, ShutdownLabels, FlushLabels
<1>6. Places'
    <2>1. Moved
        BY <1>1, Moved_Same, Zenon DEF SetsUpload, SameDisk
    <2>2. Fated
        BY <1>1, Fated_Same, Zenon
    <2>3. buffer' = buffer /\ (Moves(t, "gr_count", "gr_end") \/ Moves(t, "gr_count", "gr_disk")) /\ t \in Threads /\ \A u \in Threads : u # t => arg'[u] = arg[u]
        BY <1>1, Zenon DEF SameMemory, Threads
    <2>. QED
        BY <1>db, <2>1, <2>2, <2>3, Places_Move, Zenon DEF Storing, Stored
<1>7. Held'
    BY <1>1, Held_Same, Zenon
<1>8. Saved'
    <2> SUFFICES ASSUME m_shutdownStarted' PROVE Saved'
        BY <1>5, Saved_Early, Zenon
    <2>. QED
        BY <1>1, NoWork, Zenon DEF SameRun, Control, Working, Retrieving, Responding, Moves, Returns
<1>9. Arrives
    BY <1>1, Arrives_Same, Zenon DEF SameDisk
<1>10. Scrubbed'
    <2>1. ops' = ops
        BY <1>1, Zenon DEF SameRun
    <2>2. \A q \in Records : fate'[q] = "killed" => fate[q] = "killed"
        BY <1>1, Zenon
    <2>3. ops \cap {"Flush", "Immediate"} = {} /\ pc'["worker"] \in {"ks_memory", "ks_disk"} =>
              /\ pc'["worker"] = pc["worker"] /\ arg'["worker"] = arg["worker"]
              /\ reserved' \subseteq reserved
              /\ \A q \in Records : fate'[q] = "doomed" => fate[q] = "doomed" /\ (q \in memory' => q \in memory)
        <3>1. pc[t] \in Retrieving \cup Responding /\ pc'["worker"] \in {"ks_memory", "ks_disk"} => t # "worker"
            BY <1>1, ReturnLabel, Zenon DEF Moves, Returns, Retrieving, Responding, Scrubbing
        <3>2. pc[t] \in Retrieving \cup Responding /\ (t = "user" => "Immediate" \in ops) /\ t # "app"
            BY <1>1, Zenon DEF Moves, Returns, Retrieving, Responding, Control, Phases, FlushLabels, Scrubbing
        <3>. QED
            BY <3>1, <3>2, Zenon DEF Threads
    <2>. QED
        BY <1>9, <2>1, <2>2, <2>3, Scrubbed_Frame, Zenon
<1>11. Settled'
    <2> SUFFICES ASSUME OneReader PROVE Settled'
        BY <1>1, Zenon DEF Settled, OneReader, SameRun
    <2>t. t = "worker"
        BY <1>1, OnlyWorker, Zenon DEF Moves, Returns, Retrieving, Responding
    <2>s. /\ uploads' = uploads /\ reserved' = reserved /\ disk' = disk /\ fate' = fate /\ arg' = arg
          /\ memory' = memory /\ buffer' = buffer
        BY <1>1, Zenon DEF SameMemory, SameDisk
    <2>d. OneReaderSettles'
        BY <2>s, Zenon DEF Settled, OneReaderSettles, Somewhere
    <2>e. \A d \in Uploads : uploads'[d].st \in Answered \cup {"sent"} => Located(d, uploads[d].fromMemory)'
        BY <2>s, Zenon DEF Settled, Located
    <2>1. pc["worker"] = "gr_count"
        BY <2>t, <1>1, Zenon DEF Moves
    <2>2. /\ Located(arg["worker"].ctx, TRUE)
          /\ uploads[arg["worker"].ctx].ids \subseteq Oversized \/ memoryReadCount = 1
        BY <2>1, Zenon DEF Settled
    <2>3. Located(arg["worker"].ctx, TRUE)'
        BY <2>s, <2>2, Zenon DEF Located
    <2>4. CASE pc'["worker"] = "gr_end"
        <3>1. m_readFromMemory' = TRUE
            BY <1>1, Zenon
        <3>2. Located(arg["worker"].ctx, m_readFromMemory)'
            BY <2>3, <3>1, Zenon DEF Located
        <3>. QED
            BY <2>4, <2>d, <2>e, <3>2, Zenon DEF Settled
    <2>5. CASE pc'["worker"] = "gr_disk" /\ memoryReadCount # 1
        BY <2>2, <2>5, <2>s, <2>d, <2>e, Zenon DEF Settled
    <2>. QED
        BY <2>t, <2>4, <2>5, <1>1, Zenon DEF Moves
<1>12. PendingFlushHasTask'
    BY <1>1, Pending_Frame, Zenon DEF SameFlush, Moves, Returns, FlushLabels, Threads
<1>. QED
    BY <1>2, <1>3, <1>4, <1>5, <1>6, <1>7, <1>8, <1>10, <1>11, <1>12, Zenon DEF Inv, Control

\* The handler looks at the count of the disk.
LEMMA Retrieve_DiskCount_Keeps ==
    ASSUME Inv, NEW t \in Threads, Retrieve_DiskCount(t)
    PROVE  Inv'
<1>. Control /\ Types /\ LockOwner /\ Contexts /\ Phases /\ Places /\ Held /\ Saved /\ Scrubbed /\ Settled
     /\ PendingFlushHasTask
    BY Zenon DEF Inv, Control
<1>1. /\ TypeOK'
      /\ SameMemory /\ SameDisk /\ SameFlush /\ SameRun /\ uploads' = uploads
      /\ fate' = fate /\ arg' = arg
      /\ memoryReadCount' = memoryReadCount /\ diskReadCount' = diskReadCount
      /\ diskReadCount = 1 => m_readFromMemory' = FALSE
      /\ Moves(t, "gr_diskcount", "gr_end")
    <2>1. /\ SameMemory /\ SameDisk /\ SameFlush /\ SameRun /\ uploads' = uploads
          /\ fate' = fate /\ arg' = arg
          /\ memoryReadCount' = memoryReadCount /\ diskReadCount' = diskReadCount
          /\ retryCount' = retryCount /\ m_flushComplete' = m_flushComplete
          /\ m_tokenTime' = m_tokenTime
          /\ m_isRetryAfterActive' = m_isRetryAfterActive
          /\ pc[t] = "gr_diskcount"
        BY Zenon
           DEF Retrieve_DiskCount, memoryVars, diskVars, flushVars, killVars, SameMemory, SameDisk, SameFlush,
               SameRun
    <2>2. pc' \in [Threads -> Labels] /\ Moves(t, "gr_diskcount", "gr_end")
        <3>. "gr_end" \in Labels
            BY Zenon DEF Labels
        <3>. QED
            BY <2>1, GotoMoves, Zenon DEF Retrieve_DiskCount, Types, TypeOK
    <2>3. \/ diskReadCount > 0 /\ m_lastReadCount' = 1 /\ m_readFromMemory' = FALSE
          \/ ~(diskReadCount > 0) /\ m_lastReadCount' = m_lastReadCount /\ m_readFromMemory' = m_readFromMemory
        BY Zenon DEF Retrieve_DiskCount, readVars, killVars
    <2>4. m_readFromMemory' \in BOOLEAN
        BY <2>3, Zenon DEF Types, TypeOK
    <2>5. m_lastReadCount' \in 0..1
        <3>. m_lastReadCount' = 1 \/ m_lastReadCount' = m_lastReadCount
            BY <2>3, Zenon
        <3>. QED
            BY DEF Types, TypeOK
    <2>6. TypeOK'
        <3>. pc' \in [Threads -> Labels]
            BY <2>2, Zenon
        <3>. QED
            BY <2>1, <2>4, <2>5, Zenon DEF Types, TypeOK, SameMemory, SameDisk, SameFlush, SameRun
    <2>7. diskReadCount = 1 => diskReadCount > 0
        OBVIOUS
    <2>. QED
        BY <2>1, <2>2, <2>3, <2>6, <2>7, Zenon
<1>db. m_db' = m_db
    BY <1>1, Zenon DEF SameRun
<1>2. Types'
    BY <1>1, Types_Move, Zenon DEF Types, Storing, Stored, Retrieving, Responding, Scrubbing, Moves, Returns
<1>3. LockOwner'
    BY <1>1, LockOwner_Frame, Zenon DEF Moves, Returns, SameFlush, LockHeld, Threads
<1>4. Contexts'
    BY <1>1, Contexts_Frame, Zenon
       DEF SameRun, Storing, Stored, Retrieving, Responding, Scrubbing, Moves, Returns, Working
<1>5. Phases'
    BY <1>1, ReturnLabel, Zenon
       DEF Phases, SameRun, Threads, Moves, Returns, NoArg, Storing, Stored, Retrieving, Responding,
           Scrubbing, Deleting, Stopping, ShutdownLabels, FlushLabels
<1>6. Places'
    <2>1. Moved
        BY <1>1, Moved_Same, Zenon DEF SetsUpload, SameDisk
    <2>2. Fated
        BY <1>1, Fated_Same, Zenon
    <2>3. buffer' = buffer /\ Moves(t, "gr_diskcount", "gr_end") /\ t \in Threads /\ \A u \in Threads : u # t => arg'[u] = arg[u]
        BY <1>1, Zenon DEF SameMemory, Threads
    <2>. QED
        BY <1>db, <2>1, <2>2, <2>3, Places_Move, Zenon DEF Storing, Stored
<1>7. Held'
    BY <1>1, Held_Same, Zenon
<1>8. Saved'
    <2> SUFFICES ASSUME m_shutdownStarted' PROVE Saved'
        BY <1>5, Saved_Early, Zenon
    <2>. QED
        BY <1>1, NoWork, Zenon DEF SameRun, Control, Working, Retrieving, Responding, Moves, Returns
<1>9. Arrives
    BY <1>1, Arrives_Same, Zenon DEF SameDisk
<1>10. Scrubbed'
    <2>1. ops' = ops
        BY <1>1, Zenon DEF SameRun
    <2>2. \A q \in Records : fate'[q] = "killed" => fate[q] = "killed"
        BY <1>1, Zenon
    <2>3. ops \cap {"Flush", "Immediate"} = {} /\ pc'["worker"] \in {"ks_memory", "ks_disk"} =>
              /\ pc'["worker"] = pc["worker"] /\ arg'["worker"] = arg["worker"]
              /\ reserved' \subseteq reserved
              /\ \A q \in Records : fate'[q] = "doomed" => fate[q] = "doomed" /\ (q \in memory' => q \in memory)
        <3>1. pc[t] \in Retrieving \cup Responding /\ pc'["worker"] \in {"ks_memory", "ks_disk"} => t # "worker"
            BY <1>1, ReturnLabel, Zenon DEF Moves, Returns, Retrieving, Responding, Scrubbing
        <3>2. pc[t] \in Retrieving \cup Responding /\ (t = "user" => "Immediate" \in ops) /\ t # "app"
            BY <1>1, Zenon DEF Moves, Returns, Retrieving, Responding, Control, Phases, FlushLabels, Scrubbing
        <3>. QED
            BY <3>1, <3>2, Zenon DEF Threads
    <2>. QED
        BY <1>9, <2>1, <2>2, <2>3, Scrubbed_Frame, Zenon
<1>11. Settled'
    <2> SUFFICES ASSUME OneReader PROVE Settled'
        BY <1>1, Zenon DEF Settled, OneReader, SameRun
    <2>t. t = "worker"
        BY <1>1, OnlyWorker, Zenon DEF Moves, Returns, Retrieving, Responding
    <2>s. /\ uploads' = uploads /\ reserved' = reserved /\ disk' = disk /\ fate' = fate /\ arg' = arg
          /\ memory' = memory /\ buffer' = buffer
        BY <1>1, Zenon DEF SameMemory, SameDisk
    <2>d. OneReaderSettles'
        BY <2>s, Zenon DEF Settled, OneReaderSettles, Somewhere
    <2>e. \A d \in Uploads : uploads'[d].st \in Answered \cup {"sent"} => Located(d, uploads[d].fromMemory)'
        BY <2>s, Zenon DEF Settled, Located
    <2>1. pc["worker"] = "gr_diskcount" /\ pc'["worker"] = "gr_end"
        BY <2>t, <1>1, Zenon DEF Moves
    <2>2. /\ Located(arg["worker"].ctx, FALSE)
          /\ uploads[arg["worker"].ctx].ids \subseteq Oversized \/ diskReadCount = 1
        BY <2>1, Zenon DEF Settled
    <2>3. Located(arg["worker"].ctx, m_readFromMemory)'
        <3>1. CASE uploads[arg["worker"].ctx].ids \subseteq Oversized
            BY <2>s, <3>1, Zenon DEF Located
        <3>2. CASE diskReadCount = 1
            <4>1. m_readFromMemory' = FALSE
                BY <3>2, <1>1, Zenon
            <4>. QED
                BY <2>s, <2>2, <4>1, Zenon DEF Located
        <3>. QED
            BY <2>2, <3>1, <3>2, Zenon
    <2>. QED
        BY <2>1, <2>3, <2>d, <2>e, Zenon DEF Settled
<1>12. PendingFlushHasTask'
    BY <1>1, Pending_Frame, Zenon DEF SameFlush, Moves, Returns, FlushLabels, Threads
<1>. QED
    BY <1>2, <1>3, <1>4, <1>5, <1>6, <1>7, <1>8, <1>10, <1>11, <1>12, Zenon DEF Inv, Control

\* The package is empty, released again, or sent, with the handler's flag in its context.
LEMMA Retrieve_End_Keeps ==
    ASSUME Inv, NEW t \in Threads, Retrieve_End(t)
    PROVE  Inv'
<1>. Control /\ Types /\ LockOwner /\ Contexts /\ Phases /\ Places /\ Held /\ Saved /\ Scrubbed /\ Settled
     /\ PendingFlushHasTask
    BY Zenon DEF Inv, Control
<1>1. /\ TypeOK'
      /\ SameMemory /\ SameDisk /\ SameReads /\ SameFlush /\ SameRun /\ fate' = fate
      /\ arg[t].ctx \in Uploads
      /\ \/ /\ uploads[arg[t].ctx].ids = {}
            /\ SetsUpload(arg[t].ctx, "free", {}, FALSE)
            /\ Returns(t, "gr_end")
         \/ /\ SetsUpload(arg[t].ctx, "release", uploads[arg[t].ctx].ids, m_readFromMemory)
            /\ Moves(t, "gr_end", "rs_ids") /\ arg' = arg
         \/ /\ SetsUpload(arg[t].ctx, "sent", uploads[arg[t].ctx].ids, m_readFromMemory)
            /\ Returns(t, "gr_end")
    <2>1. /\ SameMemory /\ SameDisk /\ SameReads /\ SameFlush /\ SameRun /\ fate' = fate
          /\ retryCount' = retryCount /\ m_flushComplete' = m_flushComplete
          /\ m_lastReadCount' = m_lastReadCount /\ m_tokenTime' = m_tokenTime
          /\ m_isRetryAfterActive' = m_isRetryAfterActive
          /\ pc[t] = "gr_end"
        BY Zenon
           DEF Retrieve_End, memoryVars, diskVars, flushVars, readVars, killVars, SameMemory, SameDisk, SameReads,
               SameFlush, SameRun
    <2>2. arg[t].ctx \in Uploads
        BY <2>1, Zenon DEF Types, Retrieving
    <2> DEFINE c == arg[t].ctx
               ctx == [uploads[c] EXCEPT !.fromMemory = m_readFromMemory]
    <2>3. /\ FreeUpload \in UploadType
          /\ [ctx EXCEPT !.st = "release"] \in UploadType
          /\ [ctx EXCEPT !.st = "sent"] \in UploadType
        <3>. uploads[c] \in UploadType /\ m_readFromMemory \in BOOLEAN
            BY <2>2, UploadFields, Zenon DEF Types, TypeOK
        <3>. QED
            BY Zenon DEF UploadType, FreeUpload
    <2>4. /\ ctx.ids = uploads[c].ids
          /\ [ctx EXCEPT !.st = "release"].st = "release" /\ [ctx EXCEPT !.st = "release"].ids = uploads[c].ids
          /\ [ctx EXCEPT !.st = "release"].fromMemory = m_readFromMemory
          /\ [ctx EXCEPT !.st = "sent"].st = "sent" /\ [ctx EXCEPT !.st = "sent"].ids = uploads[c].ids
          /\ [ctx EXCEPT !.st = "sent"].fromMemory = m_readFromMemory
        <3>. uploads[c] \in UploadType
            BY <2>2, UploadFields, Zenon DEF Types
        <3>. QED
            BY Zenon DEF UploadType
    <2>5. FreeUpload.st = "free" /\ FreeUpload.ids = {} /\ FreeUpload.fromMemory = FALSE
        BY Zenon DEF FreeUpload
    <2> DEFINE Outcome ==
               \/ /\ uploads[c].ids = {}
                  /\ SetsUpload(c, "free", {}, FALSE)
                  /\ Returns(t, "gr_end")
               \/ /\ SetsUpload(c, "release", uploads[c].ids, m_readFromMemory)
                  /\ Moves(t, "gr_end", "rs_ids") /\ arg' = arg
               \/ /\ SetsUpload(c, "sent", uploads[c].ids, m_readFromMemory)
                  /\ Returns(t, "gr_end")
          Typed == /\ uploads' \in [Uploads -> UploadType] /\ pc' \in [Threads -> Labels]
                   /\ arg' \in [Threads -> ArgType]
    <2>6. Typed /\ Outcome
        <3>1. CASE ctx.ids = {} /\ uploads' = [uploads EXCEPT ![c] = FreeUpload] /\ Return(t)
            <4>1. uploads' \in [Uploads -> UploadType] /\ SetsUpload(c, "free", {}, FALSE)
                <5>. uploads' \in [Uploads -> UploadType]
                     /\ SetsUpload(c, FreeUpload.st, FreeUpload.ids, FreeUpload.fromMemory)
                    BY <2>2, <2>3, <3>1, UploadSet, Zenon DEF Types
                <5>. QED
                    BY <2>5, Zenon
            <4>2. pc' \in [Threads -> Labels] /\ arg' \in [Threads -> ArgType] /\ Returns(t, "gr_end")
                BY <2>1, <3>1, ReturnMoves, Zenon DEF Types
            <4>. QED
                BY <2>4, <3>1, <4>1, <4>2, Zenon
        <3>2. CASE uploads' = [uploads EXCEPT ![c] = [ctx EXCEPT !.st = "release"]] /\ Goto(t, "rs_ids") /\ UNCHANGED arg
            <4> DEFINE x == [ctx EXCEPT !.st = "release"]
            <4>1. uploads' \in [Uploads -> UploadType] /\ SetsUpload(c, x.st, x.ids, x.fromMemory)
                BY <2>2, <2>3, <3>2, UploadSet, Zenon DEF Types
            <4>2. SetsUpload(c, "release", uploads[c].ids, m_readFromMemory)
                BY <2>4, <4>1, Zenon
            <4>3. pc' \in [Threads -> Labels] /\ Moves(t, "gr_end", "rs_ids")
                <5>. "rs_ids" \in Labels
                    BY Zenon DEF Labels
                <5>. QED
                    BY <2>1, <3>2, GotoMoves, Zenon DEF Types, TypeOK
            <4>4. arg' \in [Threads -> ArgType] /\ arg' = arg
                BY <3>2, Zenon DEF Types, TypeOK, ArgType
            <4>. QED
                BY <4>1, <4>2, <4>3, <4>4, Zenon
        <3>3. CASE uploads' = [uploads EXCEPT ![c] = [ctx EXCEPT !.st = "sent"]] /\ Return(t)
            <4> DEFINE x == [ctx EXCEPT !.st = "sent"]
            <4>1. uploads' \in [Uploads -> UploadType] /\ SetsUpload(c, x.st, x.ids, x.fromMemory)
                BY <2>2, <2>3, <3>3, UploadSet, Zenon DEF Types
            <4>2. SetsUpload(c, "sent", uploads[c].ids, m_readFromMemory)
                BY <2>4, <4>1, Zenon
            <4>3. pc' \in [Threads -> Labels] /\ arg' \in [Threads -> ArgType] /\ Returns(t, "gr_end")
                BY <2>1, <3>3, ReturnMoves, Zenon DEF Types
            <4>. QED
                BY <4>1, <4>2, <4>3, Zenon
        <3>. QED
            BY <3>1, <3>2, <3>3, Zenon DEF Retrieve_End
    <2>7. TypeOK'
        <3>. Typed
            BY <2>6, Zenon
        <3>. QED
            BY <2>1, Zenon
               DEF Types, TypeOK, SameMemory, SameDisk, SameReads, SameFlush, SameRun, ArgType, UploadType
    <2>. QED
        BY <2>1, <2>2, <2>6, <2>7, Zenon
<1>db. m_db' = m_db
    BY <1>1, Zenon DEF SameRun
<1>2. Types'
    <2>1. TypeOK' /\ arg[t].ctx \in Uploads
        BY <1>1, Zenon
    <2>2. CASE Returns(t, "gr_end")
        BY <2>1, <2>2, Types_Return, Zenon
    <2>3. CASE Moves(t, "gr_end", "rs_ids") /\ arg' = arg
        BY <2>1, <2>3, Types_Move, Zenon
           DEF Storing, Stored, Retrieving, Responding, Scrubbing, Moves, Returns
    <2>. QED
        BY <2>2, <2>3, <1>1, Zenon
<1>3. LockOwner'
    <2>1. flushLock' = flushLock /\ (Returns(t, "gr_end") \/ Moves(t, "gr_end", "rs_ids"))
        BY <1>1, Zenon DEF SameFlush
    <2>2. pc'[t] \in {"idle", "sh_close", "rs_ids"} /\ \A u \in Threads : u # t => pc'[u] = pc[u]
        BY <2>1, ReturnLabel, Zenon DEF Returns, Moves
    <2>. QED
        BY <2>1, <2>2, LockOwner_Frame, Zenon DEF Returns, Moves, LockHeld
<1>4. Contexts'
    <2> DEFINE c == arg[t].ctx
    <2>0. pc[t] = "gr_end"
        BY <1>1, Zenon DEF Moves, Returns
    <2>1. /\ c \in Uploads /\ uploads[c].st = "open"
          /\ \A u \in Threads : u # t /\ pc[u] \in Working => arg[u].ctx # c /\ arg[u].ctx \in Uploads
        BY <2>0, OwnContext, Zenon DEF Contexts, Working, Retrieving
    <2>2. ~m_shutdownStarted'
        BY <2>1, ActiveUpload, <1>1, Zenon DEF SameRun
    <2>3. CASE (SetsUpload(c, "free", {}, FALSE) \/ SetsUpload(c, "sent", uploads[c].ids, m_readFromMemory)) /\ Returns(t, "gr_end")
        <3>1. pc'[t] \notin Retrieving /\ pc'[t] \notin Responding /\ pc'[t] # "gr_memory"
            BY <2>3, ReturnLabel, Zenon DEF Returns, Moves, Retrieving, Responding, Scrubbing
        <3>2. /\ uploads'[c].st = "free" => uploads'[c].ids = {}
              /\ \A d \in Uploads : d # c => uploads'[d] = uploads[d]
            BY <2>3, Zenon DEF SetsUpload
        <3>3. \A u \in Threads : u # t => pc'[u] = pc[u] /\ arg'[u] = arg[u]
            BY <2>3, Zenon DEF Returns, Moves
        <3> HIDE DEF c
        <3>. QED
            BY <2>1, <2>2, <3>1, <3>2, <3>3, Contexts_Upload, Zenon DEF Working
    <2>4. CASE SetsUpload(c, "release", uploads[c].ids, m_readFromMemory) /\ Moves(t, "gr_end", "rs_ids") /\ arg' = arg
        <3>1. pc'[t] \notin Retrieving /\ pc'[t] # "gr_memory"
            BY <2>4, Zenon DEF Moves, Retrieving
        <3>2. /\ uploads'[c].st = "release"
              /\ \A d \in Uploads : d # c => uploads'[d] = uploads[d]
            BY <2>4, Zenon DEF SetsUpload
        <3>3. \A u \in Threads : u # t => pc'[u] = pc[u] /\ arg'[u] = arg[u]
            BY <2>4, Zenon DEF Moves
        <3>4. arg'[t].ctx = c
            BY <2>4, Zenon
        <3> HIDE DEF c
        <3>. QED
            BY <2>1, <2>2, <3>1, <3>2, <3>3, <3>4, Contexts_Upload, Zenon DEF Answered
    <2>. QED
        BY <2>3, <2>4, <1>1, Zenon
<1>5. Phases'
    <2>1. SameRun
        BY <1>1, Zenon
    <2>2. CASE Returns(t, "gr_end")
        BY <2>1, <2>2, Phases_Return, Zenon DEF Stopping, ShutdownLabels
    <2>3. CASE Moves(t, "gr_end", "rs_ids") /\ arg' = arg
        BY <2>1, <2>3, Zenon
           DEF Phases, SameRun, Threads, Moves, Storing, Stored, Retrieving, Responding, Scrubbing,
               Deleting, Stopping, ShutdownLabels, FlushLabels
    <2>. QED
        BY <2>2, <2>3, <1>1, Zenon
<1>6. Places'
    <2>1. Moved
        <3>. \A d \in Uploads : uploads'[d].ids \subseteq uploads[d].ids
            BY <1>1, Zenon DEF SetsUpload
        <3>. QED
            BY <1>1, Moved_Same, Zenon DEF SameDisk
    <2>2. Fated
        BY <1>1, Fated_Same, Zenon
    <2>3. buffer' = buffer
        BY <1>1, Zenon DEF SameMemory
    <2>4. CASE Returns(t, "gr_end")
        BY <1>db, <2>1, <2>2, <2>3, <2>4, Places_Return, Zenon
    <2>5. CASE Moves(t, "gr_end", "rs_ids") /\ arg' = arg
        BY <1>db, <2>1, <2>2, <2>3, <2>5, Places_Move, Zenon DEF Storing, Stored
    <2>. QED
        BY <2>4, <2>5, <1>1, Zenon
<1>7. Held'
    <2>1. \A d \in Uploads : uploads'[d].ids \subseteq uploads[d].ids
        BY <1>1, Zenon DEF SetsUpload
    <2>. QED
        BY <2>1, <1>1, Held_Same, Zenon
<1>8. Saved'
    <2> SUFFICES ASSUME m_shutdownStarted' PROVE Saved'
        BY <1>5, Saved_Early, Zenon
    <2>. QED
        BY <1>1, NoWork, Zenon DEF SameRun, Control, Working, Retrieving, Responding, Moves, Returns
<1>9. Arrives
    BY <1>1, Arrives_Same, Zenon DEF SameDisk
<1>10. Scrubbed'
    <2>1. ops' = ops
        BY <1>1, Zenon DEF SameRun
    <2>2. \A q \in Records : fate'[q] = "killed" => fate[q] = "killed"
        BY <1>1, Zenon
    <2>3. ops \cap {"Flush", "Immediate"} = {} /\ pc'["worker"] \in {"ks_memory", "ks_disk"} =>
              /\ pc'["worker"] = pc["worker"] /\ arg'["worker"] = arg["worker"]
              /\ reserved' \subseteq reserved
              /\ \A q \in Records : fate'[q] = "doomed" => fate[q] = "doomed" /\ (q \in memory' => q \in memory)
        <3>1. pc[t] \in Retrieving \cup Responding /\ pc'["worker"] \in {"ks_memory", "ks_disk"} => t # "worker"
            BY <1>1, ReturnLabel, Zenon DEF Moves, Returns, Retrieving, Responding, Scrubbing
        <3>2. pc[t] \in Retrieving \cup Responding /\ (t = "user" => "Immediate" \in ops) /\ t # "app"
            BY <1>1, Zenon DEF Moves, Returns, Retrieving, Responding, Control, Phases, FlushLabels, Scrubbing
        <3>. QED
            BY <3>1, <3>2, Zenon DEF Threads
    <2>. QED
        BY <1>9, <2>1, <2>2, <2>3, Scrubbed_Frame, Zenon
<1>11. Settled'
    <2> SUFFICES ASSUME OneReader PROVE Settled'
        BY <1>1, Zenon DEF Settled, OneReader, SameRun
    <2>t. t = "worker"
        BY <1>1, OnlyWorker, Zenon DEF Moves, Returns, Retrieving, Responding
    <2>g. \A r \in Records \ Oversized : fate'[r] = "delivered" => r \notin Somewhere'
        BY <1>1, <1>9, Zenon DEF Settled, OneReaderSettles, Arrives
    <2>1. arg[t].ctx \in Uploads
        BY <1>1, Zenon
    <2> DEFINE c == arg[t].ctx
    <2>2. PICK f \in BOOLEAN :
              \/ SetsUpload(c, "free", uploads[c].ids, FALSE)
              \/ /\ f = m_readFromMemory
                 /\ SetsUpload(c, "release", uploads[c].ids, f) \/ SetsUpload(c, "sent", uploads[c].ids, f)
        BY <1>1, Zenon DEF Types, TypeOK
    <2>3. /\ disk' = disk /\ reserved' = reserved /\ pc["worker"] = "gr_end"
          /\ pc'["worker"] \in {"idle", "sh_close", "rs_ids"}
        BY <2>t, <1>1, ReturnLabel, Zenon DEF SameMemory, SameDisk, Moves, Returns
    <2>4. \A d \in Uploads : uploads'[d].ids = uploads[d].ids
        BY <2>1, <2>2, Zenon DEF SetsUpload
    <2>5. ASSUME NEW d \in Uploads, uploads'[d].st \in Answered \cup {"sent"}
          PROVE  Located(d, uploads[d].fromMemory)'
        <3>1. CASE d = c
            <4>1. f = m_readFromMemory /\ uploads'[d].fromMemory = f
                BY <2>1, <2>2, <2>5, <3>1, Zenon DEF SetsUpload, Answered
            <4>2. Located(d, f)
                BY <2>3, <2>t, <3>1, <4>1, Zenon DEF Settled
            <4>. QED
                BY <2>3, <2>4, <4>1, <4>2, Zenon DEF Located
        <3>2. CASE d # c
            <4>1. uploads'[d] = uploads[d]
                BY <2>2, <3>2, Zenon DEF SetsUpload
            <4>2. Located(d, uploads[d].fromMemory)
                BY <2>5, <4>1, Zenon DEF Settled
            <4>. QED
                BY <2>3, <4>1, <4>2, Zenon DEF Located
        <3>. QED
            BY <3>1, <3>2, Zenon
    <2>6. reserved' \subseteq UNION {uploads'[d].ids : d \in Uploads}
        BY <2>3, <2>4, Zenon DEF Settled, OneReaderSettles
    <2>7. OneReaderSettles'
        BY <2>6, <2>g, Zenon DEF OneReaderSettles
    <2>. QED
        BY <2>3, <2>5, <2>7, Zenon DEF Settled
<1>12. PendingFlushHasTask'
    BY <1>1, Pending_Frame, Zenon DEF SameFlush, Moves, Returns, FlushLabels, Threads
<1>. QED
    BY <1>2, <1>3, <1>4, <1>5, <1>6, <1>7, <1>8, <1>10, <1>11, <1>12, Zenon DEF Inv, Control

\* A response is being handled: its outcome is in the context, the keys to scrub in the arguments.
LEMMA HandleResponse_Keeps ==
    ASSUME Inv, NEW c \in Uploads, HandleResponse(c)
    PROVE  Inv'
<1>. Control /\ Types /\ LockOwner /\ Contexts /\ Phases /\ Places /\ Held /\ Saved /\ Scrubbed /\ Settled
     /\ PendingFlushHasTask
    BY Zenon DEF Inv, Control
<1>1. /\ TypeOK'
      /\ SameMemory /\ SameDisk /\ SameReads /\ SameFlush /\ SameRun
      /\ uploads[c].st = "sent"
      /\ \E outcome \in Answered : SetsUpload(c, outcome, uploads[c].ids, uploads[c].fromMemory)
      /\ arg'["worker"].ctx = c /\ arg'["worker"].cont = arg["worker"].cont
      /\ \A u \in Threads : u # "worker" => arg'[u] = arg[u]
      /\ \/ Moves("worker", "idle", "rs_ids") /\ fate' = fate
         \/ /\ Moves("worker", "idle", "ks_reserved") /\ arg'["worker"].keys # {}
            /\ \A r \in Records : fate'[r] = fate[r] \/ (fate[r] = "live" /\ fate'[r] = "doomed")
    <2>1. /\ SameMemory /\ SameDisk /\ SameReads /\ SameFlush /\ SameRun
          /\ retryCount' = retryCount /\ m_flushComplete' = m_flushComplete
          /\ m_lastReadCount' = m_lastReadCount
          /\ pc["worker"] = "idle" /\ uploads[c].st = "sent"
        BY Zenon
           DEF HandleResponse, memoryVars, diskVars, flushVars, readVars, killVars, SameMemory, SameDisk, SameReads,
               SameFlush, SameRun
    <2>2. PICK outcome \in Answered, kill \in SUBSET Tenants, retryAfter \in BOOLEAN :
              /\ uploads' = [uploads EXCEPT ![c].st = outcome]
              /\ m_tokenTime' = m_tokenTime \cup kill
              /\ m_isRetryAfterActive' = (m_isRetryAfterActive \/ retryAfter)
              /\ arg' = [arg EXCEPT !["worker"].ctx = c,
                                    !["worker"].keys = IF kill = {} THEN {} ELSE m_tokenTime']
              /\ Goto("worker", IF kill = {} THEN "rs_ids" ELSE "ks_reserved")
              /\ fate' = [r \in Records |-> IF fate[r] = "live" /\ Tenant[r] \in kill
                                             THEN "doomed" ELSE fate[r]]
        BY Zenon DEF HandleResponse, Answered
    <2>. "worker" \in Threads
        BY Zenon DEF Threads
    <2>3. /\ uploads' \in [Uploads -> UploadType]
          /\ SetsUpload(c, outcome, uploads[c].ids, uploads[c].fromMemory)
        BY <2>2, ZenonT(30) DEF Types, TypeOK, UploadType, SetsUpload, Answered
    <2>4. m_tokenTime' \subseteq Tenants /\ m_isRetryAfterActive' \in BOOLEAN
        BY <2>2, Zenon DEF Types, TypeOK
    <2>5. /\ arg' \in [Threads -> ArgType]
          /\ arg'["worker"].ctx = c /\ arg'["worker"].cont = arg["worker"].cont
          /\ arg'["worker"].keys = IF kill = {} THEN {} ELSE m_tokenTime'
          /\ \A u \in Threads : u # "worker" => arg'[u] = arg[u]
        <3>. arg \in [Threads -> ArgType]
            BY Zenon DEF Types, TypeOK, ArgType
        <3>. DEFINE ks == IF kill = {} THEN {} ELSE m_tokenTime'
        <3>1. ks \in SUBSET Tenants
            BY <2>4, Zenon
        <3>2. arg' = [arg EXCEPT !["worker"].ctx = c, !["worker"].keys = ks]
            BY <2>2, Zenon
        <3>3. /\ arg' \in [Threads -> ArgType]
              /\ arg'["worker"].ctx = c /\ arg'["worker"].cont = arg["worker"].cont
              /\ arg'["worker"].keys = ks
              /\ \A u \in Threads : u # "worker" => arg'[u] = arg[u]
            <4>. HIDE DEF ks
            <4>. QED
                BY <3>1, <3>2, ZenonT(30) DEF ArgType
        <3>. QED
            BY <3>3, Zenon
    <2>6. /\ fate' \in [Records -> Fates]
          /\ \A r \in Records : fate'[r] = fate[r] \/ (fate[r] = "live" /\ fate'[r] = "doomed")
          /\ kill = {} => fate' = fate
        <3>. fate \in [Records -> Fates] /\ "doomed" \in Fates
            BY Zenon DEF Types, TypeOK, Fates, Kept
        <3>. QED
            BY <2>2, Zenon
    <2>7. /\ pc' \in [Threads -> Labels]
          /\ Moves("worker", "idle", IF kill = {} THEN "rs_ids" ELSE "ks_reserved")
        <3>. (IF kill = {} THEN "rs_ids" ELSE "ks_reserved") \in Labels
            BY Zenon DEF Labels
        <3>. QED
            BY <2>1, <2>2, GotoMoves DEF Types, TypeOK
    <2>8. TypeOK'
        <3>. /\ pc' \in [Threads -> Labels] /\ arg' \in [Threads -> ArgType]
             /\ uploads' \in [Uploads -> UploadType] /\ fate' \in [Records -> Fates]
            BY <2>3, <2>5, <2>6, <2>7, Zenon
        <3>. QED
            BY <2>1, <2>4, Zenon
               DEF Types, TypeOK, SameMemory, SameDisk, SameReads, SameFlush, SameRun, ArgType, UploadType
    <2>9. kill # {} => arg'["worker"].keys # {}
        BY <2>2, <2>5
    <2>. QED
        BY <2>1, <2>3, <2>5, <2>6, <2>7, <2>8, <2>9, Zenon
<1>db. m_db' = m_db
    BY <1>1, Zenon DEF SameRun
<1>2. Types'
    <2>. "worker" \in Threads
        BY Zenon DEF Threads
    <2>. QED
        BY <1>1, Types_Move, Zenon
           DEF Types, Storing, Stored, Retrieving, Responding, Scrubbing, Moves, Returns
<1>3. LockOwner'
    BY <1>1, LockOwner_Frame, Zenon DEF Moves, Returns, SameFlush, LockHeld, Threads
<1>4. Contexts'
    <2>. "worker" \in Threads
        BY Zenon DEF Threads
    <2>0. uploads[c].st = "sent" /\ pc["worker"] = "idle"
        BY <1>1, Zenon DEF Moves
    <2>1. \A u \in Threads : pc[u] \in Working => arg[u].ctx # c /\ arg[u].ctx \in Uploads
        BY <2>0, Zenon DEF Contexts, Working, Types, Answered
    <2>2. ~m_shutdownStarted'
        BY <2>0, ActiveUpload, <1>1, Zenon DEF SameRun
    <2>3. /\ uploads'[c].st \in Answered /\ uploads'[c].st # "free"
          /\ \A d \in Uploads : d # c => uploads'[d] = uploads[d]
        BY <1>1, Zenon DEF SetsUpload, Answered
    <2>4. /\ pc'["worker"] \notin Retrieving /\ pc'["worker"] # "gr_memory"
          /\ \A u \in Threads : u # "worker" => pc'[u] = pc[u] /\ arg'[u] = arg[u]
          /\ arg'["worker"].ctx = c
        BY <1>1, Zenon DEF Moves, Retrieving
    <2>. QED
        BY <2>1, <2>2, <2>3, <2>4, Contexts_Upload
<1>5. Phases'
    BY <1>1, ReturnLabel, Zenon
       DEF Phases, SameRun, Threads, Moves, Returns, NoArg, Storing, Stored, Retrieving, Responding,
           Scrubbing, Deleting, Stopping, ShutdownLabels, FlushLabels
<1>6. Places'
    <2>1. Moved
        <3>. \A d \in Uploads : uploads'[d].ids \subseteq uploads[d].ids
            BY <1>1, Zenon DEF SetsUpload
        <3>. QED
            BY <1>1, Moved_Same, Zenon DEF SameDisk
    <2>2. Fated
        <3>1. \A r \in Records : fate'[r] = fate[r] \/ (fate[r] = "live" /\ fate'[r] = "doomed")
            BY <1>1, Zenon
        <3>. QED
            BY <3>1, Zenon DEF Fated, Kept
    <2>3. /\ buffer' = buffer /\ "worker" \in Threads /\ \A u \in Threads : u # "worker" => arg'[u] = arg[u]
          /\ Moves("worker", "idle", "rs_ids") \/ Moves("worker", "idle", "ks_reserved")
        BY <1>1, Zenon DEF SameMemory, Threads
    <2>. QED
        BY <1>db, <2>1, <2>2, <2>3, Places_Move, Zenon DEF Storing, Stored
<1>7. Held'
    <2>1. \A d \in Uploads : uploads'[d].ids \subseteq uploads[d].ids
        BY <1>1, Zenon DEF SetsUpload
    <2>. QED
        BY <2>1, <1>1, Held_Same, Zenon
<1>8. Saved'
    <2> SUFFICES ASSUME m_shutdownStarted' PROVE Saved'
        BY <1>5, Saved_Early, Zenon
    <2>. QED
        BY <1>1, Zenon DEF SameRun, Control, Contexts, NoUploads
<1>9. Arrives
    BY <1>1, Arrives_Same, Zenon DEF SameDisk
<1>10. Scrubbed'
    <2>1. ops' = ops
        BY <1>1, Zenon DEF SameRun
    <2>2. \A q \in Records : fate'[q] = "killed" => fate[q] = "killed"
        BY <1>1, Zenon
    <2>3. ops \cap {"Flush", "Immediate"} = {} /\ pc'["worker"] \in {"ks_memory", "ks_disk"} =>
              /\ pc'["worker"] = pc["worker"] /\ arg'["worker"] = arg["worker"]
              /\ reserved' \subseteq reserved
              /\ \A q \in Records : fate'[q] = "doomed" => fate[q] = "doomed" /\ (q \in memory' => q \in memory)
        BY <1>1, Zenon DEF Moves, Threads
    <2>. QED
        BY <1>9, <2>1, <2>2, <2>3, Scrubbed_Frame, Zenon
<1>11. Settled'
    <2> SUFFICES ASSUME OneReader PROVE Settled'
        BY <1>1, Zenon DEF Settled, OneReader, SameRun
    <2>g. \A r \in Records \ Oversized : fate'[r] = "delivered" => r \notin Somewhere'
        BY <1>1, <1>9, Zenon DEF Settled, OneReaderSettles, Arrives
    <2>1. PICK outcome \in Answered : SetsUpload(c, outcome, uploads[c].ids, uploads[c].fromMemory)
        BY <1>1, Zenon
    <2>2. /\ disk' = disk /\ reserved' = reserved /\ uploads[c].st = "sent"
          /\ pc'["worker"] \in {"rs_ids", "ks_reserved"}
        BY <1>1, Zenon DEF SameMemory, SameDisk, Moves
    <2>3. \A d \in Uploads : uploads'[d].ids = uploads[d].ids /\ uploads'[d].fromMemory = uploads[d].fromMemory
        BY <2>1, Zenon DEF SetsUpload
    <2>4. \A d \in Uploads : uploads'[d].st \in Answered \cup {"sent"} => uploads[d].st \in Answered \cup {"sent"}
        BY <2>1, <2>2, Zenon DEF SetsUpload
    <2>5. \A d \in Uploads : uploads'[d].st \in Answered \cup {"sent"} => Located(d, uploads[d].fromMemory)'
        BY <2>2, <2>3, <2>4, Zenon DEF Settled, Located
    <2>6. reserved' \subseteq UNION {uploads'[d].ids : d \in Uploads}
        BY <2>2, <2>3 DEF Settled, OneReaderSettles
    <2>7. OneReaderSettles'
        BY <2>6, <2>g, Zenon DEF OneReaderSettles
    <2>. QED
        BY <2>2, <2>5, <2>7, Zenon DEF Settled
<1>12. PendingFlushHasTask'
    BY <1>1, Pending_Frame, Zenon DEF SameFlush, Moves, Returns, FlushLabels, Threads
<1>. QED
    BY <1>2, <1>3, <1>4, <1>5, <1>6, <1>7, <1>8, <1>10, <1>11, <1>12, Zenon DEF Inv, Control

\* The reserved records of a key are gone.
LEMMA Scrub_Reserved_Keeps ==
    ASSUME Inv, Scrub_Reserved
    PROVE  Inv'
<1>. Control /\ Types /\ LockOwner /\ Contexts /\ Phases /\ Places /\ Held /\ Saved /\ Scrubbed /\ Settled
     /\ PendingFlushHasTask
    BY Zenon DEF Inv, Control
<1>1. /\ TypeOK'
      /\ memory' = memory /\ reserved' = reserved \ OfKey(reserved) /\ buffer' = buffer
      /\ SameDisk /\ SameReads /\ SameFlush /\ SameRun /\ uploads' = uploads /\ arg' = arg
      /\ Seals(OfKey(reserved), "killed")
      /\ Moves("worker", "ks_reserved", "ks_memory")
    <2>1. /\ memory' = memory /\ reserved' = reserved \ OfKey(reserved) /\ buffer' = buffer
          /\ SameDisk /\ SameReads /\ SameFlush /\ SameRun /\ uploads' = uploads /\ arg' = arg
          /\ retryCount' = retryCount /\ m_flushComplete' = m_flushComplete
          /\ m_lastReadCount' = m_lastReadCount /\ m_tokenTime' = m_tokenTime
          /\ m_isRetryAfterActive' = m_isRetryAfterActive
          /\ pc["worker"] = "ks_reserved"
        BY Zenon DEF Scrub_Reserved, diskVars, flushVars, readVars, killVars, SameDisk, SameReads, SameFlush, SameRun
    <2>2. fate' \in [Records -> Fates] /\ Seals(OfKey(reserved), "killed")
        <3>. "killed" \in Fates
            BY Zenon DEF Fates
        <3>. QED
            BY SealSeals, Zenon DEF Scrub_Reserved, Types
    <2>3. pc' \in [Threads -> Labels] /\ Moves("worker", "ks_reserved", "ks_memory")
        <3>. "ks_memory" \in Labels /\ "worker" \in Threads
            BY Zenon DEF Labels, Threads
        <3>. QED
            BY <2>1, GotoMoves DEF Scrub_Reserved, Types, TypeOK
    <2>4. TypeOK'
        BY <2>1, <2>2, <2>3, Zenon DEF Types, TypeOK, SameDisk, SameReads, SameFlush, SameRun
    <2>. QED
        BY <2>1, <2>2, <2>3, <2>4, Zenon
<1>db. m_db' = m_db
    BY <1>1, Zenon DEF SameRun
<1>2. Types'
    <2>. "worker" \in Threads
        BY Zenon DEF Threads
    <2>. QED
        BY <1>1, Types_Move, Zenon
           DEF Types, Storing, Stored, Retrieving, Responding, Scrubbing, Moves, Returns
<1>3. LockOwner'
    BY <1>1, LockOwner_Frame, Zenon DEF Moves, Returns, SameFlush, LockHeld, Threads
<1>4. Contexts'
    BY <1>1, Contexts_Frame, Zenon
       DEF SameRun, Storing, Stored, Retrieving, Responding, Scrubbing, Moves, Returns, Working, Threads
<1>5. Phases'
    BY <1>1, ReturnLabel, Zenon
       DEF Phases, SameRun, Threads, Moves, Returns, NoArg, Storing, Stored, Retrieving, Responding,
           Scrubbing, Deleting, Stopping, ShutdownLabels, FlushLabels
<1>6. Places'
    <2> DEFINE S == OfKey(reserved)
    <2>1. /\ memory' = memory /\ disk' = disk /\ reserved' = reserved \ OfKey(reserved) /\ buffer' = buffer
          /\ uploads' = uploads /\ Seals(S, "killed") /\ "worker" \in Threads
          /\ \A u \in Threads : u # "worker" => arg'[u] = arg[u]
          /\ Moves("worker", "ks_reserved", "ks_memory")
        BY <1>1, Zenon DEF SameDisk, SameMemory, Threads
    <2>2. Somewhere' = Somewhere \ (Somewhere \ Somewhere') /\ Somewhere' \subseteq Somewhere
        BY <2>1, Zenon DEF Somewhere
    <2>3. Somewhere \ Somewhere' \subseteq S
        BY <2>1, Zenon DEF Somewhere
    <2>4. \A r \in S : r \in Records => ~Unseen(r) \/ fate[r] # "storing"
        BY Zenon DEF Unseen, Somewhere, OfKey
    <2> HIDE DEF S
    <2>5. AtMostOneCopy' /\ reserved' \cap Oversized = {}
        BY <2>1, Zenon DEF Places, AtMostOneCopy
    <2>6. \A q \in Records : fate'[q] \in Kept => q \notin S
        BY <2>1, Zenon DEF Seals, Kept
    <2>7. Moved
        BY <2>1, <2>2, <2>3, <2>5, <2>6, Zenon DEF Moved
    <2>8. Fated
        BY <2>1, <2>4, Fated_Seals, Zenon DEF Control
    <2>. QED
        BY <1>db, <2>1, <2>7, <2>8, Places_Move, Zenon DEF Storing, Stored
<1>7. Held'
    <2>1. \A d \in Uploads : uploads'[d].ids = uploads[d].ids /\ uploads'[d].ids \cap {} \subseteq Oversized
        BY <1>1, Zenon
    <2>2. memory' \cup buffer' \subseteq memory \cup buffer /\ reserved' \subseteq reserved
        BY <1>1, Zenon DEF SameMemory, SameDisk
    <2>. QED
        BY <2>1, <2>2, Held_Frame, Zenon
<1>8. Saved'
    <2> SUFFICES ASSUME m_shutdownStarted' PROVE Saved'
        BY <1>5, Saved_Early, Zenon
    <2>. QED
        BY <1>1, NoWork, Zenon DEF SameRun, Control, Working, Responding, Scrubbing, Moves, Threads
<1>9. Arrives
    BY <1>1, Zenon DEF Arrives, Somewhere, SameDisk, OfKey
<1>10. Scrubbed'
    <2> SUFFICES ASSUME ops \cap {"Flush", "Immediate"} = {}
        PROVE  /\ \A r \in Records : fate'[r] = "doomed" /\ Tenant[r] = ScrubKey' => r \notin reserved'
               /\ pc'["worker"] = "ks_disk" =>
                     \A r \in Records : fate'[r] = "doomed" /\ Tenant[r] = ScrubKey' => r \notin memory'
               /\ \A r \in Records : fate'[r] = "killed" => r \notin Somewhere'
        BY <1>1, Zenon DEF Scrubbed, SameRun
    <2>1. ScrubKey' = ScrubKey
        BY <1>1, SameKey, Zenon
    <2>2. /\ Seals(OfKey(reserved), "killed") /\ reserved' = reserved \ OfKey(reserved) /\ disk' = disk
          /\ pc["worker"] = "ks_reserved" /\ pc'["worker"] = "ks_memory"
          /\ buffer' = buffer /\ memory' = memory
        BY <1>1, Zenon DEF SameDisk, Moves
    <2>3. \A r \in Records : fate'[r] = "doomed" => fate[r] = "doomed"
        BY <2>2, Zenon DEF Seals
    <2>4. ASSUME NEW r \in Records, fate'[r] = "killed" PROVE r \notin Somewhere'
        <3>1. CASE fate[r] = "killed"
            <4>1. r \notin Somewhere
                BY <3>1, Zenon DEF Scrubbed
            <4>. QED
                BY <1>9, <2>4, <4>1, Zenon DEF Arrives
        <3>2. CASE r \in OfKey(reserved)
            BY <2>2, <3>2, Zenon DEF Places, AtMostOneCopy, Somewhere, OfKey
        <3>. QED
            BY <2>2, <2>4, <3>1, <3>2, Zenon DEF Seals
    <2>. QED
        BY <2>1, <2>2, <2>3, <2>4, Zenon DEF Scrubbed, OfKey
<1>11. Settled'
    <2>1. ops' = ops
        BY <1>1, Zenon DEF SameRun
    <2>2. OneReader =>
              /\ uploads' = uploads /\ reserved' \subseteq reserved
              /\ memoryReadCount' \in {memoryReadCount, 1} /\ diskReadCount' = diskReadCount
              /\ m_readFromMemory' = m_readFromMemory
        BY <1>1, Zenon DEF SameReads, SameMemory, OfKey
    <2>3. \A c \in Uploads : \A q \in disk' \ disk : q \notin uploads[c].ids \ Oversized
        BY <1>1, Zenon DEF SameDisk
    <2>4. pc'["worker"] \in Retrieving =>
              pc'["worker"] = pc["worker"] /\ arg'["worker"].ctx = arg["worker"].ctx
        BY <1>1, Zenon DEF Moves, Retrieving, Threads, Stored, ShutdownLabels
    <2>5. \A q \in Records : fate'[q] = "delivered" => fate[q] = "delivered"
        BY <1>1, Zenon DEF Seals
    <2>. QED
        BY <1>9, <2>1, <2>2, <2>3, <2>4, <2>5, Settled_Frame, Zenon
<1>12. PendingFlushHasTask'
    BY <1>1, Pending_Frame, Zenon DEF SameFlush, Moves, Returns, FlushLabels, Threads
<1>. QED
    BY <1>2, <1>3, <1>4, <1>5, <1>6, <1>7, <1>8, <1>10, <1>11, <1>12, Zenon DEF Inv, Control

\* The queued records of a key are gone.
LEMMA Scrub_Memory_Keeps ==
    ASSUME Inv, Scrub_Memory
    PROVE  Inv'
<1>. Control /\ Types /\ LockOwner /\ Contexts /\ Phases /\ Places /\ Held /\ Saved /\ Scrubbed /\ Settled
     /\ PendingFlushHasTask
    BY Zenon DEF Inv, Control
<1>1. /\ TypeOK'
      /\ memory' = memory \ OfKey(memory) /\ reserved' = reserved /\ buffer' = buffer
      /\ SameDisk /\ SameReads /\ SameFlush /\ SameRun /\ uploads' = uploads /\ arg' = arg
      /\ Seals(OfKey(memory), "killed")
      /\ Moves("worker", "ks_memory", "ks_disk")
    <2>1. /\ memory' = memory \ OfKey(memory) /\ reserved' = reserved /\ buffer' = buffer
          /\ SameDisk /\ SameReads /\ SameFlush /\ SameRun /\ uploads' = uploads /\ arg' = arg
          /\ retryCount' = retryCount /\ m_flushComplete' = m_flushComplete
          /\ m_lastReadCount' = m_lastReadCount /\ m_tokenTime' = m_tokenTime
          /\ m_isRetryAfterActive' = m_isRetryAfterActive
          /\ pc["worker"] = "ks_memory"
        BY Zenon DEF Scrub_Memory, diskVars, flushVars, readVars, killVars, SameDisk, SameReads, SameFlush, SameRun
    <2>2. fate' \in [Records -> Fates] /\ Seals(OfKey(memory), "killed")
        <3>. "killed" \in Fates
            BY Zenon DEF Fates
        <3>. QED
            BY SealSeals, Zenon DEF Scrub_Memory, Types
    <2>3. pc' \in [Threads -> Labels] /\ Moves("worker", "ks_memory", "ks_disk")
        <3>. "ks_disk" \in Labels /\ "worker" \in Threads
            BY Zenon DEF Labels, Threads
        <3>. QED
            BY <2>1, GotoMoves DEF Scrub_Memory, Types, TypeOK
    <2>4. TypeOK'
        BY <2>1, <2>2, <2>3, Zenon DEF Types, TypeOK, SameDisk, SameReads, SameFlush, SameRun
    <2>. QED
        BY <2>1, <2>2, <2>3, <2>4, Zenon
<1>db. m_db' = m_db
    BY <1>1, Zenon DEF SameRun
<1>2. Types'
    <2>. "worker" \in Threads
        BY Zenon DEF Threads
    <2>. QED
        BY <1>1, Types_Move, Zenon
           DEF Types, Storing, Stored, Retrieving, Responding, Scrubbing, Moves, Returns
<1>3. LockOwner'
    BY <1>1, LockOwner_Frame, Zenon DEF Moves, Returns, SameFlush, LockHeld, Threads
<1>4. Contexts'
    BY <1>1, Contexts_Frame, Zenon
       DEF SameRun, Storing, Stored, Retrieving, Responding, Scrubbing, Moves, Returns, Working, Threads
<1>5. Phases'
    BY <1>1, ReturnLabel, Zenon
       DEF Phases, SameRun, Threads, Moves, Returns, NoArg, Storing, Stored, Retrieving, Responding,
           Scrubbing, Deleting, Stopping, ShutdownLabels, FlushLabels
<1>6. Places'
    <2> DEFINE S == OfKey(memory)
    <2>1. /\ memory' = memory \ OfKey(memory) /\ disk' = disk /\ reserved' = reserved /\ buffer' = buffer
          /\ uploads' = uploads /\ Seals(S, "killed") /\ "worker" \in Threads
          /\ \A u \in Threads : u # "worker" => arg'[u] = arg[u]
          /\ Moves("worker", "ks_memory", "ks_disk")
        BY <1>1, Zenon DEF SameDisk, SameMemory, Threads
    <2>2. Somewhere' = Somewhere \ (Somewhere \ Somewhere') /\ Somewhere' \subseteq Somewhere
        BY <2>1, Zenon DEF Somewhere
    <2>3. Somewhere \ Somewhere' \subseteq S
        BY <2>1, Zenon DEF Somewhere
    <2>4. \A r \in S : r \in Records => ~Unseen(r) \/ fate[r] # "storing"
        BY Zenon DEF Unseen, Somewhere, OfKey
    <2> HIDE DEF S
    <2>5. AtMostOneCopy' /\ reserved' \cap Oversized = {}
        BY <2>1, Zenon DEF Places, AtMostOneCopy
    <2>6. \A q \in Records : fate'[q] \in Kept => q \notin S
        BY <2>1, Zenon DEF Seals, Kept
    <2>7. Moved
        BY <2>1, <2>2, <2>3, <2>5, <2>6, Zenon DEF Moved
    <2>8. Fated
        BY <2>1, <2>4, Fated_Seals, Zenon DEF Control
    <2>. QED
        BY <1>db, <2>1, <2>7, <2>8, Places_Move, Zenon DEF Storing, Stored
<1>7. Held'
    <2>1. \A d \in Uploads : uploads'[d].ids = uploads[d].ids /\ uploads'[d].ids \cap {} \subseteq Oversized
        BY <1>1, Zenon
    <2>2. memory' \cup buffer' \subseteq memory \cup buffer /\ reserved' \subseteq reserved
        BY <1>1, Zenon DEF SameMemory, SameDisk
    <2>. QED
        BY <2>1, <2>2, Held_Frame, Zenon
<1>8. Saved'
    <2> SUFFICES ASSUME m_shutdownStarted' PROVE Saved'
        BY <1>5, Saved_Early, Zenon
    <2>. QED
        BY <1>1, NoWork, Zenon DEF SameRun, Control, Working, Responding, Scrubbing, Moves, Threads
<1>9. Arrives
    BY <1>1, Zenon DEF Arrives, Somewhere, SameDisk, OfKey
<1>10. Scrubbed'
    <2> SUFFICES ASSUME ops \cap {"Flush", "Immediate"} = {}
        PROVE  /\ \A r \in Records : fate'[r] = "doomed" /\ Tenant[r] = ScrubKey' => r \notin reserved'
               /\ pc'["worker"] = "ks_disk" =>
                     \A r \in Records : fate'[r] = "doomed" /\ Tenant[r] = ScrubKey' => r \notin memory'
               /\ \A r \in Records : fate'[r] = "killed" => r \notin Somewhere'
        BY <1>1, Zenon DEF Scrubbed, SameRun
    <2>1. ScrubKey' = ScrubKey
        BY <1>1, SameKey, Zenon
    <2>2. /\ Seals(OfKey(memory), "killed") /\ memory' = memory \ OfKey(memory) /\ disk' = disk
          /\ pc["worker"] = "ks_memory" /\ pc'["worker"] = "ks_disk"
          /\ buffer' = buffer /\ reserved' = reserved
        BY <1>1, Zenon DEF SameDisk, Moves
    <2>3. \A r \in Records : fate'[r] = "doomed" => fate[r] = "doomed"
        BY <2>2, Zenon DEF Seals
    <2>4. ASSUME NEW r \in Records, fate'[r] = "killed" PROVE r \notin Somewhere'
        <3>1. CASE fate[r] = "killed"
            <4>1. r \notin Somewhere
                BY <3>1, Zenon DEF Scrubbed
            <4>. QED
                BY <1>9, <2>4, <4>1, Zenon DEF Arrives
        <3>2. CASE r \in OfKey(memory)
            BY <2>2, <3>2, Zenon DEF Places, AtMostOneCopy, Somewhere, OfKey
        <3>. QED
            BY <2>2, <2>4, <3>1, <3>2, Zenon DEF Seals
    <2>. QED
        BY <2>1, <2>2, <2>3, <2>4, Zenon DEF Scrubbed, OfKey
<1>11. Settled'
    <2>1. ops' = ops
        BY <1>1, Zenon DEF SameRun
    <2>2. OneReader =>
              /\ uploads' = uploads /\ reserved' \subseteq reserved
              /\ memoryReadCount' \in {memoryReadCount, 1} /\ diskReadCount' = diskReadCount
              /\ m_readFromMemory' = m_readFromMemory
        BY <1>1, Zenon DEF SameReads, SameMemory
    <2>3. \A c \in Uploads : \A q \in disk' \ disk : q \notin uploads[c].ids \ Oversized
        BY <1>1, Zenon DEF SameDisk
    <2>4. pc'["worker"] \in Retrieving =>
              pc'["worker"] = pc["worker"] /\ arg'["worker"].ctx = arg["worker"].ctx
        BY <1>1, Zenon DEF Moves, Retrieving, Threads, Stored, ShutdownLabels
    <2>5. \A q \in Records : fate'[q] = "delivered" => fate[q] = "delivered"
        BY <1>1, Zenon DEF Seals
    <2>. QED
        BY <1>9, <2>1, <2>2, <2>3, <2>4, <2>5, Settled_Frame, Zenon
<1>12. PendingFlushHasTask'
    BY <1>1, Pending_Frame, Zenon DEF SameFlush, Moves, Returns, FlushLabels, Threads
<1>. QED
    BY <1>2, <1>3, <1>4, <1>5, <1>6, <1>7, <1>8, <1>10, <1>11, <1>12, Zenon DEF Inv, Control

\* The rows of a key are gone, and the key is done.
LEMMA Scrub_Disk_Keeps ==
    ASSUME Inv, Scrub_Disk
    PROVE  Inv'
<1>. Control /\ Types /\ LockOwner /\ Contexts /\ Phases /\ Places /\ Held /\ Saved /\ Scrubbed /\ Settled
     /\ PendingFlushHasTask
    BY Zenon DEF Inv, Control
<1>1. /\ TypeOK'
      /\ SameMemory /\ disk' = disk \ OfKey(disk) /\ leased' = leased \ OfKey(leased)
      /\ expirations' = expirations
      /\ SameReads /\ SameFlush /\ SameRun /\ uploads' = uploads
      /\ Seals(OfKey({r \in Records : fate[r] = "doomed"}) \cup OfKey(disk), "killed")
      /\ arg'["worker"].ctx = arg["worker"].ctx /\ arg'["worker"].cont = arg["worker"].cont
      /\ \A u \in Threads : u # "worker" => arg'[u] = arg[u]
      /\ \/ Moves("worker", "ks_disk", "rs_ids")
         \/ Moves("worker", "ks_disk", "ks_reserved") /\ arg'["worker"].keys # {}
    <2>1. /\ SameMemory /\ disk' = disk \ OfKey(disk) /\ leased' = leased \ OfKey(leased)
          /\ expirations' = expirations
          /\ SameReads /\ SameFlush /\ SameRun /\ uploads' = uploads
          /\ retryCount' = retryCount /\ m_flushComplete' = m_flushComplete
          /\ m_lastReadCount' = m_lastReadCount /\ m_tokenTime' = m_tokenTime
          /\ m_isRetryAfterActive' = m_isRetryAfterActive
          /\ pc["worker"] = "ks_disk"
        BY Zenon DEF Scrub_Disk, memoryVars, flushVars, readVars, killVars, SameMemory, SameReads, SameFlush, SameRun
    <2>. "worker" \in Threads
        BY Zenon DEF Threads
    <2>2. /\ fate' \in [Records -> Fates]
          /\ Seals(OfKey({r \in Records : fate[r] = "doomed"}) \cup OfKey(disk), "killed")
        <3>. "killed" \in Fates
            BY Zenon DEF Fates
        <3>. QED
            BY SealSeals, Zenon DEF Scrub_Disk, Types
    <2>3. /\ pc' \in [Threads -> Labels]
          /\ Moves("worker", "ks_disk", IF arg'["worker"].keys = {} THEN "rs_ids" ELSE "ks_reserved")
        <3>. (IF arg'["worker"].keys = {} THEN "rs_ids" ELSE "ks_reserved") \in Labels
            BY Zenon DEF Labels
        <3>. Goto("worker", IF arg'["worker"].keys = {} THEN "rs_ids" ELSE "ks_reserved")
            BY Zenon DEF Scrub_Disk
        <3>. QED
            BY <2>1, GotoMoves DEF Types, TypeOK
    <2>4. /\ arg' \in [Threads -> ArgType]
          /\ arg'["worker"].ctx = arg["worker"].ctx /\ arg'["worker"].cont = arg["worker"].cont
          /\ \A u \in Threads : u # "worker" => arg'[u] = arg[u]
        <3>. arg \in [Threads -> ArgType]
            BY Zenon DEF Types, TypeOK, ArgType
        <3>. arg' = [arg EXCEPT !["worker"].keys = @ \ {ScrubKey}]
            BY Zenon DEF Scrub_Disk
        <3>. QED
            BY Zenon DEF ArgType
    <2>5. disk' \subseteq Records /\ leased' \subseteq disk'
        BY <2>1, Zenon DEF Types, TypeOK, OfKey
    <2>6. TypeOK'
        <3>. pc' \in [Threads -> Labels] /\ arg' \in [Threads -> ArgType] /\ fate' \in [Records -> Fates]
            BY <2>2, <2>3, <2>4, Zenon
        <3>. QED
            BY <2>1, <2>5, Zenon DEF Types, TypeOK, SameMemory, SameReads, SameFlush, SameRun, ArgType
    <2>. QED
        BY <2>1, <2>2, <2>3, <2>4, <2>6, Zenon
<1>db. m_db' = m_db
    BY <1>1, Zenon DEF SameRun
<1>2. Types'
    <2>. "worker" \in Threads
        BY Zenon DEF Threads
    <2>. QED
        BY <1>1, Types_Move, Zenon
           DEF Types, Storing, Stored, Retrieving, Responding, Scrubbing, Moves, Returns
<1>3. LockOwner'
    BY <1>1, LockOwner_Frame, Zenon DEF Moves, Returns, SameFlush, LockHeld, Threads
<1>4. Contexts'
    BY <1>1, Contexts_Frame, Zenon
       DEF SameRun, Storing, Stored, Retrieving, Responding, Scrubbing, Moves, Returns, Working, Threads
<1>5. Phases'
    <2>1. /\ pc["worker"] = "ks_disk" /\ SameRun
          /\ arg'["worker"].cont = arg["worker"].cont
          /\ \A u \in Threads : u # "worker" => arg'[u] = arg[u] /\ pc'[u] = pc[u]
          /\ pc'["worker"] = "rs_ids" \/ (pc'["worker"] = "ks_reserved" /\ arg'["worker"].keys # {})
        BY <1>1, Zenon DEF Moves
    <2>. QED
        BY <2>1, Zenon DEF Phases, SameRun, Threads, Scrubbing, Deleting, Stopping, ShutdownLabels
<1>6. Places'
    <2> DEFINE S == OfKey({r \in Records : fate[r] = "doomed"}) \cup OfKey(disk)
    <2>1. /\ memory' = memory /\ disk' = disk \ OfKey(disk) /\ reserved' = reserved /\ buffer' = buffer
          /\ uploads' = uploads /\ Seals(S, "killed") /\ "worker" \in Threads
          /\ \A u \in Threads : u # "worker" => arg'[u] = arg[u]
          /\ (Moves("worker", "ks_disk", "rs_ids") \/ Moves("worker", "ks_disk", "ks_reserved"))
        BY <1>1, Zenon DEF SameDisk, SameMemory, Threads
    <2>2. Somewhere' = Somewhere \ (Somewhere \ Somewhere') /\ Somewhere' \subseteq Somewhere
        BY <2>1, Zenon DEF Somewhere
    <2>3. Somewhere \ Somewhere' \subseteq S
        BY <2>1, Zenon DEF Somewhere
    <2>4. \A r \in S : r \in Records => ~Unseen(r) \/ fate[r] # "storing"
        BY Zenon DEF Unseen, Somewhere, OfKey
    <2> HIDE DEF S
    <2>5. AtMostOneCopy' /\ reserved' \cap Oversized = {}
        BY <2>1, Zenon DEF Places, AtMostOneCopy
    <2>6. \A q \in Records : fate'[q] \in Kept => q \notin S
        BY <2>1, Zenon DEF Seals, Kept
    <2>7. Moved
        BY <2>1, <2>2, <2>3, <2>5, <2>6, Zenon DEF Moved
    <2>8. Fated
        BY <2>1, <2>4, Fated_Seals, Zenon DEF Control
    <2>. QED
        BY <1>db, <2>1, <2>7, <2>8, Places_Move, Zenon DEF Storing, Stored
<1>7. Held'
    <2>1. \A d \in Uploads : uploads'[d].ids = uploads[d].ids /\ uploads'[d].ids \cap {} \subseteq Oversized
        BY <1>1, Zenon
    <2>2. memory' \cup buffer' \subseteq memory \cup buffer /\ reserved' \subseteq reserved
        BY <1>1, Zenon DEF SameMemory, SameDisk, OfKey
    <2>. QED
        BY <2>1, <2>2, Held_Frame, Zenon
<1>8. Saved'
    <2> SUFFICES ASSUME m_shutdownStarted' PROVE Saved'
        BY <1>5, Saved_Early, Zenon
    <2>. QED
        BY <1>1, NoWork, Zenon DEF SameRun, Control, Working, Responding, Scrubbing, Moves, Threads
<1>9. Arrives
    BY <1>1, Arrives_Same, Zenon DEF SameDisk
<1>10. Scrubbed'
    <2> SUFFICES ASSUME ops \cap {"Flush", "Immediate"} = {}, NEW r \in Records, fate'[r] = "killed"
        PROVE  r \notin Somewhere'
        <3>1. ops' = ops /\ pc'["worker"] \notin {"ks_memory", "ks_disk"}
            BY <1>1, Zenon DEF SameRun, Moves
        <3>. QED
            BY <3>1, Zenon DEF Scrubbed
    <2>1. /\ Seals(OfKey({q \in Records : fate[q] = "doomed"}) \cup OfKey(disk), "killed")
          /\ disk' = disk \ OfKey(disk) /\ SameMemory /\ pc["worker"] = "ks_disk"
        BY <1>1, Zenon DEF Moves
    <2>2. buffer = {}
        BY <2>1, ScrubAlone, Zenon DEF Scrubbing
    <2>3. CASE fate[r] = "killed"
        <3>1. r \notin Somewhere
            BY <2>3, Zenon DEF Scrubbed
        <3>. QED
            BY <1>9, <3>1, Zenon DEF Arrives
    <2>4. CASE r \in OfKey({q \in Records : fate[q] = "doomed"})
        <3>1. fate[r] = "doomed" /\ Tenant[r] = ScrubKey
            BY <2>4, Zenon DEF OfKey
        <3>2. r \notin reserved /\ r \notin memory
            BY <2>1, <3>1, Zenon DEF Scrubbed
        <3>. QED
            BY <2>1, <2>2, <3>1, <3>2, Zenon DEF Somewhere, SameMemory, OfKey
    <2>5. CASE r \in OfKey(disk)
        BY <2>1, <2>5, Zenon DEF Places, AtMostOneCopy, Somewhere, SameMemory, OfKey
    <2>. QED
        BY <2>1, <2>3, <2>4, <2>5, Zenon DEF Seals
<1>11. Settled'
    <2>1. ops' = ops
        BY <1>1, Zenon DEF SameRun
    <2>2. OneReader =>
              /\ uploads' = uploads /\ reserved' \subseteq reserved
              /\ memoryReadCount' \in {memoryReadCount, 1} /\ diskReadCount' = diskReadCount
              /\ m_readFromMemory' = m_readFromMemory
        BY <1>1, Zenon DEF SameReads, SameMemory
    <2>3. \A c \in Uploads : \A q \in disk' \ disk : q \notin uploads[c].ids \ Oversized
        BY <1>1, Zenon DEF SameDisk
    <2>4. pc'["worker"] \in Retrieving =>
              pc'["worker"] = pc["worker"] /\ arg'["worker"].ctx = arg["worker"].ctx
        BY <1>1, Zenon DEF Moves, Retrieving, Threads, Stored, ShutdownLabels
    <2>5. \A q \in Records : fate'[q] = "delivered" => fate[q] = "delivered"
        BY <1>1, Zenon DEF Seals
    <2>. QED
        BY <1>9, <2>1, <2>2, <2>3, <2>4, <2>5, Settled_Frame, Zenon
<1>12. PendingFlushHasTask'
    BY <1>1, Pending_Frame, Zenon DEF SameFlush, Moves, Returns, FlushLabels, Threads
<1>. QED
    BY <1>2, <1>3, <1>4, <1>5, <1>6, <1>7, <1>8, <1>10, <1>11, <1>12, Zenon DEF Inv, Control

\* A response's ids are settled and its context is free.
LEMMA Response_Ids_Keeps ==
    ASSUME Inv, NEW t \in Threads, Response_Ids(t)
    PROVE  Inv'
<1>. Control /\ Types /\ LockOwner /\ Contexts /\ Phases /\ Places /\ Held /\ Saved /\ Scrubbed /\ Settled
     /\ PendingFlushHasTask
    BY Zenon DEF Inv, Control
<1>1. /\ TypeOK'
      /\ SameReads /\ SameFlush /\ SameRun /\ buffer' = buffer /\ expirations' = expirations
      /\ arg[t].ctx \in Uploads
      /\ ResponseEffect(uploads[arg[t].ctx].ids, uploads[arg[t].ctx].fromMemory)
      /\ SetsUpload(arg[t].ctx, "free", {}, FALSE)
      /\ Returns(t, "rs_ids")
    <2> DEFINE c == arg[t].ctx
               ids == uploads[c].ids
               fromMemory == uploads[c].fromMemory
    <2>1. /\ SameFlush /\ ops' = ops /\ m_shutdownStarted' = m_shutdownStarted /\ buffer' = buffer
          /\ m_readFromMemory' = m_readFromMemory /\ m_flushComplete' = m_flushComplete
          /\ m_lastReadCount' = m_lastReadCount /\ m_tokenTime' = m_tokenTime
          /\ m_isRetryAfterActive' = m_isRetryAfterActive
          /\ pc[t] = "rs_ids"
        BY Zenon DEF Response_Ids, flushVars, readVars, killVars, SameFlush
    <2>2. c \in Uploads
        BY <2>1, Zenon DEF Types, Responding
    <2>3. ids \subseteq Records /\ fromMemory \in BOOLEAN
        BY <2>2, UploadFields, Zenon DEF Types
    <2>4. uploads' \in [Uploads -> UploadType] /\ SetsUpload(c, "free", {}, FALSE)
        <3>1. FreeUpload \in UploadType /\ FreeUpload.st = "free" /\ FreeUpload.ids = {} /\ FreeUpload.fromMemory = FALSE
            BY Zenon DEF FreeUpload, UploadType
        <3>2. uploads' = [uploads EXCEPT ![c] = FreeUpload]
            BY Zenon DEF Response_Ids
        <3>3. uploads' \in [Uploads -> UploadType] /\ SetsUpload(c, FreeUpload.st, FreeUpload.ids, FreeUpload.fromMemory)
            BY <2>2, <3>1, <3>2, UploadSet, Zenon DEF Types
        <3>. QED
            BY <3>1, <3>3, Zenon
    <2>5. pc' \in [Threads -> Labels] /\ arg' \in [Threads -> ArgType] /\ Returns(t, "rs_ids")
        <3>. Return(t)
            BY Zenon DEF Response_Ids
        <3>. QED
            BY <2>1, ReturnMoves, Zenon DEF Types
    <2> DEFINE Stores == /\ memory' \subseteq Records /\ reserved' \subseteq Records
                         /\ disk' \subseteq Records /\ leased' \subseteq disk'
                         /\ retryCount' \in [Records -> Nat] /\ fate' \in [Records -> Fates]
                         /\ memoryReadCount' = memoryReadCount /\ diskReadCount' = diskReadCount
                         /\ expirations' = expirations /\ m_db' = m_db
    <2> HIDE DEF c, ids, fromMemory
    <2>6. memory \subseteq Records /\ reserved \subseteq Records /\ disk \subseteq Records /\ leased \subseteq disk
        BY Zenon DEF Types, TypeOK
    <2>7. retryCount \in [Records -> Nat] /\ fate \in [Records -> Fates]
        BY Zenon DEF Types, TypeOK
    <2>8. Stores /\ ResponseEffect(ids, fromMemory)
        <3>1. CASE DeleteRecords(ids, fromMemory) /\ Seal(ids, "delivered")
            <4>1. fate' \in [Records -> Fates] /\ Seals(ids, "delivered")
                <5>. "delivered" \in Fates
                    BY Zenon DEF Fates
                <5>. QED
                    BY <3>1, SealSeals, Zenon DEF Types
            <4>2. CASE fromMemory
                <5>1. /\ reserved' = reserved \ ids
                      /\ memory' = memory \ ids \/ (ids \subseteq reserved /\ memory' = memory)
                      /\ disk' = disk /\ leased' = leased
                      /\ memoryReadCount' = memoryReadCount /\ retryCount' = retryCount
                      /\ diskReadCount' = diskReadCount /\ expirations' = expirations /\ m_db' = m_db
                    BY <3>1, <4>2, Zenon DEF DeleteRecords
                <5>2. Stores
                    BY <2>6, <2>7, <4>1, <5>1, Zenon
                <5>. QED
                    BY <4>1, <4>2, <5>1, <5>2, Zenon DEF ResponseEffect
            <4>3. CASE ~fromMemory
                <5>1. /\ memory' = memory /\ reserved' = reserved
                      /\ disk' = disk \ ids /\ leased' = leased \ ids
                      /\ memoryReadCount' = memoryReadCount /\ retryCount' = retryCount
                      /\ diskReadCount' = diskReadCount /\ expirations' = expirations /\ m_db' = m_db
                    BY <3>1, <4>3, Zenon DEF DeleteRecords
                <5>2. Stores
                    BY <2>6, <2>7, <4>1, <5>1, Zenon
                <5>. QED
                    BY <4>1, <4>3, <5>1, <5>2, Zenon DEF ResponseEffect
            <4>. QED
                BY <4>2, <4>3, Zenon
        <3>2. CASE \E increment \in BOOLEAN : ReleaseRecords(ids, fromMemory, increment)
            <4>0. PICK increment \in BOOLEAN : ReleaseRecords(ids, fromMemory, increment)
                BY <3>2, Zenon
            <4>1. CASE fromMemory
                <5>1. /\ memory' = memory \cup (reserved \cap ids) /\ reserved' = reserved \ ids
                      /\ disk' = disk /\ leased' = leased /\ fate' = fate
                      /\ memoryReadCount' = memoryReadCount /\ retryCount' = retryCount
                      /\ diskReadCount' = diskReadCount /\ expirations' = expirations /\ m_db' = m_db
                    BY <4>0, <4>1, Zenon DEF ReleaseRecords, diskVars
                <5>2. Stores
                    BY <2>6, <2>7, <5>1, Zenon
                <5>. QED
                    BY <4>1, <5>1, <5>2, Zenon DEF ResponseEffect
            <4>2. CASE ~fromMemory
                <5> DEFINE counts == [r \in Records |->
                              retryCount[r] + IF increment /\ r \in ids \cap leased THEN 1 ELSE 0]
                           dropped == {r \in disk : increment /\ counts[r] > MaxRetryCount}
                <5>1. /\ retryCount' = counts
                      /\ disk' = disk \ dropped
                      /\ leased' = (leased \ ids) \ dropped
                      /\ Seal(dropped, "dropped")
                      /\ memory' = memory /\ reserved' = reserved
                      /\ memoryReadCount' = memoryReadCount
                      /\ diskReadCount' = diskReadCount /\ expirations' = expirations /\ m_db' = m_db
                    BY <4>0, <4>2, Zenon DEF ReleaseRecords, memoryVars
                <5>2. counts \in [Records -> Nat]
                    BY <2>7
                <5>3. dropped \in SUBSET disk
                    BY Zenon
                <5> HIDE DEF counts, dropped
                <5>4. fate' \in [Records -> Fates] /\ Seals(dropped, "dropped")
                    <6>. "dropped" \in Fates
                        BY Zenon DEF Fates
                    <6>. QED
                        BY <5>1, SealSeals, Zenon DEF Types
                <5>5. Stores
                    BY <2>6, <5>1, <5>2, <5>4, Zenon
                <5>. QED
                    BY <4>2, <5>1, <5>3, <5>4, <5>5, Zenon DEF ResponseEffect
            <4>. QED
                BY <4>1, <4>2, Zenon
        <3>3. \/ DeleteRecords(ids, fromMemory) /\ Seal(ids, "delivered")
              \/ ReleaseRecords(ids, fromMemory, uploads[c].st = "retryServer")
            BY Zenon DEF Response_Ids, c, ids, fromMemory
        <3>. QED
            BY <3>1, <3>2, <3>3, Zenon
    <2>9. TypeOK'
        <3>1. Stores
            BY <2>8, Zenon
        <3>2. pc' \in [Threads -> Labels] /\ arg' \in [Threads -> ArgType] /\ uploads' \in [Uploads -> UploadType]
            BY <2>4, <2>5, Zenon
        <3>. QED
            BY <2>1, <3>1, <3>2, Zenon DEF Types, TypeOK, SameFlush, SameRun, ArgType, UploadType
    <2>. QED
        BY <2>1, <2>2, <2>4, <2>5, <2>8, <2>9, Zenon DEF SameReads, SameRun, c, ids, fromMemory
<1>db. m_db' = m_db
    BY <1>1, Zenon DEF SameRun
<1>2. Types'
    BY <1>1, Types_Return, Zenon
<1>3. LockOwner'
    <2>1. flushLock' = flushLock /\ Returns(t, "rs_ids")
        BY <1>1, Zenon DEF SameFlush
    <2>2. pc'[t] \in {"idle", "sh_close"} /\ \A u \in Threads : u # t => pc'[u] = pc[u]
        BY <2>1, ReturnLabel, Zenon DEF Returns, Moves
    <2>. QED
        BY <2>1, <2>2, LockOwner_Frame, Zenon DEF Returns, Moves, LockHeld
<1>4. Contexts'
    <2> DEFINE c == arg[t].ctx
    <2>0. pc[t] = "rs_ids"
        BY <1>1, Zenon DEF Moves, Returns
    <2>1. /\ c \in Uploads /\ uploads[c].st # "free"
          /\ \A u \in Threads : u # t /\ pc[u] \in Working => arg[u].ctx # c /\ arg[u].ctx \in Uploads
        BY <2>0, OwnContext, Zenon DEF Working, Responding
    <2>2. ~m_shutdownStarted'
        BY <2>1, ActiveUpload, <1>1, Zenon DEF SameRun
    <2>3. SetsUpload(c, "free", {}, FALSE) /\ Returns(t, "rs_ids")
        BY <1>1, Zenon
    <2>4. pc'[t] \notin Retrieving /\ pc'[t] \notin Responding /\ pc'[t] # "gr_memory"
        BY <2>3, ReturnLabel, Zenon DEF Returns, Moves, Retrieving, Responding, Scrubbing
    <2>5. /\ uploads'[c].ids = {}
          /\ \A d \in Uploads : d # c => uploads'[d] = uploads[d]
        BY <2>3, Zenon DEF SetsUpload
    <2>6. \A u \in Threads : u # t => pc'[u] = pc[u] /\ arg'[u] = arg[u]
        BY <2>3, Zenon DEF Returns, Moves
    <2> HIDE DEF c
    <2>. QED
        BY <2>1, <2>2, <2>4, <2>5, <2>6, Contexts_Upload, Zenon DEF Working
<1>5. Phases'
    BY <1>1, Phases_Return, Zenon DEF Stopping, ShutdownLabels
<1>6. Places'
    <2> DEFINE c == arg[t].ctx
               ids == uploads[c].ids
    <2>1. /\ ResponseEffect(ids, uploads[c].fromMemory) /\ buffer' = buffer /\ c \in Uploads
          /\ Returns(t, "rs_ids") /\ uploads'[c].ids = {} /\ \A d \in Uploads : d # c => uploads'[d] = uploads[d]
        BY <1>1, Zenon DEF SetsUpload
    <2>2. \A d \in Uploads : uploads'[d].ids \subseteq uploads[d].ids
        BY <2>1, Zenon
    <2>3. \A r \in ids : ~Unseen(r)
        BY <2>1, Zenon DEF Unseen
    <2>4. ids \subseteq Records
        BY <2>1, UploadFields, Zenon DEF Control, Types
    <2> HIDE DEF c, ids
    <2>5. AtMostOneCopy' /\ reserved' \cap Oversized = {} /\ Somewhere' \subseteq Somewhere
        BY <2>1, Zenon DEF Places, AtMostOneCopy, ResponseEffect, Somewhere
    <2>6. Fated /\ \A r \in Records : fate'[r] \in Kept /\ r \in Somewhere => r \in Somewhere'
        <3>1. CASE Seals(ids, "delivered") /\ Somewhere \ Somewhere' \subseteq ids
            <4>1. Fated
                BY <3>1, <2>3, Fated_Seals, Zenon DEF Control
            <4>. QED
                BY <3>1, <4>1, Zenon DEF Seals, Kept
        <3>2. CASE fate' = fate /\ Somewhere' = Somewhere
            BY <3>2, Fated_Same, Zenon
        <3>3. CASE \E dropped \in SUBSET disk : Seals(dropped, "dropped") /\ Somewhere \ Somewhere' \subseteq dropped
            <4>1. PICK dropped \in SUBSET disk : Seals(dropped, "dropped") /\ Somewhere \ Somewhere' \subseteq dropped
                BY <3>3, Zenon
            <4>2. \A r \in dropped : ~Unseen(r)
                BY Zenon DEF Unseen, Somewhere
            <4>3. Fated
                BY <4>1, <4>2, Fated_Seals, Zenon DEF Control
            <4>. QED
                BY <4>1, <4>3, Zenon DEF Seals, Kept
        <3>4. \/ Seals(ids, "delivered") /\ Somewhere \ Somewhere' \subseteq ids
              \/ fate' = fate /\ Somewhere' = Somewhere
              \/ \E dropped \in SUBSET disk : Seals(dropped, "dropped") /\ Somewhere \ Somewhere' \subseteq dropped
            BY <2>1, Zenon DEF ResponseEffect, Somewhere
        <3>. QED
            BY <3>1, <3>2, <3>3, <3>4, Zenon
    <2>7. Moved
        BY <2>2, <2>5, <2>6, Zenon DEF Moved
    <2>. QED
        BY <1>db, <2>1, <2>6, <2>7, Places_Return, Zenon
<1>7. Held'
    <2> DEFINE c == arg[t].ctx
               ids == uploads[c].ids
               U == reserved \cap ids
    <2>1. /\ ResponseEffect(ids, uploads[c].fromMemory) /\ buffer' = buffer /\ c \in Uploads
          /\ uploads'[c].ids = {} /\ \A d \in Uploads : d # c => uploads'[d].ids = uploads[d].ids
         
        BY <1>1, Zenon DEF SetsUpload
    <2> HIDE DEF c
    <2>2. \A d \in Uploads : uploads'[d].ids \cap U \subseteq Oversized
        BY <2>1, Zenon DEF Held
    <2>4. /\ memory' \cup buffer' \subseteq memory \cup buffer \cup U
          /\ reserved' \subseteq reserved
        BY <2>1, Zenon DEF ResponseEffect
    <2>5. \A d \in Uploads : uploads'[d].ids \subseteq uploads[d].ids
        BY <2>1, Zenon
    <2> HIDE DEF ids, U
    <2>. QED
        BY <2>2, <2>4, <2>5, Held_Frame, Zenon
<1>8. Saved'
    <2> SUFFICES ASSUME m_shutdownStarted' PROVE Saved'
        BY <1>5, Saved_Early, Zenon
    <2>. QED
        BY <1>1, NoWork, Zenon DEF SameRun, Control, Working, Retrieving, Responding, Moves, Returns
<1>9. Arrives
    BY <1>1, Zenon DEF Arrives, Somewhere, SameDisk, ResponseEffect
<1>10. Scrubbed'
    <2>1. ops' = ops
        BY <1>1, Zenon DEF SameRun
    <2>2. \A q \in Records : fate'[q] = "killed" => fate[q] = "killed"
        BY <1>1, Zenon DEF Seals, ResponseEffect
    <2>3. ops \cap {"Flush", "Immediate"} = {} /\ pc'["worker"] \in {"ks_memory", "ks_disk"} =>
              /\ pc'["worker"] = pc["worker"] /\ arg'["worker"] = arg["worker"]
              /\ reserved' \subseteq reserved
              /\ \A q \in Records : fate'[q] = "doomed" => fate[q] = "doomed" /\ (q \in memory' => q \in memory)
        <3>1. pc[t] \in Retrieving \cup Responding /\ pc'["worker"] \in {"ks_memory", "ks_disk"} => t # "worker"
            BY <1>1, ReturnLabel, Zenon DEF Moves, Returns, Retrieving, Responding, Scrubbing
        <3>2. pc[t] \in Retrieving \cup Responding /\ (t = "user" => "Immediate" \in ops) /\ t # "app"
            BY <1>1, Zenon DEF Moves, Returns, Retrieving, Responding, Control, Phases, FlushLabels, Scrubbing
        <3>. QED
            BY <3>1, <3>2, Zenon DEF Threads
    <2>. QED
        BY <1>9, <2>1, <2>2, <2>3, Scrubbed_Frame, Zenon
<1>11. Settled'
    <2> SUFFICES ASSUME OneReader PROVE Settled'
        BY <1>1, Zenon DEF Settled, OneReader, SameRun
    <2>t. t = "worker"
        BY <1>1, OnlyWorker, Zenon DEF Moves, Returns, Retrieving, Responding
    <2>1. arg[t].ctx \in Uploads /\ pc[t] = "rs_ids"
        BY <1>1, Zenon DEF Returns, Moves
    <2> DEFINE c == arg[t].ctx
               ids == uploads[c].ids
    <2>2. PICK f \in BOOLEAN : f = uploads[c].fromMemory
        BY <2>1, Zenon DEF Types, TypeOK
    <2>3. ResponseEffect(ids, f) /\ SetsUpload(c, "free", {}, FALSE) /\ buffer' = buffer
        BY <2>2, <1>1, Zenon
    <2>4. pc'["worker"] \in {"idle", "sh_close"}
        BY <2>t, <1>1, ReturnLabel, Zenon DEF Returns, Moves
    <2>5. Located(c, f)
        <3>1. uploads[c].st \in Answered
            BY <2>1, Zenon DEF Control, Contexts, Responding
        <3>. QED
            BY <2>1, <2>2, <3>1, Zenon DEF Settled
    <2>6. \A r \in ids \ Oversized : r \notin memory \cup buffer
        BY <2>1, Zenon DEF Held
    <2>7. \A d \in Uploads : d # c => uploads'[d] = uploads[d]
        BY <2>3, Zenon DEF SetsUpload
    <2>8. reserved' \subseteq reserved /\ disk' \subseteq disk
        BY <2>3, Zenon DEF ResponseEffect
    <2>9. ASSUME NEW d \in Uploads, uploads'[d].st \in Answered \cup {"sent"}
          PROVE  Located(d, uploads[d].fromMemory)'
        <3>1. d # c
            BY <2>1, <2>3, <2>9, Zenon DEF SetsUpload, Answered
        <3>2. Located(d, uploads[d].fromMemory) /\ uploads'[d] = uploads[d]
            BY <2>7, <2>9, <3>1, Zenon DEF Settled
        <3>. QED
            BY <2>8, <3>2, Zenon DEF Located
    <2>10. ASSUME NEW r \in Records \ Oversized, fate'[r] = "delivered" PROVE r \notin Somewhere'
        <3>1. CASE fate[r] = "delivered"
            BY <1>9, <2>10, <3>1, Zenon DEF Settled, OneReaderSettles, Arrives
        <3>2. CASE fate[r] # "delivered"
            <4>1. r \in ids /\ Seals(ids, "delivered")
                BY <2>3, <2>10, <3>2, Zenon DEF ResponseEffect, Seals
            <4>2. r \notin memory \cup buffer
                BY <2>6, <4>1, Zenon
            <4>3. CASE f
                BY <2>3, <2>5, <3>2, <4>1, <4>2, <4>3, <2>10, Zenon DEF ResponseEffect, Located, Somewhere
            <4>4. CASE ~f
                <5>1. disk' = disk \ ids /\ reserved' = reserved /\ memory' = memory
                    <6>1. \A S : ~Seals(S, "dropped")
                        BY <2>10, <3>2, Zenon DEF Seals
                    <6>. QED
                        BY <2>3, <4>4, <6>1, Zenon DEF ResponseEffect
                <5>2. r \notin reserved
                    BY <2>5, <4>1, <4>4, Zenon DEF Located
                <5>. QED
                    BY <2>3, <4>1, <4>2, <5>1, <5>2, Zenon DEF Somewhere
            <4>. QED
                BY <4>3, <4>4, Zenon
        <3>. QED
            BY <3>1, <3>2, Zenon
    <2>11. reserved' \subseteq UNION {uploads'[d].ids : d \in Uploads}
        <3> SUFFICES ASSUME NEW r \in reserved' PROVE \E d \in Uploads : r \in uploads'[d].ids
            BY Zenon
        <3>1. PICK d \in Uploads : r \in uploads[d].ids
            BY <2>8, Zenon DEF Settled, OneReaderSettles
        <3>2. r \notin ids
            <4>1. r \notin Oversized
                BY <2>8, Zenon DEF Places
            <4>. QED
                BY <2>3, <2>5, <2>8, <4>1, Zenon DEF ResponseEffect, Located
        <3>. QED
            BY <2>7, <3>1, <3>2, Zenon
    <2>12. OneReaderSettles'
        BY <2>10, <2>11, Zenon DEF OneReaderSettles
    <2>. QED
        BY <2>4, <2>9, <2>12, Zenon DEF Settled
<1>12. PendingFlushHasTask'
    BY <1>1, Pending_Frame, Zenon DEF SameFlush, Moves, Returns, FlushLabels, Threads
<1>. QED
    BY <1>2, <1>3, <1>4, <1>5, <1>6, <1>7, <1>8, <1>10, <1>11, <1>12, Zenon DEF Inv, Control

\* DeleteAllRecords begins when no upload is active.
LEMMA DeleteAllRecords_Begin_Keeps ==
    ASSUME Inv, DeleteAllRecords_Begin
    PROVE  Inv'
<1>. Control /\ Types /\ LockOwner /\ Contexts /\ Phases /\ Places /\ Held /\ Saved /\ Scrubbed /\ Settled
     /\ PendingFlushHasTask
    BY Zenon DEF Inv, Control
<1>1. /\ TypeOK'
      /\ SameMemory /\ SameDisk /\ SameReads /\ SameFlush /\ SameRun /\ uploads' = uploads
      /\ arg' = arg /\ fate' = fate
      /\ "DeleteData" \in ops /\ NoUploads /\ ~m_shutdownStarted
      /\ Moves("user", "idle", "dd_reserved")
    <2>1. /\ SameMemory /\ SameDisk /\ SameReads /\ SameFlush /\ SameRun /\ uploads' = uploads
          /\ retryCount' = retryCount /\ m_flushComplete' = m_flushComplete
          /\ m_lastReadCount' = m_lastReadCount /\ m_tokenTime' = m_tokenTime
          /\ m_isRetryAfterActive' = m_isRetryAfterActive
          /\ arg' = arg /\ fate' = fate /\ pc["user"] = "idle"
          /\ "DeleteData" \in ops /\ NoUploads /\ ~m_shutdownStarted
        BY Zenon
           DEF DeleteAllRecords_Begin, memoryVars, diskVars, flushVars, readVars, killVars, SameMemory, SameDisk,
               SameReads, SameFlush, SameRun
    <2>2. pc' \in [Threads -> Labels] /\ Moves("user", "idle", "dd_reserved")
        <3>. "dd_reserved" \in Labels /\ "user" \in Threads
            BY Zenon DEF Labels, Threads
        <3>. QED
            BY <2>1, GotoMoves, Zenon DEF DeleteAllRecords_Begin, Types, TypeOK
    <2>3. TypeOK'
        BY <2>1, <2>2, Zenon DEF Types, TypeOK, SameMemory, SameDisk, SameReads, SameFlush, SameRun
    <2>. QED
        BY <2>1, <2>2, <2>3, Zenon
<1>db. m_db' = m_db
    BY <1>1, Zenon DEF SameRun
<1>2. Types'
    <2>. "user" \in Threads
        BY Zenon DEF Threads
    <2>. QED
        BY <1>1, Types_Move, Zenon
           DEF ShutdownLabels, Storing, Stored, Retrieving, Responding, Scrubbing, Moves, Returns
<1>3. LockOwner'
    BY <1>1, LockOwner_Frame, Zenon DEF Moves, Returns, SameFlush, LockHeld, Threads
<1>4. Contexts'
    <2>. "user" \in Threads
        BY Zenon DEF Threads
    <2>. QED
        BY <1>1, Contexts_Outside, Zenon
           DEF SameRun, Storing, Stored, Retrieving, Responding, Scrubbing, Moves, Returns, Working
<1>5. Phases'
    BY <1>1, ReturnLabel, Zenon
       DEF Phases, SameRun, Threads, Moves, Returns, NoArg, Storing, Stored, Retrieving, Responding,
           Scrubbing, Deleting, Stopping, ShutdownLabels, FlushLabels
<1>6. Places'
    <2>1. Moved
        BY <1>1, Moved_Same, Zenon DEF SetsUpload, SameDisk
    <2>2. Fated
        BY <1>1, Fated_Same, Zenon
    <2>3. buffer' = buffer /\ Moves("user", "idle", "dd_reserved") /\ "user" \in Threads /\ \A u \in Threads : u # "user" => arg'[u] = arg[u]
        BY <1>1, Zenon DEF SameMemory, Threads
    <2>. QED
        BY <1>db, <2>1, <2>2, <2>3, Places_Move, Zenon DEF Storing, Stored
<1>7. Held'
    BY <1>1, Held_Same, Zenon
<1>8. Saved'
    <2> SUFFICES ASSUME m_shutdownStarted' PROVE Saved'
        BY <1>5, Saved_Early, Zenon
    <2>. QED
        BY <1>1, Zenon DEF SameRun, Control, Phases, Moves, Stopping, ShutdownLabels, FlushLabels
<1>9. Arrives
    BY <1>1, Arrives_Same, Zenon DEF SameDisk
<1>10. Scrubbed'
    <2>1. ops' = ops
        BY <1>1, Zenon DEF SameRun
    <2>2. \A q \in Records : fate'[q] = "killed" => fate[q] = "killed"
        BY <1>1, Zenon
    <2>3. ops \cap {"Flush", "Immediate"} = {} /\ pc'["worker"] \in {"ks_memory", "ks_disk"} =>
              /\ pc'["worker"] = pc["worker"] /\ arg'["worker"] = arg["worker"]
              /\ reserved' \subseteq reserved
              /\ \A q \in Records : fate'[q] = "doomed" => fate[q] = "doomed" /\ (q \in memory' => q \in memory)
        BY <1>1, Zenon DEF Moves, SameMemory, Threads, ShutdownLabels
    <2>. QED
        BY <1>9, <2>1, <2>2, <2>3, Scrubbed_Frame, Zenon
<1>11. Settled'
    <2>1. ops' = ops
        BY <1>1, Zenon DEF SameRun
    <2>2. OneReader =>
              /\ uploads' = uploads /\ reserved' \subseteq reserved
              /\ memoryReadCount' \in {memoryReadCount, 1} /\ diskReadCount' = diskReadCount
              /\ m_readFromMemory' = m_readFromMemory
        BY OnlyWorker, <1>1, Zenon DEF SameReads, SameMemory, Moves, Deleting, OneReader
    <2>3. \A c \in Uploads : \A q \in disk' \ disk : q \notin uploads[c].ids \ Oversized
        BY <1>1, Zenon DEF SameDisk
    <2>4. pc'["worker"] \in Retrieving =>
              pc'["worker"] = pc["worker"] /\ arg'["worker"].ctx = arg["worker"].ctx
        BY <1>1, Zenon DEF Moves, Retrieving, Threads, Stored, ShutdownLabels
    <2>5. \A q \in Records : fate'[q] = "delivered" => fate[q] = "delivered"
        BY <1>1, Zenon
    <2>. QED
        BY <1>9, <2>1, <2>2, <2>3, <2>4, <2>5, Settled_Frame, Zenon
<1>12. PendingFlushHasTask'
    BY <1>1, Pending_Frame, Zenon DEF SameFlush, Moves, Returns, FlushLabels, Threads
<1>. QED
    BY <1>2, <1>3, <1>4, <1>5, <1>6, <1>7, <1>8, <1>10, <1>11, <1>12, Zenon DEF Inv, Control

\* The reserved records are gone.
LEMMA DeleteAllRecords_Reserved_Keeps ==
    ASSUME Inv, DeleteAllRecords_Reserved
    PROVE  Inv'
<1>. Control /\ Types /\ LockOwner /\ Contexts /\ Phases /\ Places /\ Held /\ Saved /\ Scrubbed /\ Settled
     /\ PendingFlushHasTask
    BY Zenon DEF Inv, Control
<1>1. /\ TypeOK'
      /\ memory' = memory /\ reserved' = {} /\ buffer' = buffer
      /\ SameDisk
      /\ SameFlush /\ SameRun /\ uploads' = uploads
      /\ arg' = arg /\ Seals(reserved, "dropped")
      /\ Moves("user", "dd_reserved", "dd_memory")
    <2>1. /\ memory' = memory /\ reserved' = {} /\ buffer' = buffer
          /\ SameDisk
          /\ SameFlush /\ SameRun /\ uploads' = uploads
          /\ memoryReadCount' = memoryReadCount /\ diskReadCount' = diskReadCount
          /\ m_readFromMemory' = m_readFromMemory
          /\ retryCount' = retryCount /\ m_flushComplete' = m_flushComplete
          /\ m_lastReadCount' = m_lastReadCount /\ m_tokenTime' = m_tokenTime
          /\ m_isRetryAfterActive' = m_isRetryAfterActive
          /\ arg' = arg /\ pc["user"] = "dd_reserved"
        BY Zenon
           DEF DeleteAllRecords_Reserved, memoryVars, diskVars, flushVars, readVars, killVars, SameDisk, SameFlush,
               SameRun
    <2>2. pc' \in [Threads -> Labels] /\ Moves("user", "dd_reserved", "dd_memory")
        <3>. "dd_memory" \in Labels /\ "user" \in Threads
            BY Zenon DEF Labels, Threads
        <3>. QED
            BY <2>1, GotoMoves DEF DeleteAllRecords_Reserved, Types, TypeOK
    <2>3. fate' \in [Records -> Fates] /\ Seals(reserved, "dropped")
        <3>. "dropped" \in Fates
            BY Zenon DEF Fates
        <3>. QED
            BY SealSeals, Zenon DEF DeleteAllRecords_Reserved, Types
    <2>4. TypeOK'
        BY <2>1, <2>2, <2>3, Zenon DEF Types, TypeOK, SameDisk, SameFlush, SameRun
    <2>. QED
        BY <2>1, <2>2, <2>3, <2>4, Zenon
<1>db. m_db' = m_db
    BY <1>1, Zenon DEF SameRun
<1>2. Types'
    <2>. "user" \in Threads
        BY Zenon DEF Threads
    <2>. QED
        BY <1>1, Types_Move, Zenon
           DEF ShutdownLabels, Storing, Stored, Retrieving, Responding, Scrubbing, Moves, Returns
<1>3. LockOwner'
    BY <1>1, LockOwner_Frame, Zenon DEF Moves, Returns, SameFlush, LockHeld, Threads
<1>4. Contexts'
    <2>. "user" \in Threads
        BY Zenon DEF Threads
    <2>. QED
        BY <1>1, Contexts_Outside, Zenon
           DEF SameRun, Storing, Stored, Retrieving, Responding, Scrubbing, Moves, Returns, Working
<1>5. Phases'
    BY <1>1, ReturnLabel, Zenon
       DEF Phases, SameRun, Threads, Moves, Returns, NoArg, Storing, Stored, Retrieving, Responding,
           Scrubbing, Deleting, Stopping, ShutdownLabels, FlushLabels
<1>6. Places'
    <2> DEFINE S == reserved
    <2>1. /\ memory' = memory /\ disk' = disk /\ reserved' = {} /\ buffer' = buffer
          /\ uploads' = uploads /\ Seals(S, "dropped") /\ "user" \in Threads
          /\ \A u \in Threads : u # "user" => arg'[u] = arg[u]
          /\ Moves("user", "dd_reserved", "dd_memory")
        BY <1>1, Zenon DEF SameDisk, SameMemory, Threads
    <2>2. Somewhere' = Somewhere \ (Somewhere \ Somewhere') /\ Somewhere' \subseteq Somewhere
        BY <2>1, Zenon DEF Somewhere
    <2>3. Somewhere \ Somewhere' \subseteq S
        BY <2>1, Zenon DEF Somewhere
    <2>4. \A r \in S : r \in Records => ~Unseen(r) \/ fate[r] # "storing"
        BY Zenon DEF Unseen, Somewhere, OfKey
    <2> HIDE DEF S
    <2>5. AtMostOneCopy' /\ reserved' \cap Oversized = {}
        BY <2>1, Zenon DEF Places, AtMostOneCopy
    <2>6. \A q \in Records : fate'[q] \in Kept => q \notin S
        BY <2>1, Zenon DEF Seals, Kept
    <2>7. Moved
        BY <2>1, <2>2, <2>3, <2>5, <2>6, Zenon DEF Moved
    <2>8. Fated
        BY <2>1, <2>4, Fated_Seals, Zenon DEF Control
    <2>. QED
        BY <1>db, <2>1, <2>7, <2>8, Places_Move, Zenon DEF Storing, Stored
<1>7. Held'
    <2>1. \A d \in Uploads : uploads'[d].ids = uploads[d].ids /\ uploads'[d].ids \cap {} \subseteq Oversized
        BY <1>1, Zenon
    <2>2. memory' \cup buffer' \subseteq memory \cup buffer /\ reserved' \subseteq reserved
        BY <1>1, Zenon DEF SameMemory, SameDisk
    <2>. QED
        BY <2>1, <2>2, Held_Frame, Zenon
<1>8. Saved'
    <2> SUFFICES ASSUME m_shutdownStarted' PROVE Saved'
        BY <1>5, Saved_Early, Zenon
    <2>. QED
        BY <1>1, Zenon DEF SameRun, Control, Phases, Moves, Stopping, ShutdownLabels, FlushLabels
<1>9. Arrives
    BY <1>1, Zenon DEF Arrives, Somewhere, SameDisk
<1>10. Scrubbed'
    <2>1. ops' = ops
        BY <1>1, Zenon DEF SameRun
    <2>2. \A q \in Records : fate'[q] = "killed" => fate[q] = "killed"
        BY <1>1, Zenon DEF Seals
    <2>3. ops \cap {"Flush", "Immediate"} = {} /\ pc'["worker"] \in {"ks_memory", "ks_disk"} =>
              /\ pc'["worker"] = pc["worker"] /\ arg'["worker"] = arg["worker"]
              /\ reserved' \subseteq reserved
              /\ \A q \in Records : fate'[q] = "doomed" => fate[q] = "doomed" /\ (q \in memory' => q \in memory)
        BY <1>1, Zenon DEF Moves, SameMemory, Threads, ShutdownLabels, Seals
    <2>. QED
        BY <1>9, <2>1, <2>2, <2>3, Scrubbed_Frame, Zenon
<1>11. Settled'
    <2>1. ops' = ops
        BY <1>1, Zenon DEF SameRun
    <2>2. OneReader =>
              /\ uploads' = uploads /\ reserved' \subseteq reserved
              /\ memoryReadCount' \in {memoryReadCount, 1} /\ diskReadCount' = diskReadCount
              /\ m_readFromMemory' = m_readFromMemory
        BY OnlyWorker, <1>1, Zenon DEF SameReads, SameMemory, Moves, Deleting, OneReader
    <2>3. \A c \in Uploads : \A q \in disk' \ disk : q \notin uploads[c].ids \ Oversized
        BY <1>1, Zenon DEF SameDisk
    <2>4. pc'["worker"] \in Retrieving =>
              pc'["worker"] = pc["worker"] /\ arg'["worker"].ctx = arg["worker"].ctx
        BY <1>1, Zenon DEF Moves, Retrieving, Threads, Stored, ShutdownLabels
    <2>5. \A q \in Records : fate'[q] = "delivered" => fate[q] = "delivered"
        BY <1>1, Zenon DEF Seals
    <2>. QED
        BY <1>9, <2>1, <2>2, <2>3, <2>4, <2>5, Settled_Frame, Zenon
<1>12. PendingFlushHasTask'
    BY <1>1, Pending_Frame, Zenon DEF SameFlush, Moves, Returns, FlushLabels, Threads
<1>. QED
    BY <1>2, <1>3, <1>4, <1>5, <1>6, <1>7, <1>8, <1>10, <1>11, <1>12, Zenon DEF Inv, Control

\* The queue is empty, and its read count is reset.
LEMMA DeleteAllRecords_Memory_Keeps ==
    ASSUME Inv, DeleteAllRecords_Memory
    PROVE  Inv'
<1>. Control /\ Types /\ LockOwner /\ Contexts /\ Phases /\ Places /\ Held /\ Saved /\ Scrubbed /\ Settled
     /\ PendingFlushHasTask
    BY Zenon DEF Inv, Control
<1>1. /\ TypeOK'
      /\ memory' = {} /\ reserved' = reserved /\ buffer' = buffer
      /\ SameDisk
      /\ SameFlush /\ SameRun /\ uploads' = uploads
      /\ arg' = arg /\ Seals(memory, "dropped")
      /\ Moves("user", "dd_memory", "dd_disk")
    <2>1. /\ memory' = {} /\ reserved' = reserved /\ buffer' = buffer
          /\ SameDisk
          /\ SameFlush /\ SameRun /\ uploads' = uploads
          /\ memoryReadCount' = 0 /\ diskReadCount' = diskReadCount
          /\ m_readFromMemory' = m_readFromMemory
          /\ retryCount' = retryCount /\ m_flushComplete' = m_flushComplete
          /\ m_lastReadCount' = m_lastReadCount /\ m_tokenTime' = m_tokenTime
          /\ m_isRetryAfterActive' = m_isRetryAfterActive
          /\ arg' = arg /\ pc["user"] = "dd_memory"
        BY Zenon
           DEF DeleteAllRecords_Memory, memoryVars, diskVars, flushVars, readVars, killVars, SameDisk, SameFlush,
               SameRun
    <2>2. pc' \in [Threads -> Labels] /\ Moves("user", "dd_memory", "dd_disk")
        <3>. "dd_disk" \in Labels /\ "user" \in Threads
            BY Zenon DEF Labels, Threads
        <3>. QED
            BY <2>1, GotoMoves DEF DeleteAllRecords_Memory, Types, TypeOK
    <2>3. fate' \in [Records -> Fates] /\ Seals(memory, "dropped")
        <3>. "dropped" \in Fates
            BY Zenon DEF Fates
        <3>. QED
            BY SealSeals, Zenon DEF DeleteAllRecords_Memory, Types
    <2>4. TypeOK'
        BY <2>1, <2>2, <2>3 DEF Types, TypeOK, SameDisk, SameFlush, SameRun
    <2>. QED
        BY <2>1, <2>2, <2>3, <2>4, Zenon
<1>db. m_db' = m_db
    BY <1>1, Zenon DEF SameRun
<1>2. Types'
    <2>. "user" \in Threads
        BY Zenon DEF Threads
    <2>. QED
        BY <1>1, Types_Move, Zenon
           DEF ShutdownLabels, Storing, Stored, Retrieving, Responding, Scrubbing, Moves, Returns
<1>3. LockOwner'
    BY <1>1, LockOwner_Frame, Zenon DEF Moves, Returns, SameFlush, LockHeld, Threads
<1>4. Contexts'
    <2>. "user" \in Threads
        BY Zenon DEF Threads
    <2>. QED
        BY <1>1, Contexts_Outside, Zenon
           DEF SameRun, Storing, Stored, Retrieving, Responding, Scrubbing, Moves, Returns, Working
<1>5. Phases'
    BY <1>1, ReturnLabel, Zenon
       DEF Phases, SameRun, Threads, Moves, Returns, NoArg, Storing, Stored, Retrieving, Responding,
           Scrubbing, Deleting, Stopping, ShutdownLabels, FlushLabels
<1>6. Places'
    <2> DEFINE S == memory
    <2>1. /\ memory' = {} /\ disk' = disk /\ reserved' = reserved /\ buffer' = buffer
          /\ uploads' = uploads /\ Seals(S, "dropped") /\ "user" \in Threads
          /\ \A u \in Threads : u # "user" => arg'[u] = arg[u]
          /\ Moves("user", "dd_memory", "dd_disk")
        BY <1>1, Zenon DEF SameDisk, SameMemory, Threads
    <2>2. Somewhere' = Somewhere \ (Somewhere \ Somewhere') /\ Somewhere' \subseteq Somewhere
        BY <2>1, Zenon DEF Somewhere
    <2>3. Somewhere \ Somewhere' \subseteq S
        BY <2>1, Zenon DEF Somewhere
    <2>4. \A r \in S : r \in Records => ~Unseen(r) \/ fate[r] # "storing"
        BY Zenon DEF Unseen, Somewhere, OfKey
    <2> HIDE DEF S
    <2>5. AtMostOneCopy' /\ reserved' \cap Oversized = {}
        BY <2>1, Zenon DEF Places, AtMostOneCopy
    <2>6. \A q \in Records : fate'[q] \in Kept => q \notin S
        BY <2>1, Zenon DEF Seals, Kept
    <2>7. Moved
        BY <2>1, <2>2, <2>3, <2>5, <2>6, Zenon DEF Moved
    <2>8. Fated
        BY <2>1, <2>4, Fated_Seals, Zenon DEF Control
    <2>. QED
        BY <1>db, <2>1, <2>7, <2>8, Places_Move, Zenon DEF Storing, Stored
<1>7. Held'
    <2>1. \A d \in Uploads : uploads'[d].ids = uploads[d].ids /\ uploads'[d].ids \cap {} \subseteq Oversized
        BY <1>1, Zenon
    <2>2. memory' \cup buffer' \subseteq memory \cup buffer /\ reserved' \subseteq reserved
        BY <1>1, Zenon DEF SameMemory, SameDisk
    <2>. QED
        BY <2>1, <2>2, Held_Frame, Zenon
<1>8. Saved'
    <2> SUFFICES ASSUME m_shutdownStarted' PROVE Saved'
        BY <1>5, Saved_Early, Zenon
    <2>. QED
        BY <1>1, Zenon DEF SameRun, Control, Phases, Moves, Stopping, ShutdownLabels, FlushLabels
<1>9. Arrives
    BY <1>1, Zenon DEF Arrives, Somewhere, SameDisk
<1>10. Scrubbed'
    <2>1. ops' = ops
        BY <1>1, Zenon DEF SameRun
    <2>2. \A q \in Records : fate'[q] = "killed" => fate[q] = "killed"
        BY <1>1, Zenon DEF Seals
    <2>3. ops \cap {"Flush", "Immediate"} = {} /\ pc'["worker"] \in {"ks_memory", "ks_disk"} =>
              /\ pc'["worker"] = pc["worker"] /\ arg'["worker"] = arg["worker"]
              /\ reserved' \subseteq reserved
              /\ \A q \in Records : fate'[q] = "doomed" => fate[q] = "doomed" /\ (q \in memory' => q \in memory)
        BY <1>1, Zenon DEF Moves, SameMemory, Threads, ShutdownLabels, Seals
    <2>. QED
        BY <1>9, <2>1, <2>2, <2>3, Scrubbed_Frame, Zenon
<1>11. Settled'
    <2>1. ops' = ops
        BY <1>1, Zenon DEF SameRun
    <2>2. OneReader =>
              /\ uploads' = uploads /\ reserved' \subseteq reserved
              /\ memoryReadCount' \in {memoryReadCount, 1} /\ diskReadCount' = diskReadCount
              /\ m_readFromMemory' = m_readFromMemory
        BY OnlyWorker, <1>1, Zenon DEF SameReads, SameMemory, Moves, Deleting, OneReader
    <2>3. \A c \in Uploads : \A q \in disk' \ disk : q \notin uploads[c].ids \ Oversized
        BY <1>1, Zenon DEF SameDisk
    <2>4. pc'["worker"] \in Retrieving =>
              pc'["worker"] = pc["worker"] /\ arg'["worker"].ctx = arg["worker"].ctx
        BY <1>1, Zenon DEF Moves, Retrieving, Threads, Stored, ShutdownLabels
    <2>5. \A q \in Records : fate'[q] = "delivered" => fate[q] = "delivered"
        BY <1>1, Zenon DEF Seals
    <2>. QED
        BY <1>9, <2>1, <2>2, <2>3, <2>4, <2>5, Settled_Frame, Zenon
<1>12. PendingFlushHasTask'
    BY <1>1, Pending_Frame, Zenon DEF SameFlush, Moves, Returns, FlushLabels, Threads
<1>. QED
    BY <1>2, <1>3, <1>4, <1>5, <1>6, <1>7, <1>8, <1>10, <1>11, <1>12, Zenon DEF Inv, Control

\* The table is empty.
LEMMA DeleteAllRecords_Disk_Keeps ==
    ASSUME Inv, DeleteAllRecords_Disk
    PROVE  Inv'
<1>. Control /\ Types /\ LockOwner /\ Contexts /\ Phases /\ Places /\ Held /\ Saved /\ Scrubbed /\ Settled
     /\ PendingFlushHasTask
    BY Zenon DEF Inv, Control
<1>1. /\ TypeOK'
      /\ memory' = memory /\ reserved' = reserved /\ buffer' = buffer /\ disk' = {} /\ leased' = {}
      /\ expirations' = expirations
      /\ SameFlush /\ SameRun /\ uploads' = uploads
      /\ arg' = arg /\ Seals(disk, "dropped")
      /\ Moves("user", "dd_disk", "idle")
    <2>1. /\ memory' = memory /\ reserved' = reserved /\ buffer' = buffer /\ disk' = {} /\ leased' = {}
          /\ expirations' = expirations
          /\ SameFlush /\ SameRun /\ uploads' = uploads
          /\ memoryReadCount' = memoryReadCount /\ diskReadCount' = diskReadCount
          /\ m_readFromMemory' = m_readFromMemory
          /\ retryCount' = retryCount /\ m_flushComplete' = m_flushComplete
          /\ m_lastReadCount' = m_lastReadCount /\ m_tokenTime' = m_tokenTime
          /\ m_isRetryAfterActive' = m_isRetryAfterActive
          /\ arg' = arg /\ pc["user"] = "dd_disk"
        BY Zenon
           DEF DeleteAllRecords_Disk, memoryVars, diskVars, flushVars, readVars, killVars, SameDisk, SameFlush,
               SameRun
    <2>2. pc' \in [Threads -> Labels] /\ Moves("user", "dd_disk", "idle")
        <3>. "idle" \in Labels /\ "user" \in Threads
            BY Zenon DEF Labels, Threads
        <3>. QED
            BY <2>1, GotoMoves DEF DeleteAllRecords_Disk, Types, TypeOK
    <2>3. fate' \in [Records -> Fates] /\ Seals(disk, "dropped")
        <3>. "dropped" \in Fates
            BY Zenon DEF Fates
        <3>. QED
            BY SealSeals, Zenon DEF DeleteAllRecords_Disk, Types
    <2>4. TypeOK'
        BY <2>1, <2>2, <2>3, Zenon DEF Types, TypeOK, SameDisk, SameFlush, SameRun
    <2>. QED
        BY <2>1, <2>2, <2>3, <2>4, Zenon
<1>db. m_db' = m_db
    BY <1>1, Zenon DEF SameRun
<1>2. Types'
    <2>. "user" \in Threads
        BY Zenon DEF Threads
    <2>. QED
        BY <1>1, Types_Move, Zenon
           DEF ShutdownLabels, Storing, Stored, Retrieving, Responding, Scrubbing, Moves, Returns
<1>3. LockOwner'
    BY <1>1, LockOwner_Frame, Zenon DEF Moves, Returns, SameFlush, LockHeld, Threads
<1>4. Contexts'
    <2>. "user" \in Threads
        BY Zenon DEF Threads
    <2>. QED
        BY <1>1, Contexts_Outside, Zenon
           DEF SameRun, Storing, Stored, Retrieving, Responding, Scrubbing, Moves, Returns, Working
<1>5. Phases'
    BY <1>1, ReturnLabel, Zenon
       DEF Phases, SameRun, Threads, Moves, Returns, NoArg, Storing, Stored, Retrieving, Responding,
           Scrubbing, Deleting, Stopping, ShutdownLabels, FlushLabels
<1>6. Places'
    <2> DEFINE S == disk
    <2>1. /\ memory' = memory /\ disk' = {} /\ reserved' = reserved /\ buffer' = buffer
          /\ uploads' = uploads /\ Seals(S, "dropped") /\ "user" \in Threads
          /\ \A u \in Threads : u # "user" => arg'[u] = arg[u]
          /\ Moves("user", "dd_disk", "idle")
        BY <1>1, Zenon DEF SameDisk, SameMemory, Threads
    <2>2. Somewhere' = Somewhere \ (Somewhere \ Somewhere') /\ Somewhere' \subseteq Somewhere
        BY <2>1, Zenon DEF Somewhere
    <2>3. Somewhere \ Somewhere' \subseteq S
        BY <2>1, Zenon DEF Somewhere
    <2>4. \A r \in S : r \in Records => ~Unseen(r) \/ fate[r] # "storing"
        BY Zenon DEF Unseen, Somewhere, OfKey
    <2> HIDE DEF S
    <2>5. AtMostOneCopy' /\ reserved' \cap Oversized = {}
        BY <2>1, Zenon DEF Places, AtMostOneCopy
    <2>6. \A q \in Records : fate'[q] \in Kept => q \notin S
        BY <2>1, Zenon DEF Seals, Kept
    <2>7. Moved
        BY <2>1, <2>2, <2>3, <2>5, <2>6, Zenon DEF Moved
    <2>8. Fated
        BY <2>1, <2>4, Fated_Seals, Zenon DEF Control
    <2>. QED
        BY <1>db, <2>1, <2>7, <2>8, Places_Move, Zenon DEF Storing, Stored
<1>7. Held'
    <2>1. \A d \in Uploads : uploads'[d].ids = uploads[d].ids /\ uploads'[d].ids \cap {} \subseteq Oversized
        BY <1>1, Zenon
    <2>2. memory' \cup buffer' \subseteq memory \cup buffer /\ reserved' \subseteq reserved
        BY <1>1, Zenon DEF SameMemory, SameDisk
    <2>. QED
        BY <2>1, <2>2, Held_Frame, Zenon
<1>8. Saved'
    <2> SUFFICES ASSUME m_shutdownStarted' PROVE Saved'
        BY <1>5, Saved_Early, Zenon
    <2>. QED
        BY <1>1, Zenon DEF SameRun, Control, Phases, Moves, Stopping, ShutdownLabels, FlushLabels
<1>9. Arrives
    BY <1>1, Zenon DEF Arrives, Somewhere, SameDisk
<1>10. Scrubbed'
    <2>1. ops' = ops
        BY <1>1, Zenon DEF SameRun
    <2>2. \A q \in Records : fate'[q] = "killed" => fate[q] = "killed"
        BY <1>1, Zenon DEF Seals
    <2>3. ops \cap {"Flush", "Immediate"} = {} /\ pc'["worker"] \in {"ks_memory", "ks_disk"} =>
              /\ pc'["worker"] = pc["worker"] /\ arg'["worker"] = arg["worker"]
              /\ reserved' \subseteq reserved
              /\ \A q \in Records : fate'[q] = "doomed" => fate[q] = "doomed" /\ (q \in memory' => q \in memory)
        BY <1>1, Zenon DEF Moves, SameMemory, Threads, ShutdownLabels, Seals
    <2>. QED
        BY <1>9, <2>1, <2>2, <2>3, Scrubbed_Frame, Zenon
<1>11. Settled'
    <2>1. ops' = ops
        BY <1>1, Zenon DEF SameRun
    <2>2. OneReader =>
              /\ uploads' = uploads /\ reserved' \subseteq reserved
              /\ memoryReadCount' \in {memoryReadCount, 1} /\ diskReadCount' = diskReadCount
              /\ m_readFromMemory' = m_readFromMemory
        BY OnlyWorker, <1>1, Zenon DEF SameReads, SameMemory, Moves, Deleting, OneReader
    <2>3. \A c \in Uploads : \A q \in disk' \ disk : q \notin uploads[c].ids \ Oversized
        BY <1>1, Zenon DEF SameDisk
    <2>4. pc'["worker"] \in Retrieving =>
              pc'["worker"] = pc["worker"] /\ arg'["worker"].ctx = arg["worker"].ctx
        BY <1>1, Zenon DEF Moves, Retrieving, Threads, Stored, ShutdownLabels
    <2>5. \A q \in Records : fate'[q] = "delivered" => fate[q] = "delivered"
        BY <1>1, Zenon DEF Seals
    <2>. QED
        BY <1>9, <2>1, <2>2, <2>3, <2>4, <2>5, Settled_Frame, Zenon
<1>12. PendingFlushHasTask'
    BY <1>1, Pending_Frame, Zenon DEF SameFlush, Moves, Returns, FlushLabels, Threads
<1>. QED
    BY <1>2, <1>3, <1>4, <1>5, <1>6, <1>7, <1>8, <1>10, <1>11, <1>12, Zenon DEF Inv, Control

\* Shutdown begins when no upload is active.
LEMMA Shutdown_Begin_Keeps ==
    ASSUME Inv, Shutdown_Begin
    PROVE  Inv'
<1>. Control /\ Types /\ LockOwner /\ Contexts /\ Phases /\ Places /\ Held /\ Saved /\ Scrubbed /\ Settled
     /\ PendingFlushHasTask
    BY Zenon DEF Inv, Control
<1>1. /\ TypeOK'
      /\ SameMemory /\ SameDisk /\ SameReads /\ SameFlush /\ uploads' = uploads
      /\ arg' = arg /\ fate' = fate /\ ops' = ops /\ m_db' = m_db
      /\ NoUploads /\ m_shutdownStarted' = TRUE
      /\ Moves("user", "idle", "sh_wait")
    <2>1. /\ SameMemory /\ SameDisk /\ SameReads /\ SameFlush /\ uploads' = uploads
          /\ retryCount' = retryCount /\ m_flushComplete' = m_flushComplete
          /\ m_lastReadCount' = m_lastReadCount /\ m_tokenTime' = m_tokenTime
          /\ m_isRetryAfterActive' = m_isRetryAfterActive
          /\ arg' = arg /\ fate' = fate /\ ops' = ops /\ m_db' = m_db /\ pc["user"] = "idle"
          /\ NoUploads
        BY Zenon
           DEF Shutdown_Begin, memoryVars, diskVars, flushVars, readVars, killVars, SameMemory, SameDisk, SameReads,
               SameFlush
    <2>2. pc' \in [Threads -> Labels] /\ Moves("user", "idle", "sh_wait")
        <3>. "sh_wait" \in Labels /\ "user" \in Threads
            BY Zenon DEF Labels, ShutdownLabels, Threads
        <3>. QED
            BY <2>1, GotoMoves, Zenon DEF Shutdown_Begin, Types, TypeOK
    <2>3. m_shutdownStarted' = TRUE
        BY Zenon DEF Shutdown_Begin
    <2>4. m_shutdownStarted' \in BOOLEAN
        BY <2>3, Zenon
    <2>5. TypeOK'
        BY <2>1, <2>2, <2>4, Zenon DEF Types, TypeOK, SameMemory, SameDisk, SameReads, SameFlush
    <2>. QED
        BY <2>1, <2>2, <2>3, <2>5, Zenon
<1>2. Types'
    <2>. "user" \in Threads
        BY Zenon DEF Threads
    <2>. QED
        BY <1>1, Types_Move, Zenon
           DEF ShutdownLabels, Storing, Stored, Retrieving, Responding, Scrubbing, Moves, Returns
<1>3. LockOwner'
    BY <1>1, LockOwner_Frame, Zenon DEF Moves, Returns, SameFlush, LockHeld, Threads
<1>4. Contexts'
    BY <1>1, Contexts_Frame, Zenon
       DEF Storing, Stored, Retrieving, Responding, Scrubbing, Moves, Returns, Working, Threads
<1>5. Phases'
    BY <1>1, ReturnLabel, Zenon
       DEF Phases, SameRun, Threads, Moves, Returns, NoArg, Storing, Stored, Retrieving, Responding,
           Scrubbing, Deleting, Stopping, ShutdownLabels, FlushLabels
<1>6. Places'
    <2>1. Moved
        BY <1>1, Moved_Same, Zenon DEF SetsUpload, SameDisk
    <2>2. Fated
        BY <1>1, Fated_Same, Zenon
    <2>3. buffer' = buffer /\ Moves("user", "idle", "sh_wait") /\ "user" \in Threads /\ \A u \in Threads : u # "user" => arg'[u] = arg[u]
        BY <1>1, Zenon DEF SameMemory, Threads
    <2>. QED
        BY <1>1, <2>1, <2>2, <2>3, Places_Move, Zenon DEF Storing, Stored
<1>7. Held'
    BY <1>1, Held_Same, Zenon
<1>8. Saved'
    <2> SUFFICES ASSUME m_shutdownStarted' PROVE Saved'
        BY <1>5, Saved_Early, Zenon
    <2>. QED
        BY <1>1, Zenon DEF Moves, Saved, ShutdownLabels, FlushLabels, Draining, Flushed
<1>9. Arrives
    BY <1>1, Arrives_Same, Zenon DEF SameDisk
<1>10. Scrubbed'
    <2>1. ops' = ops
        BY <1>1, Zenon DEF SameRun
    <2>2. \A q \in Records : fate'[q] = "killed" => fate[q] = "killed"
        BY <1>1, Zenon
    <2>3. ops \cap {"Flush", "Immediate"} = {} /\ pc'["worker"] \in {"ks_memory", "ks_disk"} =>
              /\ pc'["worker"] = pc["worker"] /\ arg'["worker"] = arg["worker"]
              /\ reserved' \subseteq reserved
              /\ \A q \in Records : fate'[q] = "doomed" => fate[q] = "doomed" /\ (q \in memory' => q \in memory)
        BY <1>1, Zenon DEF Moves, SameMemory, Threads, ShutdownLabels
    <2>. QED
        BY <1>9, <2>1, <2>2, <2>3, Scrubbed_Frame, Zenon
<1>11. Settled'
    <2>1. ops' = ops
        BY <1>1, Zenon DEF SameRun
    <2>2. OneReader =>
              /\ uploads' = uploads /\ reserved' \subseteq reserved
              /\ memoryReadCount' \in {memoryReadCount, 1} /\ diskReadCount' = diskReadCount
              /\ m_readFromMemory' = m_readFromMemory
        BY <1>1, Zenon DEF SameReads, SameMemory
    <2>3. \A c \in Uploads : \A q \in disk' \ disk : q \notin uploads[c].ids \ Oversized
        BY <1>1, Zenon DEF SameDisk
    <2>4. pc'["worker"] \in Retrieving =>
              pc'["worker"] = pc["worker"] /\ arg'["worker"].ctx = arg["worker"].ctx
        BY <1>1, Zenon DEF Moves, Retrieving, Threads, Stored, ShutdownLabels
    <2>5. \A q \in Records : fate'[q] = "delivered" => fate[q] = "delivered"
        BY <1>1, Zenon
    <2>. QED
        BY <1>9, <2>1, <2>2, <2>3, <2>4, <2>5, Settled_Frame, Zenon
<1>12. PendingFlushHasTask'
    BY <1>1, Pending_Frame, Zenon DEF SameFlush, Moves, Returns, FlushLabels, Threads
<1>. QED
    BY <1>2, <1>3, <1>4, <1>5, <1>6, <1>7, <1>8, <1>10, <1>11, <1>12, Zenon DEF Inv, Control

\* Shutdown waits for a flush that is pending.
LEMMA Shutdown_WaitForFlush_Keeps ==
    ASSUME Inv, Shutdown_WaitForFlush
    PROVE  Inv'
<1>. Control /\ Types /\ LockOwner /\ Contexts /\ Phases /\ Places /\ Held /\ Saved /\ Scrubbed /\ Settled
     /\ PendingFlushHasTask
    BY Zenon DEF Inv, Control
<1>1. /\ TypeOK'
      /\ SameMemory /\ SameDisk /\ SameReads /\ SameFlush /\ SameRun /\ uploads' = uploads
      /\ arg' = arg /\ fate' = fate
      /\ \E l, m \in Waiting : Moves("user", l, m)
    <2>1. /\ SameMemory /\ SameDisk /\ SameReads /\ SameFlush /\ SameRun /\ uploads' = uploads
          /\ retryCount' = retryCount /\ m_flushComplete' = m_flushComplete
          /\ m_lastReadCount' = m_lastReadCount /\ m_tokenTime' = m_tokenTime
          /\ m_isRetryAfterActive' = m_isRetryAfterActive
          /\ arg' = arg /\ fate' = fate
        BY Zenon
           DEF Shutdown_WaitForFlush, memoryVars, diskVars, flushVars, readVars, killVars, SameMemory, SameDisk,
               SameReads, SameFlush, SameRun
    <2>2. \E l, m \in Waiting : pc["user"] = l /\ Goto("user", m)
        BY Zenon DEF Shutdown_WaitForFlush, Waiting, ShutdownLabels
    <2>3. PICK l \in Waiting, m \in Waiting : pc["user"] = l /\ Goto("user", m)
        BY <2>2, Zenon
    <2>4. pc' \in [Threads -> Labels] /\ Moves("user", l, m)
        <3>. m \in Labels /\ "user" \in Threads
            BY Zenon DEF Labels, Waiting, ShutdownLabels, Threads
        <3>. QED
            BY <2>3, GotoMoves, Zenon DEF Types, TypeOK
    <2>5. TypeOK'
        BY <2>1, <2>4, Zenon DEF Types, TypeOK, SameMemory, SameDisk, SameReads, SameFlush, SameRun
    <2>. QED
        BY <2>1, <2>4, <2>5, Zenon
<1>db. m_db' = m_db
    BY <1>1, Zenon DEF SameRun
<1>2. Types'
    <2>. "user" \in Threads
        BY Zenon DEF Threads
    <2>. QED
        BY <1>1, Types_Move, Zenon
           DEF Waiting, ShutdownLabels, Storing, Stored, Retrieving, Responding, Scrubbing, Moves, Returns
<1>3. LockOwner'
    BY <1>1, LockOwner_Frame, Zenon DEF Moves, Returns, SameFlush, LockHeld, Threads, Waiting, ShutdownLabels
<1>4. Contexts'
    <2>. "user" \in Threads
        BY Zenon DEF Threads
    <2>. QED
        BY <1>1, Contexts_Outside, Zenon
           DEF Waiting, ShutdownLabels, SameRun, Storing, Stored, Retrieving, Responding, Scrubbing, Moves,
               Returns, Working
<1>5. Phases'
    BY <1>1, ReturnLabel, Zenon
       DEF Phases, SameRun, Threads, Moves, Returns, NoArg, Storing, Stored, Retrieving, Responding,
           Scrubbing, Deleting, Stopping, Waiting, ShutdownLabels, FlushLabels
<1>6. Places'
    <2>1. Moved
        BY <1>1, Moved_Same, Zenon DEF SetsUpload, SameDisk
    <2>2. Fated
        BY <1>1, Fated_Same, Zenon
    <2>3. buffer' = buffer /\ (\E l, m \in Waiting : Moves("user", l, m)) /\ "user" \in Threads /\ \A u \in Threads : u # "user" => arg'[u] = arg[u]
        BY <1>1, Zenon DEF SameMemory, Threads
    <2>. QED
        BY <1>db, <2>1, <2>2, <2>3, Places_Move, Zenon DEF Storing, Stored, Waiting, ShutdownLabels
<1>7. Held'
    BY <1>1, Held_Same, Zenon
<1>8. Saved'
    <2> SUFFICES ASSUME m_shutdownStarted' PROVE Saved'
        BY <1>5, Saved_Early, Zenon
    <2>. QED
        BY <1>1, Zenon DEF Moves, Saved, Waiting, FlushLabels, Draining, Flushed
<1>9. Arrives
    BY <1>1, Arrives_Same, Zenon DEF SameDisk
<1>10. Scrubbed'
    <2>1. ops' = ops
        BY <1>1, Zenon DEF SameRun
    <2>2. \A q \in Records : fate'[q] = "killed" => fate[q] = "killed"
        BY <1>1, Zenon
    <2>3. ops \cap {"Flush", "Immediate"} = {} /\ pc'["worker"] \in {"ks_memory", "ks_disk"} =>
              /\ pc'["worker"] = pc["worker"] /\ arg'["worker"] = arg["worker"]
              /\ reserved' \subseteq reserved
              /\ \A q \in Records : fate'[q] = "doomed" => fate[q] = "doomed" /\ (q \in memory' => q \in memory)
        BY <1>1, Zenon DEF Moves, SameMemory, Threads, Waiting, ShutdownLabels
    <2>. QED
        BY <1>9, <2>1, <2>2, <2>3, Scrubbed_Frame, Zenon
<1>11. Settled'
    <2>1. ops' = ops
        BY <1>1, Zenon DEF SameRun
    <2>2. OneReader =>
              /\ uploads' = uploads /\ reserved' \subseteq reserved
              /\ memoryReadCount' \in {memoryReadCount, 1} /\ diskReadCount' = diskReadCount
              /\ m_readFromMemory' = m_readFromMemory
        BY <1>1, Zenon DEF SameReads, SameMemory
    <2>3. \A c \in Uploads : \A q \in disk' \ disk : q \notin uploads[c].ids \ Oversized
        BY <1>1, Zenon DEF SameDisk
    <2>4. pc'["worker"] \in Retrieving =>
              pc'["worker"] = pc["worker"] /\ arg'["worker"].ctx = arg["worker"].ctx
        BY <1>1, Zenon DEF Moves, Retrieving, Threads, Stored, Waiting, ShutdownLabels
    <2>5. \A q \in Records : fate'[q] = "delivered" => fate[q] = "delivered"
        BY <1>1, Zenon
    <2>. QED
        BY <1>9, <2>1, <2>2, <2>3, <2>4, <2>5, Settled_Frame, Zenon
<1>12. PendingFlushHasTask'
    BY <1>1, Pending_Frame, Zenon DEF SameFlush, Moves, Returns, FlushLabels, Threads, Waiting, ShutdownLabels
<1>. QED
    BY <1>2, <1>3, <1>4, <1>5, <1>6, <1>7, <1>8, <1>10, <1>11, <1>12, Zenon DEF Inv, Control

\* Reserved records are given back to the queue, and Shutdown flushes.
LEMMA Shutdown_Release_Keeps ==
    ASSUME Inv, Shutdown_Release
    PROVE  Inv'
<1>. Control /\ Types /\ LockOwner /\ Contexts /\ Phases /\ Places /\ Held /\ Saved /\ Scrubbed /\ Settled
     /\ PendingFlushHasTask
    BY Zenon DEF Inv, Control
<1>1. /\ TypeOK'
      /\ memory' = memory \cup reserved /\ reserved' = {} /\ buffer' = buffer
      /\ SameDisk /\ SameReads /\ SameFlush /\ SameRun /\ uploads' = uploads /\ fate' = fate
      /\ arg'["user"].cont = "sh_close" /\ arg'["user"].ctx = arg["user"].ctx
      /\ \A u \in Threads : u # "user" => arg'[u] = arg[u]
      /\ Moves("user", "sh_release", "fl_lock")
    <2>1. /\ memory' = memory \cup reserved /\ reserved' = {} /\ buffer' = buffer
          /\ SameDisk /\ SameReads /\ SameFlush /\ SameRun /\ uploads' = uploads /\ fate' = fate
          /\ retryCount' = retryCount /\ m_flushComplete' = m_flushComplete
          /\ m_lastReadCount' = m_lastReadCount /\ m_tokenTime' = m_tokenTime
          /\ m_isRetryAfterActive' = m_isRetryAfterActive
          /\ pc["user"] = "sh_release"
        BY Zenon DEF Shutdown_Release, diskVars, flushVars, readVars, killVars, SameDisk, SameReads, SameFlush, SameRun
    <2>. "user" \in Threads
        BY Zenon DEF Threads
    <2>2. pc' \in [Threads -> Labels] /\ Moves("user", "sh_release", "fl_lock")
        <3>. "fl_lock" \in Labels
            BY Zenon DEF Labels, FlushLabels
        <3>. QED
            BY <2>1, GotoMoves DEF Shutdown_Release, Types, TypeOK
    <2>3. /\ arg' \in [Threads -> ArgType]
          /\ arg'["user"].cont = "sh_close" /\ arg'["user"].ctx = arg["user"].ctx
          /\ \A u \in Threads : u # "user" => arg'[u] = arg[u]
        <3>. arg \in [Threads -> ArgType]
            BY Zenon DEF Types, TypeOK, ArgType
        <3>. QED
            BY Zenon DEF Shutdown_Release, ArgType
    <2>4. TypeOK'
        <3>. arg' \in [Threads -> ArgType]
            BY <2>3, Zenon
        <3>. QED
            BY <2>1, <2>2, Zenon DEF Types, TypeOK, SameDisk, SameReads, SameFlush, SameRun, ArgType
    <2>. QED
        BY <2>1, <2>2, <2>3, <2>4, Zenon
<1>db. m_db' = m_db
    BY <1>1, Zenon DEF SameRun
<1>2. Types'
    <2>. "user" \in Threads
        BY Zenon DEF Threads
    <2>. QED
        BY <1>1, Types_Move, Zenon
           DEF ShutdownLabels, Storing, Stored, Retrieving, Responding, Scrubbing, Moves, Returns
<1>3. LockOwner'
    BY <1>1, LockOwner_Frame, Zenon DEF Moves, Returns, SameFlush, LockHeld, Threads
<1>4. Contexts'
    <2>. "user" \in Threads
        BY Zenon DEF Threads
    <2>. QED
        BY <1>1, Contexts_Outside, Zenon
           DEF SameRun, Storing, Stored, Retrieving, Responding, Scrubbing, Moves, Returns, Working
<1>5. Phases'
    BY <1>1, ReturnLabel, Zenon
       DEF Phases, SameRun, Threads, Moves, Returns, NoArg, Storing, Stored, Retrieving, Responding,
           Scrubbing, Deleting, Stopping, ShutdownLabels, FlushLabels
<1>6. Places'
    <2>1. /\ memory' = memory \cup reserved /\ reserved' = {} /\ buffer' = buffer /\ disk' = disk
          /\ uploads' = uploads /\ fate' = fate /\ Moves("user", "sh_release", "fl_lock") /\ "user" \in Threads
          /\ \A u \in Threads : u # "user" => arg'[u] = arg[u]
        BY <1>1, Zenon DEF SameDisk, Threads
    <2>2. Somewhere' = Somewhere
        BY <2>1, Zenon DEF Somewhere
    <2>3. AtMostOneCopy' /\ reserved' \cap Oversized = {}
        BY <2>1, Zenon DEF Places, AtMostOneCopy
    <2>4. Moved
        BY <2>1, <2>2, <2>3, Zenon DEF Moved
    <2>5. Fated
        BY <2>1, Fated_Same, Zenon
    <2>. QED
        BY <1>db, <2>1, <2>4, <2>5, Places_Move, Zenon DEF Storing, Stored
<1>7. Held'
    <2>0. NoUploads
        BY <1>1, Zenon DEF Moves, Control, Contexts, Phases, Stopping, ShutdownLabels
    <2>1. \A d \in Uploads : uploads'[d].ids = uploads[d].ids /\ uploads[d].ids = {}
        BY <2>0, <1>1, Zenon DEF NoUploads, Control, Contexts
    <2>2. /\ memory' \cup buffer' \subseteq memory \cup buffer \cup reserved /\ reserved' \subseteq reserved
        BY <1>1, Zenon
    <2>. QED
        BY <2>1, <2>2, Held_Frame, Zenon
<1>8. Saved'
    <2> SUFFICES ASSUME m_shutdownStarted' PROVE Saved'
        BY <1>5, Saved_Early, Zenon
    <2>. QED
        BY <1>1, Zenon DEF Moves, Saved, FlushLabels, Draining, Flushed
<1>9. Arrives
    BY <1>1, Zenon DEF Arrives, Somewhere, SameDisk
<1>10. Scrubbed'
    <2>1. ops' = ops
        BY <1>1, Zenon DEF SameRun
    <2>2. \A q \in Records : fate'[q] = "killed" => fate[q] = "killed"
        BY <1>1, Zenon
    <2>3. ops \cap {"Flush", "Immediate"} = {} /\ pc'["worker"] \in {"ks_memory", "ks_disk"} =>
              /\ pc'["worker"] = pc["worker"] /\ arg'["worker"] = arg["worker"]
              /\ reserved' \subseteq reserved
              /\ \A q \in Records : fate'[q] = "doomed" => fate[q] = "doomed" /\ (q \in memory' => q \in memory)
        <3>1. pc["user"] = "sh_release" /\ pc'["worker"] = pc["worker"]
            BY <1>1, Zenon DEF Moves, Threads
        <3>2. m_shutdownStarted
            BY <3>1, Zenon DEF Control, Phases, Stopping, ShutdownLabels
        <3>. QED
            BY <3>1, <3>2, NoWork, Zenon DEF Control, Working, Responding, Scrubbing, Threads
    <2>. QED
        BY <1>9, <2>1, <2>2, <2>3, Scrubbed_Frame, Zenon
<1>11. Settled'
    <2>1. ops' = ops
        BY <1>1, Zenon DEF SameRun
    <2>2. OneReader =>
              /\ uploads' = uploads /\ reserved' \subseteq reserved
              /\ memoryReadCount' \in {memoryReadCount, 1} /\ diskReadCount' = diskReadCount
              /\ m_readFromMemory' = m_readFromMemory
        BY <1>1, Zenon DEF SameReads, SameMemory
    <2>3. \A c \in Uploads : \A q \in disk' \ disk : q \notin uploads[c].ids \ Oversized
        BY <1>1, Zenon DEF SameDisk
    <2>4. pc'["worker"] \in Retrieving =>
              pc'["worker"] = pc["worker"] /\ arg'["worker"].ctx = arg["worker"].ctx
        BY <1>1, Zenon DEF Moves, Retrieving, Threads, Stored, ShutdownLabels
    <2>5. \A q \in Records : fate'[q] = "delivered" => fate[q] = "delivered"
        BY <1>1, Zenon
    <2>. QED
        BY <1>9, <2>1, <2>2, <2>3, <2>4, <2>5, Settled_Frame, Zenon
<1>12. PendingFlushHasTask'
    BY <1>1, Pending_Frame, Zenon DEF SameFlush, Moves, Returns, FlushLabels, Threads
<1>. QED
    BY <1>2, <1>3, <1>4, <1>5, <1>6, <1>7, <1>8, <1>10, <1>11, <1>12, Zenon DEF Inv, Control

\* The database is closed.
LEMMA Shutdown_Close_Keeps ==
    ASSUME Inv, Shutdown_Close
    PROVE  Inv'
<1>. Control /\ Types /\ LockOwner /\ Contexts /\ Phases /\ Places /\ Held /\ Saved /\ Scrubbed /\ Settled
     /\ PendingFlushHasTask
    BY Zenon DEF Inv, Control
<1>1. /\ TypeOK'
      /\ SameMemory /\ SameDisk /\ SameReads /\ SameFlush /\ uploads' = uploads /\ fate' = fate /\ arg' = arg
      /\ ops' = ops /\ m_shutdownStarted' = m_shutdownStarted /\ m_db' = FALSE
      /\ Moves("user", "sh_close", "down")
    <2>1. /\ SameMemory /\ SameDisk /\ SameReads /\ SameFlush /\ uploads' = uploads /\ fate' = fate /\ arg' = arg
          /\ ops' = ops /\ m_shutdownStarted' = m_shutdownStarted /\ m_db' = FALSE
          /\ retryCount' = retryCount /\ m_flushComplete' = m_flushComplete
          /\ m_lastReadCount' = m_lastReadCount /\ m_tokenTime' = m_tokenTime
          /\ m_isRetryAfterActive' = m_isRetryAfterActive
          /\ pc["user"] = "sh_close"
        BY Zenon
           DEF Shutdown_Close, memoryVars, flushVars, readVars, killVars, SameMemory, SameDisk, SameReads,
               SameFlush
    <2>2. pc' \in [Threads -> Labels] /\ Moves("user", "sh_close", "down")
        <3>. "user" \in Threads /\ "down" \in Labels
            BY Zenon DEF Threads, Labels
        <3>. QED
            BY <2>1, GotoMoves DEF Shutdown_Close, Types, TypeOK
    <2>3. m_db' \in BOOLEAN
        BY <2>1, Zenon
    <2>4. TypeOK'
        BY <2>1, <2>2, <2>3, Zenon DEF Types, TypeOK, SameMemory, SameDisk, SameReads, SameFlush
    <2>. QED
        BY <2>1, <2>2, <2>4, Zenon
<1>2. Types'
    <2>. "user" \in Threads
        BY Zenon DEF Threads
    <2>. QED
        BY <1>1, Types_Move, Zenon
           DEF ShutdownLabels, Storing, Stored, Retrieving, Responding, Scrubbing, Moves, Returns
<1>3. LockOwner'
    BY <1>1, LockOwner_Frame, Zenon DEF Moves, Returns, SameFlush, LockHeld, Threads
<1>4. Contexts'
    <2>. "user" \in Threads
        BY Zenon DEF Threads
    <2>. QED
        BY <1>1, Contexts_Outside, Zenon
           DEF Storing, Stored, Retrieving, Responding, Scrubbing, Moves, Returns, Working
<1>5. Phases'
    BY <1>1, ReturnLabel, Zenon
       DEF Phases, Threads, Moves, Returns, NoArg, Storing, Stored, Retrieving, Responding,
           Scrubbing, Deleting, Stopping, ShutdownLabels, FlushLabels
<1>6. Places'
    <2>1. /\ memory' = memory /\ reserved' = reserved /\ buffer' = buffer /\ disk' = disk
          /\ uploads' = uploads /\ fate' = fate /\ arg' = arg /\ m_db' = FALSE
        BY <1>1, Zenon DEF SameMemory, SameDisk
    <2>2. Somewhere' = Somewhere /\ AtMostOneCopy' /\ reserved' \cap Oversized = {}
        BY <2>1, Zenon DEF Somewhere, Places, AtMostOneCopy
    <2>3. NoRecordLost'
        BY <2>1, <2>2 DEF Places, NoRecordLost
    <2>5. \A u \in Threads :
              /\ pc'[u] \in Storing <=> pc[u] \in Storing
              /\ pc'[u] \in Stored <=> pc[u] \in Stored
              /\ pc'[u] \in Draining <=> pc[u] \in Draining
        BY <1>1, Zenon DEF Moves, Storing, Stored, Draining
    <2>6. BufferOwned'
        BY <2>1, <2>5, Zenon DEF Places, BufferOwned
    <2>7. \A r \in Records : Unseen(r) => Unseen(r)'
        BY <2>1, <2>2, Zenon DEF Unseen
    <2>8. \A u \in Threads : pc'[u] \in Storing => fate'[arg'[u].rec] = "storing" /\ Unseen(arg[u].rec)'
        BY <2>1, <2>2, <2>5, Zenon DEF Places, Fresh, Unseen
    <2>9. Fresh'
        BY <2>1, <2>5, <2>7, <2>8, Zenon DEF Places, Fresh
    <2>. QED
        BY <2>1, <2>2, <2>3, <2>6, <2>9, Zenon DEF Places
<1>7. Held'
    BY <1>1, Held_Same, Zenon
<1>8. Saved'
    BY <1>1, Zenon DEF Moves, Saved, FlushLabels, Draining, Flushed, SameMemory
<1>9. Arrives
    BY <1>1, Arrives_Same, Zenon DEF SameDisk
<1>10. Scrubbed'
    <2>1. ops' = ops
        BY <1>1, Zenon
    <2>2. \A q \in Records : fate'[q] = "killed" => fate[q] = "killed"
        BY <1>1, Zenon
    <2>3. ops \cap {"Flush", "Immediate"} = {} /\ pc'["worker"] \in {"ks_memory", "ks_disk"} =>
              /\ pc'["worker"] = pc["worker"] /\ arg'["worker"] = arg["worker"]
              /\ reserved' \subseteq reserved
              /\ \A q \in Records : fate'[q] = "doomed" => fate[q] = "doomed" /\ (q \in memory' => q \in memory)
        <3>1. pc["user"] = "sh_close" /\ pc'["worker"] = pc["worker"]
            BY <1>1, Zenon DEF Moves, Threads
        <3>2. m_shutdownStarted
            BY <3>1, Zenon DEF Control, Phases, Stopping, ShutdownLabels
        <3>. QED
            BY <3>1, <3>2, NoWork, Zenon DEF Control, Working, Responding, Scrubbing, Threads
    <2>. QED
        BY <1>9, <2>1, <2>2, <2>3, Scrubbed_Frame, Zenon
<1>11. Settled'
    <2>1. ops' = ops
        BY <1>1, Zenon
    <2>2. OneReader =>
              /\ uploads' = uploads /\ reserved' \subseteq reserved
              /\ memoryReadCount' \in {memoryReadCount, 1} /\ diskReadCount' = diskReadCount
              /\ m_readFromMemory' = m_readFromMemory
        BY <1>1, Zenon DEF SameReads, SameMemory
    <2>3. \A c \in Uploads : \A q \in disk' \ disk : q \notin uploads[c].ids \ Oversized
        BY <1>1, Zenon DEF SameDisk
    <2>4. pc'["worker"] \in Retrieving =>
              pc'["worker"] = pc["worker"] /\ arg'["worker"].ctx = arg["worker"].ctx
        BY <1>1, Zenon DEF Moves, Retrieving, Threads, Stored, ShutdownLabels
    <2>5. \A q \in Records : fate'[q] = "delivered" => fate[q] = "delivered"
        BY <1>1, Zenon
    <2>. QED
        BY <1>9, <2>1, <2>2, <2>3, <2>4, <2>5, Settled_Frame, Zenon
<1>12. PendingFlushHasTask'
    BY <1>1, Pending_Frame, Zenon DEF SameFlush, Moves, Returns, FlushLabels, Threads
<1>. QED
    BY <1>2, <1>3, <1>4, <1>5, <1>6, <1>7, <1>8, <1>10, <1>11, <1>12, Zenon DEF Inv, Control

\* After a restart the process is as it began, but for the disk and what became of the records.
LEMMA Restart_Keeps ==
    ASSUME Inv, Restart
    PROVE  Inv'
<1>. Control /\ Types /\ LockOwner /\ Contexts /\ Phases /\ Places /\ Held /\ Saved /\ Scrubbed /\ Settled
     /\ PendingFlushHasTask
    BY Zenon DEF Inv, Control
<1>1. /\ TypeOK'
      /\ memory' = {} /\ reserved' = {} /\ buffer' = {} /\ disk' \subseteq disk /\ m_db' = TRUE
      /\ flushLock' = "none" /\ m_flushPending' = FALSE
      /\ ops' = ops /\ m_shutdownStarted' = FALSE
      /\ \A c \in Uploads : uploads'[c].st = "free" /\ uploads'[c].ids = {}
      /\ \A t \in Threads : pc'[t] = "idle" /\ arg'[t] = NoArg
      /\ \A r \in Records :
            /\ fate[r] \notin Kept => fate'[r] = fate[r]
            /\ fate[r] \in Kept /\ r \in disk' => fate'[r] = "live"
            /\ fate[r] \in Kept /\ r \notin disk' => fate'[r] = "dropped"
    <2>1. /\ memory' = {} /\ reserved' = {} /\ buffer' = {} /\ retryCount' = retryCount
          /\ disk' \subseteq disk /\ leased' \subseteq disk' /\ expirations' = expirations /\ m_db' = TRUE
          /\ flushLock' = "none" /\ ops' = ops /\ m_tokenTime' = {}
          /\ memoryReadCount' = 0 /\ diskReadCount' = 0 /\ m_lastReadCount' = 0
        BY Zenon DEF Restart, Types, TypeOK
    <2>2. /\ m_flushPending' = FALSE /\ flushTask' = FALSE /\ m_flushComplete' = FALSE
          /\ m_readFromMemory' = FALSE /\ m_shutdownStarted' = FALSE /\ m_isRetryAfterActive' = FALSE
        BY Zenon DEF Restart
    <2>3. /\ uploads' \in [Uploads -> UploadType]
          /\ \A c \in Uploads : uploads'[c].st = "free" /\ uploads'[c].ids = {}
        BY Zenon DEF Restart, UploadType, FreeUpload
    <2>4. /\ pc' \in [Threads -> Labels] /\ arg' \in [Threads -> ArgType]
          /\ \A t \in Threads : pc'[t] = "idle" /\ arg'[t] = NoArg
        <3>. "idle" \in Labels /\ NoArg \in ArgType
            BY Zenon DEF Labels, NoArg, ArgType
        <3>. QED
            BY Zenon DEF Restart
    <2>5. /\ fate' \in [Records -> Fates]
          /\ \A r \in Records :
                /\ fate[r] \notin Kept => fate'[r] = fate[r]
                /\ fate[r] \in Kept /\ r \in disk' => fate'[r] = "live"
                /\ fate[r] \in Kept /\ r \notin disk' => fate'[r] = "dropped"
        <3>. fate \in [Records -> Fates] /\ "live" \in Fates /\ "dropped" \in Fates
            BY Zenon DEF Types, TypeOK, Fates, Kept
        <3>. QED
            BY Zenon DEF Restart
    <2>6. TypeOK'
        <3>1. /\ m_flushPending' \in BOOLEAN /\ flushTask' \in BOOLEAN /\ m_flushComplete' \in BOOLEAN
              /\ m_readFromMemory' \in BOOLEAN /\ m_shutdownStarted' \in BOOLEAN
              /\ m_isRetryAfterActive' \in BOOLEAN /\ m_db' \in BOOLEAN
            BY <2>1, <2>2, Zenon
        <3>2. memoryReadCount' \in 0..1 /\ diskReadCount' \in 0..1 /\ m_lastReadCount' \in 0..1
            BY <2>1
        <3>3. /\ memory' \subseteq Records /\ reserved' \subseteq Records /\ buffer' \subseteq Records
              /\ m_tokenTime' \subseteq Tenants /\ flushLock' \in Threads \cup {"none"}
            BY <2>1, Zenon
        <3>4. /\ pc' \in [Threads -> Labels] /\ arg' \in [Threads -> ArgType]
              /\ uploads' \in [Uploads -> UploadType] /\ fate' \in [Records -> Fates]
            BY <2>3, <2>4, <2>5, Zenon
        <3>5. /\ disk' \subseteq Records /\ leased' \subseteq disk' /\ expirations' \in 0..MaxExpired
              /\ retryCount' = retryCount
            BY <2>1, Zenon DEF Types, TypeOK
        <3>. QED
            BY <3>1, <3>2, <3>3, <3>4, <3>5, Zenon DEF Types, TypeOK, ArgType, UploadType
    <2>. QED
        BY <2>1, <2>2, <2>3, <2>4, <2>5, <2>6, Zenon
<1>2. Types'
    BY <1>1, Zenon DEF Types, Storing, Stored, Retrieving, Responding, Scrubbing, Moves, Returns
<1>3. LockOwner'
    BY <1>1, Zenon DEF LockOwner, LockHeld, Threads
<1>4. Contexts'
    BY <1>1, Zenon DEF Contexts, NoUploads, Retrieving, Responding, Scrubbing
<1>5. Phases'
    <2>1. /\ pc'["user"] = "idle" /\ pc'["worker"] = "idle" /\ pc'["app"] = "idle"
          /\ \A t \in Threads : pc'[t] = "idle" /\ arg'[t] = NoArg
          /\ m_shutdownStarted' = FALSE /\ m_db' = TRUE
        BY <1>1, Zenon DEF Threads
    <2>2. NoArg.cont = "idle" /\ "idle" # "sh_close"
        BY Zenon DEF NoArg
    <2>3. /\ "idle" \notin Stopping \cup FlushLabels /\ "idle" \notin Retrieving \cup Responding
          /\ "idle" \notin Deleting /\ "idle" \notin Scrubbing
        BY Zenon DEF Retrieving, Responding, Scrubbing, Deleting, Stopping, ShutdownLabels, FlushLabels
    <2>4. arg'["user"] = NoArg /\ arg'["worker"] = NoArg /\ arg'["app"] = NoArg
        BY <2>1, Zenon DEF Threads
    <2>5. m_shutdownStarted' <=> pc'["user"] \in Stopping \cup FlushLabels
        BY <2>1, <2>3, Zenon
    <2>6. pc'["user"] \in FlushLabels <=> arg'["user"].cont = "sh_close"
        BY <2>1, <2>2, <2>3, <2>4, Zenon
    <2>. QED
        BY <2>1, <2>2, <2>3, <2>4, <2>5, <2>6, Zenon DEF Phases
<1>6. Places'
    <2>1. /\ memory' = {} /\ reserved' = {} /\ buffer' = {} /\ disk' \subseteq disk
          /\ \A c \in Uploads : uploads'[c].ids = {}
          /\ \A t \in Threads : pc'[t] = "idle"
        BY <1>1, Zenon
    <2>2. \A r \in Records :
                 /\ fate[r] \notin Kept => fate'[r] = fate[r]
                 /\ fate[r] \in Kept /\ r \in disk' => fate'[r] = "live"
                 /\ fate[r] \in Kept /\ r \notin disk' => fate'[r] = "dropped"
        BY <1>1, Zenon
    <2>3. Somewhere' = disk'
        BY <2>1, Zenon DEF Somewhere
    <2>4. NoRecordLost'
        BY <2>2, <2>3, Zenon DEF NoRecordLost, Kept
    <2>5. \A r \in Records : fate'[r] = "new" => Unseen(r)'
        <3>1. \A r \in Records : fate'[r] = "new" => fate[r] = "new"
            BY <2>2, Zenon DEF Kept
        <3>2. \A r \in Records : Unseen(r) => Unseen(r)'
            BY <2>1, <2>3, Zenon DEF Unseen, Somewhere
        <3>. QED
            BY <3>1, <3>2, Zenon DEF Places, Fresh
    <2>6. \A t \in Threads : pc'[t] \notin Storing \cup Stored
        BY <2>1, Zenon DEF Storing, Stored
    <2>7. Fresh'
        BY <2>5, <2>6, Zenon DEF Fresh
    <2>8. BufferOwned' /\ AtMostOneCopy' /\ reserved' \cap Oversized = {}
        BY <2>1, Zenon DEF BufferOwned, AtMostOneCopy
    <2>. QED
        BY <2>4, <2>6, <2>7, <2>8, Zenon DEF Places
<1>7. Held'
    <2>1. \A d \in Uploads : uploads'[d].ids = {}
        BY <1>1, Zenon
    <2>. QED
        BY <2>1, Zenon DEF Held
<1>8. Saved'
    <2> SUFFICES ASSUME m_shutdownStarted' PROVE Saved'
        BY <1>5, Saved_Early, Zenon
    <2>. QED
        BY <1>1, Zenon
<1>9. Arrives
    BY <1>1, Zenon DEF Arrives, Somewhere
<1>10. Scrubbed'
    <2>1. ops' = ops
        BY <1>1, Zenon DEF SameRun
    <2>2. \A q \in Records : fate'[q] = "killed" => fate[q] = "killed"
        BY <1>1, Zenon
    <2>3. ops \cap {"Flush", "Immediate"} = {} /\ pc'["worker"] \in {"ks_memory", "ks_disk"} =>
              /\ pc'["worker"] = pc["worker"] /\ arg'["worker"] = arg["worker"]
              /\ reserved' \subseteq reserved
              /\ \A q \in Records : fate'[q] = "doomed" => fate[q] = "doomed" /\ (q \in memory' => q \in memory)
        BY <1>1, Zenon DEF Moves, Threads
    <2>. QED
        BY <1>9, <2>1, <2>2, <2>3, Scrubbed_Frame, Zenon
<1>11. Settled'
    <2>1. /\ ops' = ops /\ reserved' = {} /\ memory' = {} /\ buffer' = {} /\ disk' \subseteq disk
          /\ \A c \in Uploads : uploads'[c].st = "free"
          /\ pc'["worker"] = "idle"
          /\ \A r \in Records : fate'[r] = "delivered" => fate[r] = "delivered"
        BY <1>1, Zenon DEF Threads
    <2>2. OneReader => OneReaderSettles'
        BY <1>9, <2>1, Zenon DEF Settled, OneReaderSettles, Arrives, OneReader
    <2>. QED
        BY <2>1, <2>2, Zenon DEF Settled, Answered, OneReader
<1>12. PendingFlushHasTask'
    <2>. ~m_flushPending'
        BY <1>1, Zenon
    <2>. QED
        BY Zenon DEF PendingFlushHasTask
<1>. QED
    BY <1>2, <1>3, <1>4, <1>5, <1>6, <1>7, <1>8, <1>10, <1>11, <1>12, Zenon DEF Inv, Control

\* Nor does a step that changes nothing.
LEMMA Stutter_Keeps ==
    ASSUME Inv, UNCHANGED vars
    PROVE  Inv'
<1>. Control /\ Types /\ LockOwner /\ Contexts /\ Phases /\ Places /\ Held /\ Saved /\ Scrubbed /\ Settled
     /\ PendingFlushHasTask
    BY Zenon DEF Inv, Control
<1>2. Types'
    BY Zenon DEF vars, Types, TypeOK, memoryVars, diskVars, flushVars, readVars, killVars
<1>3. LockOwner'
    BY Zenon DEF vars, LockOwner, flushVars
<1>4. Contexts'
    BY Contexts_Frame, Zenon DEF vars
<1>5. Phases'
    BY Zenon DEF vars, diskVars, Phases
<1>6. Places'
    <2>1. Moved /\ Fated
        BY Moved_Same, Fated_Same, Zenon DEF vars, memoryVars, diskVars, flushVars, killVars, SameMemory
    <2>2. BufferOwned'
        BY Zenon DEF vars, flushVars, Places, BufferOwned
    <2>. QED
        BY <2>1, <2>2, Places_Frame, Zenon DEF vars, diskVars, Control, Types
<1>7. Held'
    BY Held_Same, Zenon DEF vars, memoryVars, diskVars, flushVars, killVars, SameMemory, SameDisk
<1>8. Saved'
    <2> SUFFICES ASSUME m_shutdownStarted' PROVE Saved'
        BY <1>5, Saved_Early, Zenon
    <2>. QED
        BY Saved_Frame, Zenon DEF vars, memoryVars, flushVars
<1>9. Arrives
    BY Arrives_Same, Zenon DEF vars, memoryVars, diskVars, flushVars, killVars, SameMemory
<1>10. Scrubbed'
    BY Zenon DEF vars, memoryVars, diskVars, flushVars, Scrubbed, Somewhere, ScrubKey
<1>11. Settled'
    BY Zenon
       DEF vars, memoryVars, diskVars, flushVars, readVars, killVars, Settled, OneReaderSettles, OneReader, Located,
           Somewhere
<1>12. PendingFlushHasTask'
    BY Pending_Frame, Zenon DEF vars, flushVars
<1>. QED
    BY <1>2, <1>3, <1>4, <1>5, <1>6, <1>7, <1>8, <1>10, <1>11, <1>12, Zenon DEF Inv, Control
=============================================================================
