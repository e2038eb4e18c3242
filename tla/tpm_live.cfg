SPECIFICATION FairSpec
CONSTANTS
    e1 = e1
    e2 = e2
    e3 = e3
    a1 = a1
    a2 = a2
    a3 = a3
    a4 = a4
    c1 = c1
    c2 = c2
    c3 = c3
    c4 = c4
    Events = {e1}
    Latency <- MCLatency1
    Tasks = {a1, a2}
    NoTask = NoTask
    Uploads = {c1, c2}
    NoUpload = NoUpload
    MaxPendingReq = 4
    Profiles <- DefaultProfile
    MaxQueued = 0
    Ops = {"UploadNow", "Stop"}
    CancelTimesOut = TRUE
    HeapReuses = FALSE
INVARIANTS
    StopLeavesNoScheduledUploads
PROPERTIES
    StoredIsUploaded
    UploadsComplete
    CallsReturn
