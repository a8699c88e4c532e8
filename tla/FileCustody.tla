----------------------------- MODULE FileCustody -----------------------------
(***************************************************************************)
(* Files from upload to download: the bytes on disk, the FileObject row,   *)
(* the links and shares that keep a file, the scan that releases it and    *)
(* the clean-up of staged uploads.  files.service.ts, storage.ts,          *)
(* task-attachments.service.ts, the attachment handlers of                 *)
(* task-compatibility.service.ts, shareFile and revokeFileShare of         *)
(* feed.service.ts, and two handlers of jobs.service.ts.                   *)
(*                                                                         *)
(* Disk and database share no transaction: an upload and a job go through  *)
(* steps, and a process can stop between any two.  How a job is claimed    *)
(* and retried is JobQueue's subject; here a job that fails or is cut      *)
(* short is queued again until its attempts are used up, and one job runs  *)
(* at a time, as in the one worker process the runbook asks for.  FileLink *)
(* has no foreign key, FeedFileShare has one that restricts deletion.      *)
(* Left out: companies, the detected type and size, and who is in an       *)
(* audience (one colleague who is in all of them stands for the readers).  *)
(***************************************************************************)
EXTENDS Integers, FiniteSets

CONSTANTS
    Files, Shares, Comments,
    Slots, Idle,
    MaxRequests,   \* bound on started requests
    MaxAttempts,   \* BackgroundJob.maxAttempts
    MaxCuts        \* bound on processes that stop in mid-step

VARIABLES
    row,      \* FileObject.scanStatus, "NONE" when there is no row
    held,     \* files with bytes in the quarantine directory
    stored,   \* files with bytes in the storage directory
    aged,     \* files whose row is older than the 24 hours of staging
    link,     \* FileLink rows: <<file, target>>
    share,    \* per FeedFileShare: its file and status
    job,      \* per kind and file: the background job
    req,      \* per slot, the request between two of its steps
    late,     \* files linked or shared while a clean-up was past its checks
    cut,      \* jobs a stopped process has interrupted: <<kind, file>>
    started, cuts,
    serial    \* requests do not overlap in this behaviour

disk == <<held, stored>>
data == <<row, aged, link, share>>
vars == <<disk, data, job, req, late, cut, started, cuts, serial>>

Kinds   == {"file.scan", "file.staged.cleanup"}
Targets == {"TASK", "OTHER"} \cup Comments \* OTHER: a message, post or document
Steps   == {"read", "promote", "mark", "links", "kept", "bytes", "row"}
NoJob   == [state |-> "NONE", step |-> "read", attempts |-> 0]

Links(f)  == {t \in Targets : <<f, t>> \in link}
Sharing(f, states) == {h \in Shares : share[h].file = f /\ share[h].status \in states}
Clean(f)  == job["file.staged.cleanup"][f]
Scan(f)   == job["file.scan"][f]

Init ==
    /\ row = [f \in Files |-> "NONE"]
    /\ held = {} /\ stored = {} /\ aged = {} /\ link = {} /\ late = {} /\ cut = {}
    /\ share = [h \in Shares |-> [file |-> Idle, status |-> "NONE"]]
    /\ job = [k \in Kinds |-> [f \in Files |-> NoJob]]
    /\ req = [s \in Slots |-> Idle]
    /\ started = 0 /\ cuts = 0 /\ serial \in BOOLEAN

-----------------------------------------------------------------------------
(* Requests.  M_ definitions are deliberate mistakes that stand in for the *)
(* definition after them to show what a property catches.                  *)

Free(s) ==
    /\ started < MaxRequests
    /\ req[s] = Idle /\ s = CHOOSE o \in Slots : req[o] = Idle \* slots are alike
    /\ serial => \A o \in Slots : req[o] = Idle

Start(s, r) == started' = started + 1 /\ req' = [req EXCEPT ![s] = r]
Go(s, step) == req' = [req EXCEPT ![s].step = step] /\ UNCHANGED started
End(s)      == req' = [req EXCEPT ![s] = Idle] /\ UNCHANGED started
At(s, op, step) == req[s] # Idle /\ req[s].op = op /\ req[s].step = step

\* persistUpload, called by upload (a draft's file), stageTaskUpload and
\* uploadAttachment (straight to a task): bytes, row, job, in that order.
BeginUpload(s) == \E f \in Files, mode \in {"PLAIN", "STAGED", "TASK"} :
    /\ row[f] = "NONE" /\ Scan(f) = NoJob /\ f \notin held
    /\ \A o \in Slots \ {s} : req[o] # Idle => req[o].file # f
    /\ held' = held \cup {f}
    /\ Start(s, [op |-> "upload", file |-> f, mode |-> mode, step |-> "row"])
    /\ UNCHANGED <<stored, data, job, late, cut, cuts, serial>>

UploadRow(s) ==
    /\ At(s, "upload", "row")
    /\ row' = [row EXCEPT ![req[s].file] = "QUARANTINED"]
    /\ Go(s, "scan")
    /\ UNCHANGED <<disk, aged, link, share, job, late, cut, cuts, serial>>

Enqueue(kind, f) == job' = [job EXCEPT ![kind][f].state = "QUEUED"]

UploadScan(s) ==
    /\ At(s, "upload", "scan")
    /\ Enqueue("file.scan", req[s].file)
    /\ IF req[s].mode = "PLAIN" THEN End(s) ELSE Go(s, req[s].mode)
    /\ UNCHANGED <<disk, data, late, cut, cuts, serial>>

StageCleanup(s) ==
    /\ At(s, "upload", "STAGED")
    /\ Enqueue("file.staged.cleanup", req[s].file)
    /\ End(s)
    /\ UNCHANGED <<disk, data, late, cut, cuts, serial>>

\* What a clean-up that is past its checks, or done, can no longer notice.
Overlooked(f) ==
    \/ Clean(f).state = "RUNNING" /\ Clean(f).step # "read"
    \/ f \notin held \cup stored
    \/ row[f] = "NONE"
Notice(f) == late' = IF Overlooked(f) THEN late \cup {f} ELSE late

UploadLink(s) ==
    /\ At(s, "upload", "TASK")
    /\ link' = link \cup {<<req[s].file, "TASK">>}
    /\ Notice(req[s].file)
    /\ End(s)
    /\ UNCHANGED <<disk, row, aged, share, job, cut, cuts, serial>>

Seen(f, t) == [op |-> "attach", file |-> f, to |-> t, step |-> "commit"]

\* assertAttachable: a message, a post or a document takes any file of its
\* owner that has a row.
Attachable(f) == row[f] # "NONE"

\* assertTaskStagedAttachments: a new task takes fresh files nothing links to.
StagedAttachable(f) == row[f] # "NONE" /\ f \notin aged /\ Links(f) = {}

\* createComment: a comment takes files of its task.
OnTask(f) == <<f, "TASK">> \in link

BeginAttach(s) == \E f \in Files, t \in Targets :
    /\ CASE t = "TASK"     -> StagedAttachable(f)
         [] t = "OTHER"    -> Attachable(f)
         [] t \in Comments -> OnTask(f) /\ <<f, t>> \notin link
    /\ Start(s, Seen(f, t))
    /\ UNCHANGED <<disk, data, job, late, cut, cuts, serial>>

\* linkMany looks again, inside the transaction, for links of its files.
CommitAttach(s) == LET f == req[s].file IN
    /\ At(s, "attach", "commit")
    /\ req[s].to = "TASK" => Links(f) = {}
    /\ link' = link \cup {<<f, req[s].to>>}
    /\ Notice(f)
    /\ End(s)
    /\ UNCHANGED <<disk, row, aged, share, job, cut, cuts, serial>>

\* removeAttachment reads the link and the comments of the task, then deletes
\* the link and those of the comments it has read.
BeginDetach(s) == \E f \in Files :
    /\ OnTask(f) /\ row[f] # "NONE"
    /\ Start(s, [op |-> "detach", file |-> f, step |-> "commit", seen |-> Links(f) \cap Comments])
    /\ UNCHANGED <<disk, data, job, late, cut, cuts, serial>>

M_CommitDetach(s) == LET f == req[s].file IN
    /\ At(s, "detach", "commit") /\ OnTask(f)
    /\ link' = link \ {<<f, "TASK">>}
    /\ End(s)
    /\ UNCHANGED <<disk, row, aged, share, job, late, cut, cuts, serial>>

CommitDetach(s) == LET f == req[s].file IN
    /\ At(s, "detach", "commit") /\ OnTask(f)
    /\ link' = link \ ({<<f, "TASK">>} \cup {<<f, c>> : c \in req[s].seen})
    /\ End(s)
    /\ UNCHANGED <<disk, row, aged, share, job, late, cut, cuts, serial>>

\* shareFile with one audience: a share of it that is active is answered.
BeginShare(s) == \E f \in Files :
    /\ row[f] # "NONE"
    /\ Sharing(f, {"ACTIVE"}) = {}
    /\ Start(s, [op |-> "share", file |-> f, step |-> "commit"])
    /\ UNCHANGED <<disk, data, job, late, cut, cuts, serial>>

CommitShare(s) == \E h \in Shares :
    /\ At(s, "share", "commit")
    /\ row[req[s].file] # "NONE"
    /\ share[h].status = "NONE"
    /\ h = CHOOSE new \in Shares : share[new].status = "NONE" \* ids are alike
    /\ share' = [share EXCEPT ![h] = [file |-> req[s].file, status |-> "ACTIVE"]]
    /\ Notice(req[s].file)
    /\ End(s)
    /\ UNCHANGED <<disk, row, aged, link, job, cut, cuts, serial>>

BeginRevoke(s) == \E h \in Shares :
    /\ share[h].status = "ACTIVE"
    /\ Start(s, [op |-> "revoke", file |-> share[h].file, share |-> h, step |-> "commit"])
    /\ UNCHANGED <<disk, data, job, late, cut, cuts, serial>>

CommitRevoke(s) ==
    /\ At(s, "revoke", "commit")
    /\ share[req[s].share].status = "ACTIVE"
    /\ share' = [share EXCEPT ![req[s].share].status = "REVOKED"]
    /\ End(s)
    /\ UNCHANGED <<disk, row, aged, link, job, late, cut, cuts, serial>>

\* A commit whose condition no longer holds changes nothing and answers an error.
Refuse(s) ==
    /\ \/ At(s, "attach", "commit") /\ req[s].to = "TASK" /\ Links(req[s].file) # {}
       \/ At(s, "detach", "commit") /\ ~OnTask(req[s].file)
       \/ At(s, "share", "commit") /\ row[req[s].file] = "NONE"
       \/ At(s, "revoke", "commit") /\ share[req[s].share].status = "REVOKED"
    /\ End(s)
    /\ UNCHANGED <<disk, data, job, late, cut, cuts, serial>>

\* The process stops while it serves the request.
Abandon(s) ==
    /\ req[s] # Idle /\ cuts < MaxCuts
    /\ cuts' = cuts + 1
    /\ End(s)
    /\ UNCHANGED <<disk, data, job, late, cut, serial>>

-----------------------------------------------------------------------------
(* The jobs.                                                               *)

AtStep(k, f, step) == job[k][f].state = "RUNNING" /\ job[k][f].step = step
Step(k, f, step)   == job' = [job EXCEPT ![k][f].step = step]
Succeed(k, f)      == job' = [job EXCEPT ![k][f].state = "SUCCEEDED", ![k][f].step = "read"]
Fail(k, f) == job' = [job EXCEPT ![k][f].step = "read", ![k][f].state =
                        IF job[k][f].attempts >= MaxAttempts THEN "FAILED" ELSE "QUEUED"]

\* The clean-up is queued to run a day after the upload.
Claim(k, f) ==
    /\ job[k][f].state = "QUEUED"
    /\ \A k2 \in Kinds, f2 \in Files : job[k2][f2].state # "RUNNING"
    /\ k = "file.staged.cleanup" => f \in aged
    /\ job' = [job EXCEPT ![k][f] = [state |-> "RUNNING", step |-> "read", attempts |-> @.attempts + 1]]
    /\ UNCHANGED <<disk, data, req, late, cut, started, cuts, serial>>

\* markDevelopmentScan: the row is read, the bytes are moved (which fails when
\* quarantine has none), the row is marked.
ScanRead(f) ==
    /\ AtStep("file.scan", f, "read")
    /\ IF row[f] = "NONE" THEN Fail("file.scan", f) ELSE Step("file.scan", f, "promote")
    /\ UNCHANGED <<disk, data, req, late, cut, started, cuts, serial>>

M_ScanPromote(f) ==
    /\ AtStep("file.scan", f, "promote") /\ f \in held
    /\ stored' = stored \cup {f} /\ Step("file.scan", f, "mark")
    /\ UNCHANGED <<held, data, req, late, cut, started, cuts, serial>>

ScanPromote(f) ==
    /\ AtStep("file.scan", f, "promote")
    /\ IF f \in held
       THEN held' = held \ {f} /\ stored' = stored \cup {f} /\ Step("file.scan", f, "mark")
       ELSE Fail("file.scan", f) /\ UNCHANGED disk
    /\ UNCHANGED <<data, req, late, cut, started, cuts, serial>>

ScanMark(f) ==
    /\ AtStep("file.scan", f, "mark")
    /\ row' = [row EXCEPT ![f] = "CLEAN"]
    /\ Succeed("file.scan", f)
    /\ UNCHANGED <<disk, aged, link, share, req, late, cut, started, cuts, serial>>

\* cleanupStagedFile: the row with its active shares, then the links, and when
\* there is neither, the bytes and then the row, which any share forbids.
CleanRead(f) ==
    /\ AtStep("file.staged.cleanup", f, "read")
    /\ IF row[f] = "NONE" THEN Succeed("file.staged.cleanup", f)
       ELSE Step("file.staged.cleanup", f, IF Sharing(f, {"ACTIVE"}) = {} THEN "links" ELSE "kept")
    /\ UNCHANGED <<disk, data, req, late, cut, started, cuts, serial>>

M_CleanLinks(f) ==
    /\ \E step \in {"links", "kept"} : AtStep("file.staged.cleanup", f, step)
    /\ IF Clean(f).step = "kept"
       THEN Succeed("file.staged.cleanup", f) ELSE Step("file.staged.cleanup", f, "bytes")
    /\ UNCHANGED <<disk, data, req, late, cut, started, cuts, serial>>

CleanLinks(f) ==
    /\ \E step \in {"links", "kept"} : AtStep("file.staged.cleanup", f, step)
    /\ IF Clean(f).step = "kept" \/ Links(f) # {}
       THEN Succeed("file.staged.cleanup", f) ELSE Step("file.staged.cleanup", f, "bytes")
    /\ UNCHANGED <<disk, data, req, late, cut, started, cuts, serial>>

\* deleteStoredFile removes the bytes from both directories.
CleanBytes(f) ==
    /\ AtStep("file.staged.cleanup", f, "bytes")
    /\ held' = held \ {f} /\ stored' = stored \ {f}
    /\ Step("file.staged.cleanup", f, "row")
    /\ UNCHANGED <<data, req, late, cut, started, cuts, serial>>

M_CleanRow(f) ==
    /\ AtStep("file.staged.cleanup", f, "row")
    /\ Succeed("file.staged.cleanup", f)
    /\ row' = IF Sharing(f, {"ACTIVE", "REVOKED"}) = {} THEN [row EXCEPT ![f] = "NONE"] ELSE row
    /\ UNCHANGED <<disk, aged, link, share, req, late, cut, started, cuts, serial>>

CleanRow(f) ==
    /\ AtStep("file.staged.cleanup", f, "row")
    /\ IF Sharing(f, {"ACTIVE", "REVOKED"}) = {}
       THEN row' = [row EXCEPT ![f] = "NONE"] /\ Succeed("file.staged.cleanup", f)
       ELSE Fail("file.staged.cleanup", f) /\ UNCHANGED row
    /\ UNCHANGED <<disk, aged, link, share, req, late, cut, started, cuts, serial>>

Cut(k, f) ==
    /\ job[k][f].state = "RUNNING" /\ cuts < MaxCuts
    /\ cuts' = cuts + 1 /\ cut' = cut \cup {<<k, f>>}
    /\ Fail(k, f)
    /\ UNCHANGED <<disk, data, req, late, started, serial>>

Age(f) ==
    /\ row[f] # "NONE" /\ f \notin aged
    /\ aged' = aged \cup {f}
    /\ UNCHANGED <<disk, row, link, share, job, req, late, cut, started, cuts, serial>>

Begin(s) == \/ BeginUpload(s) \/ BeginAttach(s) \/ BeginDetach(s) \/ BeginShare(s) \/ BeginRevoke(s)
Proceed(s) == \/ UploadRow(s) \/ UploadScan(s) \/ StageCleanup(s) \/ UploadLink(s)
              \/ CommitAttach(s) \/ CommitDetach(s) \/ CommitShare(s) \/ CommitRevoke(s)
              \/ Refuse(s) \/ Abandon(s)
Work(f) == \/ ScanRead(f) \/ ScanPromote(f) \/ ScanMark(f)
           \/ CleanRead(f) \/ CleanLinks(f) \/ CleanBytes(f) \/ CleanRow(f)
           \/ Age(f) \/ \E k \in Kinds : Claim(k, f) \/ Cut(k, f)

Next == \/ \E s \in Slots : (Free(s) /\ Begin(s)) \/ Proceed(s)
        \/ \E f \in Files : Work(f)
Spec == Init /\ [][Next]_vars

-----------------------------------------------------------------------------
TypeOK ==
    /\ row \in [Files -> {"NONE", "QUARANTINED", "CLEAN"}]
    /\ held \subseteq Files /\ stored \subseteq Files /\ aged \subseteq Files
    /\ held \cap stored = {}
    /\ link \subseteq Files \X Targets
    /\ \A h \in Shares : share[h].status = "NONE" \/ share[h].file \in Files
    /\ \A k \in Kinds, f \in Files : job[k][f] \in
         [state : {"NONE", "QUEUED", "RUNNING", "SUCCEEDED", "FAILED"}, step : Steps, attempts : 0 .. MaxAttempts]

\* What authorizedFile lets the colleague read: through an active share or
\* through what the file is linked to.  A comment's file is the task's.
Shown(f) == row[f] # "NONE" /\ (Sharing(f, {"ACTIVE"}) # {} \/ Links(f) # {})

\* download asks for CLEAN, then reads the storage directory.
Served(f) == Shown(f) /\ row[f] = "CLEAN" /\ f \in stored

\* A file that something links to or that is shared is not deleted and, once
\* it is CLEAN, it can be downloaded, unless the link or the share was written
\* while a clean-up that had found none was at work (jobs.service.ts:313).
LinkedFilesKept == \A f \in Files \ late :
    Links(f) # {} \/ Sharing(f, {"ACTIVE"}) # {} =>
        Shown(f) /\ f \in held \cup stored /\ (row[f] = "CLEAN" => Served(f))

\* Without overlapping requests a comment shows only files of its task (the
\* removal takes them from the comments as well), and a file has one active
\* share for an audience (no unique index says so).
SerialLinks == serial => \A f \in Files :
    /\ Links(f) \cap Comments # {} => OnTask(f)
    /\ Cardinality(Sharing(f, {"ACTIVE"})) <= 1

\* What can be left broken, and by what.  A scan fails for good only when a
\* stopped process has cut an attempt or the clean-up has taken the file; a
\* row outlives its bytes while its clean-up is unfinished, and for good only
\* when something was linked meanwhile, when the file has ever been shared
\* (which forbids deleting the row once the bytes are gone), or by cut attempts.
BrokenFilesExplained == \A f \in Files :
    /\ Scan(f).state = "FAILED" => <<"file.scan", f>> \in cut \/ f \notin held \cup stored
    /\ row[f] # "NONE" /\ f \notin held \cup stored =>
         /\ Clean(f).state = "SUCCEEDED" => f \in late
         /\ Clean(f).state = "FAILED" => Sharing(f, {"ACTIVE", "REVOKED"}) # {}
                                         \/ <<"file.staged.cleanup", f>> \in cut
=============================================================================
