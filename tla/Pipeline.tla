------------------------------ MODULE Pipeline ------------------------------
(***************************************************************************)
(* The life of a video from the first byte to the HLS master: the tusd     *)
(* hook goroutine (upload/tus.go, upload/validation.go), the bounded       *)
(* transcode queue and its workers (transcode/queue.go, worker.go), the    *)
(* killer and requeue jobs (jobs/killer.go, requeue.go), the recovery that *)
(* runs at boot (transcode/recovery.go) and a process that may crash       *)
(* between any two of their steps.                                         *)
(*                                                                         *)
(* The database has one connection, so one SQL statement is one step. But  *)
(* models.UpdateStatus is two: it reads the status to validate the         *)
(* transition and then writes WHERE video_id = ?, whatever the status has  *)
(* become. Each goroutine is a thread with a program point `at`; a point   *)
(* "x?" is the read of an UpdateStatus and "x!" is its write.              *)
(***************************************************************************)
EXTENDS Naturals, Sequences, FiniteSets, Functions, VideoStatus

CONSTANTS
    Videos,       \* rows of the videos table
    Workers,      \* the TRANSCODE_WORKERS goroutines
    NoVideo,      \* what an idle thread works on
    QueueMaxSize,
    MaxTranscodeAttempts,
    KeepOriginal,
    MaxUploads,   \* bound: TUS creations (POST) per video
    MaxCrashes,   \* bound: crashes of the process
    Orderly,      \* whether no timeout runs out between two statements, and a
                  \* client sends a video once (see MayTimeOut and ClientPresent)
    Quick         \* videos that wait in the queue and are encoded within the timeout

ASSUME PipelineAssumption ==
    /\ NoVideo \notin Videos
    /\ Workers \cap {"hook", "killer", "requeue", "boot"} = {}
    /\ QueueMaxSize \in Nat \ {0}
    /\ MaxTranscodeAttempts \in Nat \ {0}
    /\ MaxUploads \in Nat
    /\ MaxCrashes \in Nat
    /\ KeepOriginal \in BOOLEAN
    /\ Orderly \in BOOLEAN
    /\ Quick \subseteq Videos

VARIABLES
    phase,       \* of the process: "down", "recovering" or "running"
    crashes,
    \* the database
    status, attempts,
    described,   \* videos whose duration and resolutions are recorded
    \* the disk
    file,        \* the uploaded original under UploadTmpDir
    published,   \* videos with a master.m3u8 under MediaDir
    \* the memory of the process
    queue,       \* the buffered channel of video IDs
    rows,        \* rows a scan has selected and not yet processed
    idleRows,    \* videos the killer has selected and not yet processed
    at, vid,     \* each thread's program point and the video it works on
    snap,        \* attempts a worker read when it took its video
    \* tusd and its clients
    progressEv, completeEv,  \* events whose senders wait for the hook goroutine
    uploads,
    \* what the outside was told
    told

vars == << phase, crashes, status, attempts, described, file, published,
           queue, rows, idleRows, at, vid, snap, progressEv, completeEv,
           uploads, told >>

db == << status, attempts, described >>
disk == << file, published >>
scans == << rows, idleRows >>
tus == << progressEv, completeEv, uploads >>
process == << phase, crashes >>

Threads == Workers \cup {"hook", "killer", "requeue", "boot"}

Points == { "idle",
    "touch!", "complete?", "complete!", "tell_processing",
    "reject?", "reject!", "discard",
    "kill?", "kill!",
    "restore?", "restore!", "enqueue?", "enqueue!", "send",
    "rollback?", "rollback!",
    "load", "claim?", "claim!", "encode", "publish",
    "ready?", "ready!", "describe", "finish",
    "count", "fail?", "fail!", "tell_failed" }

\* A row of the scans that look for videos to put back in the queue.
Row == [v : Videos, s : {"upload_complete", "transcoding"}, a : Nat]

\* "empty" and "partial" are uploads in progress; "good" and "bad" hold every
\* byte, and pass or fail the validation of HandlePostFinish.
Contents == {"none", "empty", "partial", "good", "bad"}

TypeOK ==
    /\ phase \in {"down", "recovering", "running"}
    /\ crashes \in 0..MaxCrashes
    /\ status \in [Videos -> Statuses]
    /\ attempts \in [Videos -> Nat]
    /\ described \subseteq Videos
    /\ file \in [Videos -> Contents]
    /\ published \subseteq Videos
    /\ queue \in Seq(Videos) /\ Len(queue) <= QueueMaxSize
    /\ rows \in [{"requeue", "boot"} -> SUBSET Row]
    /\ idleRows \subseteq Videos
    /\ at \in [Threads -> Points]
    /\ vid \in [Threads -> Videos \cup {NoVideo}]
    /\ \A t \in Threads : at[t] # "idle" => vid[t] \in Videos
    /\ snap \in [Workers -> Nat]
    /\ progressEv \subseteq Videos
    /\ completeEv \subseteq Videos
    /\ uploads \in [Videos -> 0..MaxUploads]
    /\ told \in [Videos -> SUBSET {"processing", "ready", "failed"}]

-----------------------------------------------------------------------------
(* Steps that several goroutines share.                                    *)

Idle(t) == at[t] = "idle"

\* Thread t goes on to point p with the same video, and forgets it when done.
Goto(t, p) ==
    /\ at' = [at EXCEPT ![t] = p]
    /\ vid' = IF p = "idle" THEN [vid EXCEPT ![t] = NoVideo] ELSE vid
    /\ snap' = IF p = "idle" /\ t \in Workers THEN [snap EXCEPT ![t] = 0] ELSE snap

\* Thread t takes up video v at point p.
Begin(t, p, v) ==
    /\ at' = [at EXCEPT ![t] = p]
    /\ vid' = [vid EXCEPT ![t] = v]
    /\ UNCHANGED snap

\* Bug: the status is written without looking at the transition table.
Bug_Check(t, from, to, valid, invalid) ==
    /\ at[t] = from
    /\ Goto(t, valid)
    /\ UNCHANGED << process, db, disk, queue, scans, tus, told >>

\* The read of UpdateStatus: is `to` a valid transition from what is there?
Check(t, from, to, valid, invalid) ==
    /\ at[t] = from
    /\ Goto(t, IF IsValidTransition(status[vid[t]], to) THEN valid ELSE invalid)
    /\ UNCHANGED << process, db, disk, queue, scans, tus, told >>

\* The write of UpdateStatus: UPDATE videos SET status = to WHERE video_id = v.
Write(t, from, to, next) ==
    /\ at[t] = from
    /\ status' = [status EXCEPT ![vid[t]] = to]
    /\ Goto(t, next)
    /\ UNCHANGED << process, attempts, described, disk, queue, scans, tus, told >>

\* The notifier is called with an event about t's video.
Tell(t, from, event) ==
    /\ at[t] = from
    /\ told' = [told EXCEPT ![vid[t]] = @ \cup {event}]
    /\ Goto(t, "idle")
    /\ UNCHANGED << process, db, disk, queue, scans, tus >>

\* A goroutine of the process works on v, or the queue or an event holds it.
Held(v) ==
    \/ v \in Range(queue)
    \/ v \in progressEv \cup completeEv
    \/ \E t \in Threads : vid[t] = v

-----------------------------------------------------------------------------
(* tusd and its clients (external): what reaches the hook goroutine.       *)

\* Some goroutine is between two statements about v, or will soon be: all that is
\* done with a video is short but its wait in the queue and its encoding.
Passing(v) ==
    \/ v \in progressEv \cup completeEv
    \/ \E t \in Threads : vid[t] = v /\ at[t] # "encode"

\* Whether v's row may be older than a timeout of the jobs, which look at nothing
\* else. Time is left open, but for this: when Orderly, the half hour of a timeout
\* does not pass between two statements; for the videos of Quick, not while they
\* wait or are encoded either.
MayTimeOut(v) == Orderly => IF v \in Quick THEN ~Held(v) ELSE ~Passing(v)

\* A client whose upload the killer has given up does not come back.
ClientPresent(v) ==
    Orderly => /\ status[v] \in {"pending_upload", "uploading"}
               /\ v \notin idleRows
               /\ vid["killer"] # v

\* POST on the upload URL: preCreate gives the upload the ID of its video, so
\* its file replaces the one an earlier POST left. The token is all it asks for.
TusCreate(v) ==
    /\ phase = "running"
    /\ uploads[v] < MaxUploads
    /\ ClientPresent(v)
    /\ Orderly => ~Held(v)
    /\ file' = [file EXCEPT ![v] = "empty"]
    /\ uploads' = [uploads EXCEPT ![v] = @ + 1]
    /\ UNCHANGED << process, db, published, queue, scans, at, vid, snap,
                    progressEv, completeEv, told >>

\* A chunk that is not the last; tusd's ticker reports the progress.
TusChunk(v) ==
    /\ phase = "running"
    /\ file[v] = "empty"
    /\ ClientPresent(v)
    /\ file' = [file EXCEPT ![v] = "partial"]
    /\ progressEv' = progressEv \cup {v}
    /\ UNCHANGED << process, db, published, queue, scans, at, vid, snap,
                    completeEv, uploads, told >>

\* The last chunk. The ticker's last report and the completion go to different
\* unbuffered channels, from different goroutines.
TusFinish(v) ==
    /\ phase = "running"
    /\ file[v] \in {"empty", "partial"}
    /\ ClientPresent(v)
    /\ \E c \in {"good", "bad"} : file' = [file EXCEPT ![v] = c]
    /\ progressEv' = progressEv \cup {v}
    /\ completeEv' = completeEv \cup {v}
    /\ UNCHANGED << process, db, published, queue, scans, at, vid, snap,
                    uploads, told >>

\* DELETE on the upload URL, at any time the token is good for: tusd's terminater
\* removes the file, whatever has become of the video, and nobody is told.
TusTerminate(v) ==
    /\ phase = "running"
    /\ file[v] # "none"
    /\ file' = [file EXCEPT ![v] = "none"]
    /\ UNCHANGED << process, db, published, queue, scans, at, vid, snap, tus, told >>

-----------------------------------------------------------------------------
(* The hook goroutine: consumeHooks, postReceive and HandlePostFinish.     *)

\* postReceive: UpdateLastChunk, then UpdateStatus if the video was pending.
\* The read that decides and the one that validates are taken together: only
\* the killer writes a pending video's status meanwhile, and both then refuse.
HookProgress(v) ==
    /\ phase = "running"
    /\ Idle("hook")
    /\ v \in progressEv
    /\ progressEv' = progressEv \ {v}
    /\ IF status[v] = "pending_upload"
       THEN Begin("hook", "touch!", v)
       ELSE UNCHANGED << at, vid, snap >>
    /\ UNCHANGED << process, db, disk, queue, scans, completeEv, uploads, told >>

HookTouch == Write("hook", "touch!", "uploading", "idle")

\* HandlePostFinish reads the file: present, of the declared size, with the
\* magic bytes of a container and accepted by ffprobe, or the upload fails.
HookComplete(v) ==
    /\ phase = "running"
    /\ Idle("hook")
    /\ v \in completeEv
    /\ completeEv' = completeEv \ {v}
    /\ Begin("hook", IF file[v] = "good" THEN "complete?" ELSE "reject?", v)
    /\ UNCHANGED << process, db, disk, queue, scans, progressEv, uploads, told >>

\* SetUploadComplete, whose second UPDATE (the size) no other thread reads.
HookSetCompleteCheck ==
    Check("hook", "complete?", "upload_complete", "complete!", "reject?")
HookSetComplete ==
    Write("hook", "complete!", "upload_complete", "enqueue?")

HookTellProcessing == Tell("hook", "tell_processing", "processing")

\* fail: the transition is attempted, its error ignored, and then the file goes
\* and the failure is told whatever came of it.
HookRejectCheck ==
    Check("hook", "reject?", "failed_upload", "reject!", "discard")
HookReject == Write("hook", "reject!", "failed_upload", "discard")

\* Bug: a refused upload keeps its file.
Bug_HookDiscard ==
    /\ at["hook"] = "discard"
    /\ Goto("hook", "tell_failed")
    /\ UNCHANGED << process, db, disk, queue, scans, tus, told >>

HookDiscard ==
    /\ at["hook"] = "discard"
    /\ file' = [file EXCEPT ![vid["hook"]] = "none"]
    /\ Goto("hook", "tell_failed")
    /\ UNCHANGED << process, db, published, queue, scans, tus, told >>

-----------------------------------------------------------------------------
(* Queue.Enqueue, called by the hook, the requeue job and the recovery.    *)

Enqueuers == {"hook", "requeue", "boot"}

\* Where each caller goes when Enqueue succeeds and when it returns an error.
AfterEnqueue(t) == IF t = "hook" THEN "tell_processing" ELSE "idle"
AfterRefusal(t) ==
    CASE t = "hook" -> "reject?" [] t = "requeue" -> "rollback?" [] OTHER -> "idle"

EnqueueCheck(t) ==
    Check(t, "enqueue?", "transcoding", "enqueue!", AfterRefusal(t))
EnqueueWrite(t) == Write(t, "enqueue!", "transcoding", "send")

\* Bug: the test for a full queue is off by one.
Bug_EnqueueSend(t) ==
    /\ at[t] = "send"
    /\ IF Len(queue) <= QueueMaxSize
       THEN /\ queue' = Append(queue, vid[t])
            /\ Goto(t, AfterEnqueue(t))
       ELSE /\ UNCHANGED queue
            /\ Goto(t, AfterRefusal(t))
    /\ UNCHANGED << process, db, disk, scans, tus, told >>

\* The non-blocking send: with the buffer full the caller gets an error, and
\* the video stays in transcoding.
EnqueueSend(t) ==
    /\ at[t] = "send"
    /\ IF Len(queue) < QueueMaxSize
       THEN /\ queue' = Append(queue, vid[t])
            /\ Goto(t, AfterEnqueue(t))
       ELSE /\ UNCHANGED queue
            /\ Goto(t, AfterRefusal(t))
    /\ UNCHANGED << process, db, disk, scans, tus, told >>

-----------------------------------------------------------------------------
(* A worker: Queue.Start's loop around Worker.Transcode.                   *)

WorkerTake(w) ==
    /\ phase = "running"
    /\ Idle(w)
    /\ queue # << >>
    /\ queue' = Tail(queue)
    /\ Begin(w, "load", Head(queue))
    /\ UNCHANGED << process, db, disk, scans, tus, told >>

\* GetVideo: the attempts read here decide, at the end, whether a failure is
\* the last one.
WorkerLoad(w) ==
    /\ at[w] = "load"
    /\ snap' = [snap EXCEPT ![w] = attempts[vid[w]]]
    /\ at' = [at EXCEPT ![w] =
                 IF status[vid[w]] = "transcoding" THEN "encode" ELSE "claim?"]
    /\ UNCHANGED << process, db, disk, queue, scans, vid, tus, told >>

\* A refused claim is an error of Transcode, which the queue's loop ignores.
WorkerClaimCheck(w) == Check(w, "claim?", "transcoding", "claim!", "idle")
WorkerClaim(w) == Write(w, "claim!", "transcoding", "encode")

\* Bug: the video is set ready before its master playlist is written.
Bug_WorkerEncode(w) ==
    /\ at[w] = "encode"
    /\ file[vid[w]] \in {"partial", "good", "bad"}
    /\ Goto(w, "ready?")
    /\ UNCHANGED << process, db, disk, queue, scans, tus, told >>

\* ffprobe, the directories, one ffmpeg per resolution and the thumbnails.
\* ffmpeg needs bytes to read, and any of it may fail.
WorkerEncode(w) ==
    /\ at[w] = "encode"
    /\ file[vid[w]] \in {"partial", "good", "bad"}
    /\ Goto(w, "publish")
    /\ UNCHANGED << process, db, disk, queue, scans, tus, told >>

WorkerPublish(w) ==
    /\ at[w] = "publish"
    /\ published' = published \cup {vid[w]}
    /\ Goto(w, "ready?")
    /\ UNCHANGED << process, db, file, queue, scans, tus, told >>

WorkerStumble(w) ==
    /\ at[w] \in {"encode", "publish"}
    /\ Goto(w, "count")
    /\ UNCHANGED << process, db, disk, queue, scans, tus, told >>

\* SetReady: the status first, the duration and the resolutions in a second
\* UPDATE.
WorkerReadyCheck(w) == Check(w, "ready?", "ready", "ready!", "count")
WorkerReady(w) == Write(w, "ready!", "ready", "describe")
WorkerDescribe(w) ==
    /\ at[w] = "describe"
    /\ described' = described \cup {vid[w]}
    /\ Goto(w, "finish")
    /\ UNCHANGED << process, status, attempts, disk, queue, scans, tus, told >>

\* The original is removed unless it is to be kept, and success is told.
WorkerFinish(w) ==
    /\ at[w] = "finish"
    /\ file' = IF KeepOriginal THEN file ELSE [file EXCEPT ![vid[w]] = "none"]
    /\ told' = [told EXCEPT ![vid[w]] = @ \cup {"ready"}]
    /\ Goto(w, "idle")
    /\ UNCHANGED << process, db, published, queue, scans, tus >>

\* Bug: the failed attempt is not counted.
Bug_WorkerCount(w) ==
    /\ at[w] = "count"
    /\ Goto(w, IF snap[w] + 1 >= MaxTranscodeAttempts THEN "fail?" ELSE "idle")
    /\ UNCHANGED << process, db, disk, queue, scans, tus, told >>

\* handleTranscodeFailure: one more attempt is counted; it was the last if the
\* count read at the start says so. Otherwise the error is returned to the
\* queue's loop, which drops it.
WorkerCount(w) ==
    /\ at[w] = "count"
    /\ attempts' = [attempts EXCEPT ![vid[w]] = @ + 1]
    /\ Goto(w, IF snap[w] + 1 >= MaxTranscodeAttempts THEN "fail?" ELSE "idle")
    /\ UNCHANGED << process, status, described, disk, queue, scans, tus, told >>

-----------------------------------------------------------------------------
(* UpdateStatusWithError(failed_transcode) and the "failed" webhook, in    *)
(* the worker, the requeue job and the recovery. Only the worker goes on   *)
(* to the webhook when the transition is refused.                          *)

FailCheck(t) ==
    Check(t, "fail?", "failed_transcode", "fail!",
          IF t \in Workers THEN "tell_failed" ELSE "idle")
FailWrite(t) == Write(t, "fail!", "failed_transcode", "tell_failed")
TellFailed(t) == Tell(t, "tell_failed", "failed")

-----------------------------------------------------------------------------
(* The killer of idle uploads.                                             *)

\* The SELECT. Which uploads have been silent for the timeout is left open.
KillerScan(S) ==
    /\ phase = "running"
    /\ Idle("killer") /\ idleRows = {}
    /\ S # {}
    /\ \A v \in S : status[v] \in {"pending_upload", "uploading"} /\ MayTimeOut(v)
    /\ idleRows' = S
    /\ UNCHANGED << process, db, disk, queue, rows, at, vid, snap, tus, told >>

\* The file goes before the status is looked at.
KillerRemove(v) ==
    /\ phase = "running"
    /\ Idle("killer")
    /\ v \in idleRows
    /\ idleRows' = idleRows \ {v}
    /\ file' = [file EXCEPT ![v] = "none"]
    /\ Begin("killer", "kill?", v)
    /\ UNCHANGED << process, db, published, queue, rows, tus, told >>

KillerCheck == Check("killer", "kill?", "failed_upload", "kill!", "idle")
\* Bug: the end of an idle upload is not announced.
Bug_KillerFail == Write("killer", "kill!", "failed_upload", "idle")

KillerFail == Write("killer", "kill!", "failed_upload", "tell_failed")

-----------------------------------------------------------------------------
(* The job that puts stuck videos back in the queue, and the recovery,     *)
(* which does the same to every unfinished video before anything else runs.*)

Snapshot(v) == [v |-> v, s |-> status[v], a |-> attempts[v]]

\* Bug: the SELECT forgets how long ago the row was updated.
Bug_RequeueScan(S) ==
    /\ phase = "running"
    /\ Idle("requeue") /\ rows["requeue"] = {}
    /\ S # {}
    /\ \A v \in S : status[v] = "transcoding"
    /\ rows' = [rows EXCEPT !["requeue"] = {Snapshot(v) : v \in S}]
    /\ UNCHANGED << process, db, disk, queue, idleRows, at, vid, snap, tus, told >>

\* The SELECT. Which rows were last updated before the timeout is left open.
RequeueScan(S) ==
    /\ phase = "running"
    /\ Idle("requeue") /\ rows["requeue"] = {}
    /\ S # {}
    /\ \A v \in S : status[v] = "transcoding" /\ MayTimeOut(v)
    /\ rows' = [rows EXCEPT !["requeue"] = {Snapshot(v) : v \in S}]
    /\ UNCHANGED << process, db, disk, queue, idleRows, at, vid, snap, tus, told >>

\* Bug: a video without attempts left is skipped instead of failed.
Bug_Restore(t, r) ==
    /\ Idle(t)
    /\ r \in rows[t]
    /\ rows' = [rows EXCEPT ![t] = @ \ {r}]
    /\ IF r.a < MaxTranscodeAttempts
       THEN /\ attempts' = [attempts EXCEPT ![r.v] = @ + 1]
            /\ Begin(t, "restore?", r.v)
       ELSE UNCHANGED << attempts, at, vid, snap >>
    /\ UNCHANGED << process, status, described, disk, queue, idleRows, tus, told >>

\* Bug: the limit of the attempts is off by one.
Bug_RestoreOnceMore(t, r) ==
    /\ Idle(t)
    /\ r \in rows[t]
    /\ rows' = [rows EXCEPT ![t] = @ \ {r}]
    /\ IF r.s = "transcoding" /\ r.a > MaxTranscodeAttempts
       THEN /\ Begin(t, "fail?", r.v)
            /\ UNCHANGED attempts
       ELSE /\ attempts' = [attempts EXCEPT ![r.v] = @ + 1]
            /\ Begin(t, IF r.s = "transcoding" THEN "restore?" ELSE "enqueue?", r.v)
    /\ UNCHANGED << process, status, described, disk, queue, idleRows, tus, told >>

\* The next row of the scan. A row read in transcoding with attempts left costs
\* it one more and is put back; one without fails; one that recovery read in
\* upload_complete needs only the queue.
Restore(t, r) ==
    /\ Idle(t)
    /\ r \in rows[t]
    /\ rows' = [rows EXCEPT ![t] = @ \ {r}]
    /\ \/ /\ r.s = "upload_complete"
          /\ Begin(t, "enqueue?", r.v)
          /\ UNCHANGED attempts
       \/ /\ r.s = "transcoding" /\ r.a < MaxTranscodeAttempts
          /\ attempts' = [attempts EXCEPT ![r.v] = @ + 1]
          /\ Begin(t, "restore?", r.v)
       \/ /\ r.s = "transcoding" /\ r.a >= MaxTranscodeAttempts
          /\ Begin(t, "fail?", r.v)
          /\ UNCHANGED attempts
    /\ UNCHANGED << process, status, described, disk, queue, idleRows, tus, told >>

RestoreCheck(t) == Check(t, "restore?", "upload_complete", "restore!", "idle")
\* Bug: the video goes back to upload_complete and not to the queue.
Bug_RestoreWrite(t) == Write(t, "restore!", "upload_complete", "idle")

RestoreWrite(t) == Write(t, "restore!", "upload_complete", "enqueue?")

\* The requeue job's rollback after Enqueue returned an error.
RollbackCheck == Check("requeue", "rollback?", "transcoding", "rollback!", "idle")
RollbackWrite == Write("requeue", "rollback!", "transcoding", "idle")

-----------------------------------------------------------------------------
(* The process.                                                            *)

\* The database and the disk survive; every goroutine, the queue and the events
\* not yet handled do not.
Crash ==
    /\ phase # "down"
    /\ crashes < MaxCrashes
    /\ crashes' = crashes + 1
    /\ phase' = "down"
    /\ queue' = << >>
    /\ rows' = [t \in {"requeue", "boot"} |-> {}]
    /\ idleRows' = {}
    /\ at' = [t \in Threads |-> "idle"]
    /\ vid' = [t \in Threads |-> NoVideo]
    /\ snap' = [w \in Workers |-> 0]
    /\ progressEv' = {}
    /\ completeEv' = {}
    /\ UNCHANGED << db, disk, uploads, told >>

\* Bug: the recovery looks only for videos in upload_complete.
Bug_Boot ==
    /\ phase = "down"
    /\ phase' = "recovering"
    /\ rows' = [rows EXCEPT !["boot"] =
                   {Snapshot(v) : v \in {x \in Videos : status[x] = "upload_complete"}}]
    /\ UNCHANGED << crashes, db, disk, queue, idleRows, at, vid, snap, tus, told >>

\* main up to RunStartupRecovery and its SELECT.
Boot ==
    /\ phase = "down"
    /\ phase' = "recovering"
    /\ rows' = [rows EXCEPT !["boot"] =
                   {Snapshot(v) : v \in
                       {x \in Videos : status[x] \in {"upload_complete", "transcoding"}}}]
    /\ UNCHANGED << crashes, db, disk, queue, idleRows, at, vid, snap, tus, told >>

\* Recovery has returned: main starts the workers, the jobs and the server.
Serve ==
    /\ phase = "recovering"
    /\ Idle("boot") /\ rows["boot"] = {}
    /\ phase' = "running"
    /\ UNCHANGED << crashes, db, disk, queue, scans, at, vid, snap, tus, told >>

-----------------------------------------------------------------------------

Init ==
    /\ phase = "running"
    /\ crashes = 0
    /\ status = [v \in Videos |-> "pending_upload"]
    /\ attempts = [v \in Videos |-> 0]
    /\ described = {}
    /\ file = [v \in Videos |-> "none"]
    /\ published = {}
    /\ queue = << >>
    /\ rows = [t \in {"requeue", "boot"} |-> {}]
    /\ idleRows = {}
    /\ at = [t \in Threads |-> "idle"]
    /\ vid = [t \in Threads |-> NoVideo]
    /\ snap = [w \in Workers |-> 0]
    /\ progressEv = {}
    /\ completeEv = {}
    /\ uploads = [v \in Videos |-> 0]
    /\ told = [v \in Videos |-> {}]

Client ==
    \E v \in Videos : TusCreate(v) \/ TusChunk(v) \/ TusFinish(v) \/ TusTerminate(v)

Enqueue(t) == EnqueueCheck(t) \/ EnqueueWrite(t) \/ EnqueueSend(t)

Fail(t) == FailCheck(t) \/ FailWrite(t) \/ TellFailed(t)

Hook ==
    \/ \E v \in Videos : HookProgress(v) \/ HookComplete(v)
    \/ HookTouch
    \/ HookSetCompleteCheck \/ HookSetComplete
    \/ Enqueue("hook")
    \/ HookTellProcessing
    \/ HookRejectCheck \/ HookReject \/ HookDiscard \/ TellFailed("hook")

Worker(w) ==
    \/ WorkerTake(w) \/ WorkerLoad(w)
    \/ WorkerClaimCheck(w) \/ WorkerClaim(w)
    \/ WorkerEncode(w) \/ WorkerPublish(w) \/ WorkerStumble(w)
    \/ WorkerReadyCheck(w) \/ WorkerReady(w) \/ WorkerDescribe(w) \/ WorkerFinish(w)
    \/ WorkerCount(w) \/ Fail(w)

\* The steps of the killer after its scan, and of a restorer after its own.
KillerStep ==
    \/ \E v \in Videos : KillerRemove(v)
    \/ KillerCheck \/ KillerFail \/ TellFailed("killer")

RestorerStep(t) ==
    \/ \E r \in rows[t] : Restore(t, r)
    \/ RestoreCheck(t) \/ RestoreWrite(t)
    \/ Enqueue(t)
    \/ Fail(t)

Scans == \E S \in SUBSET Videos : KillerScan(S) \/ RequeueScan(S)

Next ==
    \/ Client
    \/ Hook
    \/ \E w \in Workers : Worker(w)
    \/ KillerStep
    \/ RestorerStep("requeue") \/ RollbackCheck \/ RollbackWrite
    \/ RestorerStep("boot")
    \/ Scans
    \/ Crash \/ Boot \/ Serve

Spec == Init /\ [][Next]_vars

-----------------------------------------------------------------------------
(* Fairness. The scheduler runs every goroutine that can run; ffmpeg and   *)
(* ffprobe have timeouts in the code, so an encoding ends. The process is  *)
(* restarted after a crash. A video that nothing updates any more is in    *)
(* the end older than the timeouts, so a scan of everything that is left   *)
(* happens. Clients and crashes are not fair.                              *)

AllIdle == {v \in Videos : status[v] \in {"pending_upload", "uploading"}}
AllStuck == {v \in Videos : status[v] = "transcoding"}

Fairness ==
    /\ WF_vars(Hook)
    /\ \A w \in Workers : WF_vars(Worker(w))
    /\ WF_vars(KillerStep)
    /\ WF_vars(RestorerStep("requeue") \/ RollbackCheck \/ RollbackWrite)
    /\ WF_vars(Boot \/ RestorerStep("boot") \/ Serve)
    /\ WF_vars(KillerScan(AllIdle))
    /\ WF_vars(RequeueScan(AllStuck))

FairSpec == Spec /\ Fairness

-----------------------------------------------------------------------------
(* Properties that hold whatever the timeouts and the clients do.          *)

\* A thread that has put v in upload_complete, or found it there, and has not
\* yet written transcoding: the status is about to change.
Enqueuing(t, v) == vid[t] = v /\ at[t] \in {"enqueue?", "enqueue!"}

\* "O status só pode permanecer em upload_complete se o vídeo realmente entrou
\* na fila" (jobs/requeue.go): no video rests in upload_complete, where neither
\* the worker nor the requeue job would ever look for it. Whoever sets it is on
\* the way to transcoding, or the process is down or about to recover it.
CompletedIsMovingOn ==
    \A v \in Videos : status[v] = "upload_complete" =>
        \/ phase = "down"
        \/ \E r \in rows["boot"] : r.v = v /\ r.s = "upload_complete"
        \/ \E t \in Enqueuers : Enqueuing(t, v)

\* A video is given up only once MaxTranscodeAttempts attempts are counted,
\* although worker, requeue job and recovery each decide it on a count they
\* read earlier (handleTranscodeFailure, runOnce, RunStartupRecovery).
ExhaustedBeforeFailed ==
    \A v \in Videos :
        status[v] = "failed_transcode" => attempts[v] >= MaxTranscodeAttempts

\* Whoever is told "ready", or reads it, finds the master playlist; whoever is
\* told finds the duration and the resolutions too (Transcode, SetReady).
ReadyIsPlayable ==
    \A v \in Videos :
        /\ status[v] = "ready" => v \in published
        /\ "ready" \in told[v] => v \in published \cap described

\* As long as the process does not crash, every final status is announced with
\* its own event, by a thread that set it, even when two threads set different
\* ones (README: a webhook at each transition).
FinalIsAnnounced ==
    \A v \in Videos :
        /\ status[v] = "ready" =>
              \/ "ready" \in told[v] \/ crashes > 0
              \/ \E w \in Workers : vid[w] = v /\ at[w] \in {"describe", "finish"}
        /\ status[v] \in Failed =>
              \/ "failed" \in told[v] \/ crashes > 0
              \/ \E t \in Threads : vid[t] = v /\ at[t] \in {"discard", "tell_failed"}

\* When the recovery hands over, every unfinished video is in the queue, unless
\* the queue is full: the workers start only after it (main, recovery.go).
RecoveryIsComplete ==
    [][phase = "recovering" /\ phase' = "running" =>
          \A v \in Videos : status[v] \in {"upload_complete", "transcoding"} =>
              v \in Range(queue) \/ Len(queue) = QueueMaxSize]_vars

\* Every video comes to rest in a final status: the killer ends what clients
\* abandon, the requeue job what the queue lost or refused.
EverythingSettles == \A v \in Videos : <>[](status[v] \in Terminal)

-----------------------------------------------------------------------------
(* Properties that rest on Orderly.                                        *)

\* The videos a round of the requeue job has selected and not yet put back.
Requeuing == {"restore?", "restore!", "enqueue?", "enqueue!", "send"}
Overdue ==
    {r.v : r \in rows["requeue"]} \cup
        (IF at["requeue"] \in Requeuing THEN {vid["requeue"]} ELSE {})

\* The queue and its workers are a work queue that hands a job out once, and once
\* more each time it has timed out, however long videos wait and are encoded: what
\* the hook and the recovery put there is neither waiting nor being transcoded, the
\* requeue job puts nothing twice for one timeout, workers take the oldest, and only
\* the end of the process loses a video (Queue.Enqueue, Queue.Start, runOnce).
Work == INSTANCE WorkQueue WITH
            Jobs <- Videos, Servers <- Workers, NoJob <- NoVideo,
            Capacity <- QueueMaxSize, pending <- queue,
            serving <- [w \in Workers |-> vid[w]], overdue <- Overdue
QueuesPerTimeout == Work!Spec

\* The places of v in the queue, and the workers that have it.
Copies(v) ==
    Cardinality({i \in DOMAIN queue : queue[i] = v}) + Cardinality({w \in Workers : vid[w] = v})

\* The requeue job looks only at the age of a row, so a video that waits long or is
\* long encoded is put in the queue again, and several workers encode it at once
\* (runOnce). There is a limit to that: a copy for the upload or the recovery, and one
\* for each attempt that was left, whoever else counts attempts meanwhile.
CopiesAreBounded ==
    \A v \in Videos : Copies(v) <= 1 + MaxTranscodeAttempts

-----------------------------------------------------------------------------
(* Properties of the quick videos that rest on Orderly.                    *)

\* The status keeps to the transition table although the read that validates a
\* transition and the write that makes it are two statements (UpdateStatus).
Lifecycle == INSTANCE VideoLifecycle WITH
                 Videos <- Quick, status <- [v \in Quick |-> status[v]]
FollowsLifecycle == Lifecycle!Spec

\* What was told agrees with what is stored: no "ready" for a video that is not
\* ready, no "failed" for one that is or will be.
ToldAgrees ==
    \A v \in Quick :
        /\ "ready" \in told[v] => status[v] = "ready"
        /\ "failed" \in told[v] => status[v] # "ready"

-----------------------------------------------------------------------------
(* What the documentation says and the code does not do.                   *)

\* spec/pipeline.md: ready, failed_upload and failed_transcode are terminal and
\* every write of the status goes through the validation.
TerminalIsFinal ==
    [][\A v \in Videos : status[v] \in Terminal => status'[v] = status[v]]_vars

\* HandlePostFinish: on any failure the status becomes failed_upload, the file
\* goes and "failed" is sent; so whoever is told "failed" finds it recorded.
FailedIsRecorded ==
    \A v \in Videos : "failed" \in told[v] => status[v] \in Failed

=============================================================================
