---------------------------- MODULE MediaLibrary ----------------------------
(***************************************************************************)
(* What the management API, the players and the worker share about a       *)
(* video: its row, the rows of access_tokens and video_renditions that     *)
(* refer to it, and its directory under MediaDir.                          *)
(*                                                                         *)
(* Callers are the goroutines of HTTP requests: upload/init (init.go),     *)
(* TUS requests (tus.go), play/init (playinit.go), the master playlist     *)
(* (serve.go), the deletion of a video (admin.go) and its reprocessing     *)
(* (reprocess.go). Beside them run one worker, with the steps of Transcode *)
(* that write directories and rendition rows, and the job that removes     *)
(* expired tokens (jobs/cleanup.go).                                       *)
(*                                                                         *)
(* A step is one SQL statement or one operation on files; the database has *)
(* a single connection and foreign keys on, so a statement that would      *)
(* leave a row without what it refers to fails. UpdateStatus is a read,    *)
(* and a write that asks for nothing but the row (video.go); the hook's    *)
(* part of an upload is one step, which module Pipeline takes apart, with  *)
(* the writers of a status that this module leaves out.                    *)
(***************************************************************************)
EXTENDS Naturals, FiniteSets, FiniteSetsExt, VideoStatus

CONSTANTS
    Videos,       \* video IDs a client may choose
    Callers,      \* requests under way at a time
    Nobody,       \* the video of an idle caller or worker
    MinDim,       \* [Videos -> Nat]: the smaller side of each original
    KeepOriginal,
    MaxInits,     \* bound: rows inserted per ID
    MaxTokens,    \* bound: tokens issued per ID and purpose
    MaxFaults,    \* bound: statements that fail for no reason of the model
    Orderly       \* whether an ID is reused only when nothing is under way for it

Resolutions == {480, 720, 1080}

ASSUME LibraryAssumption ==
    /\ Nobody \notin Videos
    /\ MinDim \in [Videos -> Nat]
    /\ KeepOriginal \in BOOLEAN
    /\ Orderly \in BOOLEAN
    /\ MaxInits \in Nat /\ MaxTokens \in Nat /\ MaxFaults \in Nat

VARIABLES
    \* the database
    status,       \* "none" without a row
    token,        \* serial of the row of access_tokens, 0 without one
    renditions,   \* the resolutions with a row in video_renditions
    \* time and tokens given out
    expired,      \* <<video, purpose>> whose token is past its time
    issued,
    \* the disk
    original,     \* the file under UploadTmpDir: "none", "partial" or "whole"
    dir,          \* videos with a directory under MediaDir
    variants,     \* resolutions with a playlist and segments in it
    published,    \* videos with a master.m3u8 in it
    master,       \* the resolutions the master lists
    \* goroutines
    at, vid, key, \* each caller's program point, its video and its token
    wat, wvid,    \* the worker's
    plan, todo,   \* the resolutions it has chosen, and those still to encode
    \* what callers were answered
    granted,      \* serial of the upload token an init answered with, 0 for none
    gone,         \* videos whose deletion was answered
    inits, faults

rows == << status, token, renditions >>
clock == << expired, issued >>
disk == << original, dir, variants, published, master >>
callers == << at, vid, key >>
worker == << wat, wvid, plan, todo >>
answers == << granted, gone >>
bounds == << inits, faults >>
vars == << rows, clock, disk, callers, worker, answers, bounds >>

Purposes == {"upload", "play"}
Key == [v : Videos, p : Purposes, n : 1..MaxTokens]
NoKey == [v |-> Nobody, p |-> "upload", n |-> 0]

DeletionPoints == {"del_tokens", "del_renditions", "del_video", "del_files"}
CallerPoints == {"idle", "init_token", "tus", "play_token", "master_row",
                 "master_file", "reprocess"} \cup DeletionPoints
WorkerPoints == {"idle", "mkdir", "encode", "record", "master", "ready", "set_ready",
                 "fail", "set_failed"}

TypeOK ==
    /\ status \in [Videos -> Statuses \cup {"none"}]
    /\ token \in [Videos \X Purposes -> 0..MaxTokens]
    /\ renditions \in [Videos -> SUBSET Resolutions]
    /\ expired \subseteq Videos \X Purposes
    /\ issued \in [Videos \X Purposes -> 0..MaxTokens]
    /\ original \in [Videos -> {"none", "partial", "whole"}]
    /\ dir \subseteq Videos
    /\ variants \in [Videos -> SUBSET Resolutions]
    /\ published \subseteq Videos
    /\ master \in [Videos -> SUBSET Resolutions]
    /\ at \in [Callers -> CallerPoints]
    /\ vid \in [Callers -> Videos \cup {Nobody}]
    /\ \A c \in Callers : at[c] # "idle" => vid[c] \in Videos
    /\ key \in [Callers -> Key \cup {NoKey}]
    /\ wat \in WorkerPoints
    /\ wvid \in Videos \cup {Nobody}
    /\ wat # "idle" => wvid \in Videos
    /\ plan \subseteq Resolutions /\ todo \subseteq plan
    /\ wat \in {"encode", "record"} => todo # {}
    /\ granted \in [Videos -> 0..MaxTokens]
    /\ gone \subseteq Videos
    /\ inits \in [Videos -> 0..MaxInits]
    /\ faults \in 0..MaxFaults

-----------------------------------------------------------------------------
(* Requests and tokens.                                                    *)

\* Caller c goes on with video v at point p; an idle caller forgets it.
Take(c, p, v) ==
    /\ at' = [at EXCEPT ![c] = p]
    /\ vid' = [vid EXCEPT ![c] = IF p = "idle" THEN Nobody ELSE v]
    /\ key' = IF p = "idle" THEN [key EXCEPT ![c] = NoKey] ELSE key

Goto(c, p) == Take(c, p, vid[c])

\* Bug: the handlers do not compare the purpose of the token.
Bug_Accepts(k, v, p) ==
    /\ k.v = v
    /\ token[<<k.v, k.p>>] = k.n
    /\ <<k.v, k.p>> \notin expired

\* GetAccessToken by value, and the conditions the handlers put on the row.
Accepts(k, v, p) ==
    /\ k.p = p
    /\ k.v = v
    /\ token[<<k.v, k.p>>] = k.n
    /\ <<k.v, k.p>> \notin expired

\* Bug: the table is unique by video, so a token replaces the other purpose's.
Bug_InsertAccessToken(v, p) ==
    /\ status[v] # "none"
    /\ issued[<<v, p>>] < MaxTokens
    /\ issued' = [issued EXCEPT ![<<v, p>>] = @ + 1]
    /\ token' = [k \in Videos \X Purposes |->
                    IF k = <<v, p>> THEN issued[<<v, p>>] + 1
                    ELSE IF k[1] = v THEN 0 ELSE token[k]]
    /\ expired' = expired \ {<<v, p>>}

\* Bug: access_tokens has no foreign key.
Bug_InsertAccessTokenAnyway(v, p) ==
    /\ issued[<<v, p>>] < MaxTokens
    /\ issued' = [issued EXCEPT ![<<v, p>>] = @ + 1]
    /\ token' = [token EXCEPT ![<<v, p>>] = issued[<<v, p>>] + 1]
    /\ expired' = expired \ {<<v, p>>}

\* INSERT OR REPLACE under UNIQUE (video_id, purpose): the new token takes the
\* place of the old one. The foreign key asks for the row of the video.
InsertAccessToken(v, p) ==
    /\ status[v] # "none"
    /\ issued[<<v, p>>] < MaxTokens
    /\ issued' = [issued EXCEPT ![<<v, p>>] = @ + 1]
    /\ token' = [token EXCEPT ![<<v, p>>] = issued[<<v, p>>] + 1]
    /\ expired' = expired \ {<<v, p>>}

\* Tokens anybody may still present: every one that was ever issued.
Known == {k \in Key : k.n <= issued[<<k.v, k.p>>]}

\* The time of a token runs out, whatever its holder is doing.
Expire(v, p) ==
    /\ token[<<v, p>>] # 0
    /\ <<v, p>> \notin expired
    /\ expired' = expired \cup {<<v, p>>}
    /\ granted' = IF p = "upload" THEN [granted EXCEPT ![v] = 0] ELSE granted
    /\ UNCHANGED << rows, issued, disk, callers, worker, gone, bounds >>

\* TokenCleanupJob.runOnce: one DELETE of all expired tokens.
Cleanup ==
    /\ expired # {}
    /\ token' = [k \in Videos \X Purposes |-> IF k \in expired THEN 0 ELSE token[k]]
    /\ expired' = {}
    /\ UNCHANGED << status, renditions, issued, disk, callers, worker, answers,
                    bounds >>

-----------------------------------------------------------------------------
(* POST /api/upload/init.                                                  *)

\* Nothing is under way for v: what a client that reuses an ID should wait for.
Quiet(v) == wvid # v /\ \A c \in Callers : vid[c] # v

\* InsertVideoWithTagAndWebhook; with a row already there the answer is 409.
InitInsert(c, v) ==
    /\ at[c] = "idle"
    /\ status[v] = "none"
    /\ inits[v] < MaxInits
    /\ Orderly => Quiet(v)
    /\ status' = [status EXCEPT ![v] = "pending_upload"]
    /\ inits' = [inits EXCEPT ![v] = @ + 1]
    /\ gone' = gone \ {v}
    /\ Take(c, "init_token", v)
    /\ UNCHANGED << token, renditions, clock, disk, worker, granted, faults >>

\* The token is stored, and the client is answered with it.
InitToken(c) ==
    /\ at[c] = "init_token"
    /\ InsertAccessToken(vid[c], "upload")
    /\ granted' = [granted EXCEPT ![vid[c]] = token'[<<vid[c], "upload">>]]
    /\ Goto(c, "idle")
    /\ UNCHANGED << status, renditions, disk, worker, gone, bounds >>

\* The row was deleted since it was inserted: the foreign key refuses.
TokenRefused(c) ==
    /\ at[c] \in {"init_token", "play_token"}
    /\ status[vid[c]] = "none"
    /\ Goto(c, "idle")
    /\ UNCHANGED << rows, clock, disk, worker, answers, bounds >>

-----------------------------------------------------------------------------
(* TUS requests: TUSHandler.ServeHTTP, then tusd with preCreate.           *)

TusRequest(c, k, v) ==
    /\ at[c] = "idle"
    /\ Accepts(k, v, "upload")
    /\ at' = [at EXCEPT ![c] = "tus"]
    /\ vid' = [vid EXCEPT ![c] = v]
    /\ key' = [key EXCEPT ![c] = k]
    /\ UNCHANGED << rows, clock, disk, worker, answers, bounds >>

\* POST: preCreate looks at the token again, then tusd creates the file anew.
TusPost(c) ==
    /\ at[c] = "tus"
    /\ original' = IF Accepts(key[c], vid[c], "upload")
                   THEN [original EXCEPT ![vid[c]] = "partial"] ELSE original
    /\ Goto(c, "idle")
    /\ UNCHANGED << rows, clock, dir, variants, published, master, worker,
                    answers, bounds >>

\* PATCH with the last bytes: the hook validates the file and queues the video,
\* or fails the upload; it refuses a video past its upload or without a row. What
\* it does not queue it removes.
TusPatch(c) ==
    LET v == vid[c]
        pending == status[v] = "pending_upload"
    IN
    /\ at[c] = "tus"
    /\ original[v] = "partial"
    /\ \E valid \in BOOLEAN :
        /\ original' = [original EXCEPT ![v] = IF valid /\ pending THEN "whole" ELSE "none"]
        /\ status' = IF pending
                     THEN [status EXCEPT ![v] =
                             IF valid THEN "transcoding" ELSE "failed_upload"]
                     ELSE status
    /\ Goto(c, "idle")
    /\ UNCHANGED << token, renditions, clock, dir, variants, published, master, worker,
                    answers, bounds >>

\* DELETE: tusd's terminater removes the file, whatever has become of the video.
TusDelete(c) ==
    /\ at[c] = "tus"
    /\ original' = [original EXCEPT ![vid[c]] = "none"]
    /\ Goto(c, "idle")
    /\ UNCHANGED << rows, clock, dir, variants, published, master, worker,
                    answers, bounds >>

-----------------------------------------------------------------------------
(* POST /api/play/init and GET /video/{tag}/{id}.m3u8.                     *)

PlayInit(c, v) ==
    /\ at[c] = "idle"
    /\ status[v] = "ready"
    /\ Take(c, "play_token", v)
    /\ UNCHANGED << rows, clock, disk, worker, answers, bounds >>

PlayToken(c) ==
    /\ at[c] = "play_token"
    /\ InsertAccessToken(vid[c], "play")
    /\ Goto(c, "idle")
    /\ UNCHANGED << status, renditions, disk, worker, answers, bounds >>

MasterRequest(c, k, v) ==
    /\ at[c] = "idle"
    /\ Accepts(k, v, "play")
    /\ Take(c, "master_row", v)
    /\ UNCHANGED << rows, clock, disk, worker, answers, bounds >>

MasterRow(c) ==
    /\ at[c] = "master_row"
    /\ Goto(c, IF status[vid[c]] = "ready" THEN "master_file" ELSE "idle")
    /\ UNCHANGED << rows, clock, disk, worker, answers, bounds >>

\* ReadFile: the playlist, or 404 when it is not there.
MasterFile(c) ==
    /\ at[c] = "master_file"
    /\ Goto(c, "idle")
    /\ UNCHANGED << rows, clock, disk, worker, answers, bounds >>

-----------------------------------------------------------------------------
(* DELETE /admin/videos/{videoID}: five statements and a removal of files. *)

DeleteRequest(c, v) ==
    /\ at[c] = "idle"
    /\ status[v] # "none"
    /\ Take(c, "del_tokens", v)
    /\ UNCHANGED << rows, clock, disk, worker, answers, bounds >>

\* Bug: the files go before the rows.
Bug_DeleteTokens(c) ==
    /\ at[c] = "del_tokens"
    /\ token' = [k \in Videos \X Purposes |-> IF k[1] = vid[c] THEN 0 ELSE token[k]]
    /\ expired' = {x \in expired : x[1] # vid[c]}
    /\ granted' = [granted EXCEPT ![vid[c]] = 0]
    /\ published' = published \ {vid[c]}
    /\ Goto(c, "del_renditions")
    /\ UNCHANGED << status, renditions, issued, original, dir, variants, master,
                    worker, gone, bounds >>

DeleteTokens(c) ==
    /\ at[c] = "del_tokens"
    /\ token' = [k \in Videos \X Purposes |-> IF k[1] = vid[c] THEN 0 ELSE token[k]]
    /\ expired' = {x \in expired : x[1] # vid[c]}
    /\ granted' = [granted EXCEPT ![vid[c]] = 0]
    /\ Goto(c, "del_renditions")
    /\ UNCHANGED << status, renditions, issued, disk, worker, gone, bounds >>

\* The rendition rows, and then the playback events, which nothing refers to.
DeleteRenditions(c) ==
    /\ at[c] = "del_renditions"
    /\ renditions' = [renditions EXCEPT ![vid[c]] = {}]
    /\ Goto(c, "del_video")
    /\ UNCHANGED << status, token, clock, disk, worker, answers, bounds >>

\* What refers to v keeps its row from being deleted.
Referenced(v) ==
    renditions[v] # {} \/ \E p \in Purposes : token[<<v, p>>] # 0

\* With a token or a rendition inserted meanwhile the answer is 500: the video
\* stays, without the rows already deleted.
DeleteVideo(c) ==
    /\ at[c] = "del_video"
    /\ IF Referenced(vid[c])
       THEN /\ Goto(c, "idle")
            /\ UNCHANGED status
       ELSE /\ status' = [status EXCEPT ![vid[c]] = "none"]
            /\ Goto(c, "del_files")
    /\ UNCHANGED << token, renditions, clock, disk, worker, answers, bounds >>

\* RemoveAll of the directory, and the answer. The original stays.
DeleteFiles(c) ==
    LET v == vid[c] IN
    /\ at[c] = "del_files"
    /\ dir' = dir \ {v}
    /\ variants' = [variants EXCEPT ![v] = {}]
    /\ published' = published \ {v}
    /\ master' = [master EXCEPT ![v] = {}]
    /\ gone' = IF status[v] = "none" THEN gone \cup {v} ELSE gone
    /\ Goto(c, "idle")
    /\ UNCHANGED << rows, clock, original, worker, granted, bounds >>

-----------------------------------------------------------------------------
(* POST /api/videos/{videoID}/reprocess.                                   *)

ReprocessRequest(c, v) ==
    /\ at[c] = "idle"
    /\ status[v] \in {"ready"} \cup Failed
    /\ Take(c, "reprocess", v)
    /\ UNCHANGED << rows, clock, disk, worker, answers, bounds >>

\* UpdateStatus to transcoding: the table has no way there from the statuses a
\* request is let in with, so the read refuses, and neither the write nor the
\* reset of the attempts after it is reached.
Reprocess(c) ==
    /\ at[c] = "reprocess"
    /\ status' = IF /\ status[vid[c]] # "none"
                    /\ IsValidTransition(status[vid[c]], "transcoding")
                 THEN [status EXCEPT ![vid[c]] = "transcoding"] ELSE status
    /\ Goto(c, "idle")
    /\ UNCHANGED << token, renditions, clock, disk, worker, answers, bounds >>

\* A statement or a file operation of a request fails: the handler answers 500
\* and leaves what it has done.
Fault(c) ==
    /\ faults < MaxFaults
    /\ at[c] \in {"init_token", "play_token"} \cup DeletionPoints
    /\ faults' = faults + 1
    /\ Goto(c, "idle")
    /\ UNCHANGED << rows, clock, disk, worker, answers, inits >>

-----------------------------------------------------------------------------
(* The worker: Transcode, from the choice of resolutions to SetReady.      *)

\* determineResolutions: every profile that the smaller side reaches.
DetermineResolutions(minDim) == {r \in Resolutions : r <= minDim}

WorkerGoto(p) == wat' = p /\ UNCHANGED << wvid, plan, todo >>
WorkerDone == wat' = "idle" /\ wvid' = Nobody /\ plan' = {} /\ todo' = {}

\* probeVideo: what ffprobe says, or a default of 854x480 when it fails.
Probed(v) == {MinDim[v], 480}

\* GetVideo, the probe and the choice of resolutions.
WorkerTake(v) ==
    /\ wat = "idle"
    /\ status[v] = "transcoding"
    /\ wat' = "mkdir"
    /\ wvid' = v
    /\ \E d \in Probed(v) : plan' = DetermineResolutions(d)
    /\ todo' = plan'
    /\ UNCHANGED << rows, clock, disk, callers, answers, bounds >>

WorkerMkdir ==
    /\ wat = "mkdir"
    /\ dir' = dir \cup {wvid}
    /\ WorkerGoto(IF todo = {} THEN "master" ELSE "encode")
    /\ UNCHANGED << rows, clock, original, variants, published, master, callers,
                    answers, bounds >>

\* MkdirAll of the resolution's directory, and ffmpeg into it. The lowest
\* resolution comes first.
WorkerEncode ==
    /\ wat = "encode"
    /\ original[wvid] # "none"
    /\ dir' = dir \cup {wvid}
    /\ variants' = [variants EXCEPT ![wvid] = @ \cup {Min(todo)}]
    /\ WorkerGoto("record")
    /\ UNCHANGED << rows, clock, original, published, master, callers, answers,
                    bounds >>

\* The foreign key refuses the row of a video that is gone.
UpsertVideoRendition(v, r) ==
    IF status[v] = "none" THEN renditions
    ELSE [renditions EXCEPT ![v] = @ \cup {r}]

\* Bug: the loop over the resolutions runs once more.
Bug_WorkerRecord ==
    /\ wat = "record"
    /\ renditions' = UpsertVideoRendition(wvid, Min(todo))
    /\ todo' = todo \ {Min(todo)}
    /\ wat' = IF todo = {} THEN "master" ELSE "encode"
    /\ UNCHANGED << status, token, clock, disk, callers, wvid, plan, answers, bounds >>

\* The row of the resolution just encoded; an error is logged and ignored.
WorkerRecord ==
    /\ wat = "record"
    /\ renditions' = UpsertVideoRendition(wvid, Min(todo))
    /\ todo' = todo \ {Min(todo)}
    /\ wat' = IF todo' = {} THEN "master" ELSE "encode"
    /\ UNCHANGED << status, token, clock, disk, callers, wvid, plan, answers, bounds >>

\* generateMasterM3U8 and WriteFile, which needs the directory.
WorkerMaster ==
    /\ wat = "master"
    /\ wvid \in dir
    /\ published' = published \cup {wvid}
    /\ master' = [master EXCEPT ![wvid] = plan]
    /\ WorkerGoto("ready")
    /\ UNCHANGED << rows, clock, original, dir, variants, callers, answers, bounds >>

\* The UPDATE of UpdateStatus: it looks at no status, and without the row it
\* changes nothing and reports no error.
WriteStatus(v, s) ==
    IF status[v] = "none" THEN status ELSE [status EXCEPT ![v] = s]

\* SetReady reads. Without the row, or after another status, it refuses and the
\* attempt has failed.
WorkerReadyCheck ==
    /\ wat = "ready"
    /\ WorkerGoto(IF status[wvid] = "transcoding" THEN "set_ready" ELSE "fail")
    /\ UNCHANGED << rows, clock, disk, callers, answers, bounds >>

\* SetReady writes, and the original goes unless it is kept.
WorkerReady ==
    /\ wat = "set_ready"
    /\ status' = WriteStatus(wvid, "ready")
    /\ original' = IF KeepOriginal THEN original ELSE [original EXCEPT ![wvid] = "none"]
    /\ WorkerDone
    /\ UNCHANGED << token, renditions, clock, dir, variants, published, master,
                    callers, answers, bounds >>

\* Any step of the encoding may fail; it must when what it needs is gone.
WorkerStumble ==
    /\ wat \in {"mkdir", "encode", "master"}
    /\ WorkerGoto("fail")
    /\ UNCHANGED << rows, clock, disk, callers, answers, bounds >>

\* handleTranscodeFailure: the last attempt fails the video, an earlier one
\* leaves it in transcoding, where the requeue job finds it.
WorkerFailCheck(last) ==
    /\ wat = "fail"
    /\ IF last /\ status[wvid] = "transcoding" THEN WorkerGoto("set_failed")
       ELSE WorkerDone
    /\ UNCHANGED << rows, clock, disk, callers, answers, bounds >>

WorkerFail ==
    /\ wat = "set_failed"
    /\ status' = WriteStatus(wvid, "failed_transcode")
    /\ WorkerDone
    /\ UNCHANGED << token, renditions, clock, disk, callers, answers, bounds >>

-----------------------------------------------------------------------------
Init ==
    /\ status = [v \in Videos |-> "none"]
    /\ token = [k \in Videos \X Purposes |-> 0]
    /\ renditions = [v \in Videos |-> {}]
    /\ expired = {}
    /\ issued = [k \in Videos \X Purposes |-> 0]
    /\ original = [v \in Videos |-> "none"]
    /\ dir = {} /\ published = {}
    /\ variants = [v \in Videos |-> {}]
    /\ master = [v \in Videos |-> {}]
    /\ at = [c \in Callers |-> "idle"]
    /\ vid = [c \in Callers |-> Nobody]
    /\ key = [c \in Callers |-> NoKey]
    /\ wat = "idle" /\ wvid = Nobody /\ plan = {} /\ todo = {}
    /\ granted = [v \in Videos |-> 0]
    /\ gone = {}
    /\ inits = [v \in Videos |-> 0]
    /\ faults = 0

Request(c, v) ==
    \/ InitInsert(c, v)
    \/ PlayInit(c, v)
    \/ DeleteRequest(c, v)
    \/ ReprocessRequest(c, v)
    \/ \E k \in Known : TusRequest(c, k, v)
    \/ \E k \in Known : MasterRequest(c, k, v)

CallerStep(c) ==
    \/ InitToken(c) \/ TokenRefused(c)
    \/ TusPost(c) \/ TusPatch(c) \/ TusDelete(c)
    \/ PlayToken(c) \/ MasterRow(c) \/ MasterFile(c)
    \/ DeleteTokens(c) \/ DeleteRenditions(c) \/ DeleteVideo(c) \/ DeleteFiles(c)
    \/ Reprocess(c) \/ Fault(c)

WorkerStep ==
    \/ \E v \in Videos : WorkerTake(v)
    \/ WorkerMkdir \/ WorkerEncode \/ WorkerRecord \/ WorkerMaster
    \/ WorkerReadyCheck \/ WorkerReady
    \/ WorkerStumble
    \/ \E last \in BOOLEAN : WorkerFailCheck(last)
    \/ WorkerFail

Next ==
    \/ \E c \in Callers, v \in Videos : Request(c, v)
    \/ \E c \in Callers : CallerStep(c)
    \/ WorkerStep
    \/ \E v \in Videos, p \in Purposes : Expire(v, p)
    \/ Cleanup

Spec == Init /\ [][Next]_vars

-----------------------------------------------------------------------------
\* A video that is ready has its master on the disk, and every resolution that
\* the master lists or play/init reports (StorageByVideo) has its segments,
\* while deletions, retries with another probe and requests interleave: the
\* files go only after the row (HandleDeleteVideo).
ReadyIsOnDisk ==
    \A v \in Videos : status[v] = "ready" =>
        /\ v \in published
        /\ master[v] \cup renditions[v] \subseteq variants[v]

\* Once a deletion is answered, and until the ID is used again, no token and no
\* row of the video is left or comes back, although a play/init may have seen
\* the video ready and the worker may still be writing its renditions.
DeletionIsFinal ==
    \A v \in gone :
        /\ status[v] = "none"
        /\ ~Referenced(v)

\* The token upload/init answered with opens the upload until its time is over
\* or a deletion of the video begins to remove tokens: no play/init, no cleanup
\* and no other request takes it away (UNIQUE (video_id, purpose)).
GrantedTokenWorks ==
    \A v \in Videos : granted[v] # 0 =>
        Accepts([v |-> v, p |-> "upload", n |-> granted[v]], v, "upload")

\* A token opens what it was issued for: whoever is past the check of the master
\* playlist carried a play token, so play/init found the video ready, and that
\* or a deletion is what its row still says.
PlayedWasReady ==
    \A c \in Callers : at[c] = "master_row" => status[vid[c]] \in {"ready", "none"}

\* What reprocess promises (reprocess.go: "O vídeo é colocado no estado
\* "transcoding""): a video still in the status the request was let in with is
\* in transcoding when the request ends. The table of UpdateStatus refuses it.
ReprocessRestarts ==
    [][\A c \in Callers :
          at[c] = "reprocess" /\ at'[c] = "idle" /\ status[vid[c]] \in Terminal
          => status'[vid[c]] = "transcoding"]_vars

=============================================================================
