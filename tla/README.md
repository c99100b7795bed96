# Streamedia in TLA+

Streamedia is a Go service that takes resumable video uploads (TUS), transcodes
them to HLS with ffmpeg and serves them behind short-lived tokens. This
directory holds its specification: modules that TLC checks on small instances,
and proofs that TLAPS checks for every value of the constants.

    tlc -workers 2 -config pipeline_slow.cfg Pipeline     # a run
    tlapm Pipeline_proofs.tla                             # the proofs

`PROJECT.json` lists components, runs, mutants, hazards, theorems and, under
`map`, the lines of the source that each definition models.

## 1. The system

| Component | State | Operations | Talks to | Modelled in |
|---|---|---|---|---|
| video status machine (`models/video.go`) | `videos.status`, `transcode_attempts`, duration, resolutions | `UpdateStatus` and the functions around it | every writer below | `VideoStatus`, `Pipeline`, `MediaLibrary` |
| upload hooks (`upload/tus.go`, `validation.go`) | files under `UploadTmpDir` | `ServeHTTP`, `preCreate`, `postReceive`, `HandlePostFinish`; one goroutine takes all events | tusd (channels), database, queue, notifier | `Pipeline`, `MediaLibrary`, `Shutdown` |
| upload init (`upload/init.go`) | row and upload token | `POST /init` | database | `MediaLibrary` |
| tokens and cleanup (`models/token.go`, `jobs/cleanup.go`) | `access_tokens` | issue, look up, expire, clean up | upload, playback, deletion | `MediaLibrary` |
| transcode queue (`transcode/queue.go`) | buffered channel, worker pool | `Enqueue`, `Start`, `Stop` | hook, requeue job, recovery; workers | `Pipeline`, `WorkQueue`, `Shutdown` |
| transcode worker (`transcode/worker.go`) | `MediaDir/<id>`, `video_renditions` | `Transcode`, `handleTranscodeFailure` | ffmpeg, database, notifier | `Pipeline`, `MediaLibrary` |
| startup recovery (`transcode/recovery.go`) | - | `RunStartupRecovery` | database, queue, notifier | `Pipeline` |
| upload killer (`jobs/killer.go`) | - | `runOnce` every 2 min, `Stop` | database, files, notifier | `Pipeline`, `Shutdown` |
| transcode requeue (`jobs/requeue.go`) | - | `runOnce` every 2 min, `Stop` | database, queue, notifier | `Pipeline`, `WorkQueue`, `Shutdown` |
| boot and shutdown (`cmd/server/main.go`) | order of the parts | `main` | all | `Pipeline`: boot and crash; `Shutdown`: the graceful end |
| notifier (`notify/`) | goroutines in flight | `Notify` | all writers of a status; the two sinks | `Notifications` |
| webhook client (`webhook/`) | `webhook_log` | `Deliver`, `send`, `sendAttempt` | the receiver, database | `Notifications` |
| SSE hub (`sse/`) | subscribers and their channels | `ServeHTTP`, `Deliver` | clients | `Notifications` |
| Discord alerter (`discord/`) | failures in a row | `AlertTranscodeFailure`, `RecordTranscodeSuccess` | worker | `Notifications` |
| playback (`serve/`) | play tokens | play/init, master | database, `MediaDir` | `MediaLibrary`; reads not |
| deletion, reprocess (`admin/`) | rows, files | `HandleDeleteVideo`, reprocess | database, files | `MediaLibrary` |
| accounts (`auth/`, `admin/users.go`, `models/user.go`) | users, roles, sessions | login, bootstrap of the first user, create, roles, delete | database | `Accounts` |
| configuration (`config/`, `admin/config_api.go`, `models/configuration.go`) | values in memory and in the database | put, delete, reload, start | everybody | `ConfigStore` |
| rate limiter (`middleware/ratelimit.go`) | buckets | allow, evict | upload, playback | no |
| statistics, database layer, HTTP plumbing, telemetry, web front end | - | queries, I/O, formatting | - | no |

How they interact: the pipeline's threads meet in the database, in the channel
of the queue and in the files of a video; each hands what it has written to the
notifier. Requests meet the pipeline in the same rows and directories.
Requests about users and about the configuration share only the database's one
connection with the rest. The modules follow these seams: each holds what is
written by more than one goroutine, and says what it takes from the others.

Behaviours that are hard to test, each at its line in `hazards`:

* **Read, then write.** The pool has one connection, so SQL statements are
  serial, but almost every operation is several of them. `UpdateStatus` is two
  (`SELECT` to validate, `UPDATE ... WHERE video_id = ?` to write) and four kinds
  of goroutine call it for the same video.
* **Scans.** Killer, requeue job and recovery select rows and act on them one
  by one later, on statuses and attempts that may have changed.
* **The full queue.** `Enqueue` writes `transcoding` before it knows whether the
  buffer has room.
* **Crashes.** The queue, the events and every goroutine die; rows and files
  stay.
* **The end of the process.** `main` stops the goroutines one by one while the
  others go on; a worker that is told to stop first empties the queue.
* **Timeouts.** "Stuck" and "idle" are guesses from `updated_at` and
  `last_chunk_at`: an encoding of several resolutions may last longer than the
  default 30 minutes of `TRANSCODE_STUCK`, as each ffmpeg has 30 of its own, and the
  wait in the queue has no limit at all. The requeue job then puts a video back that
  is queued or encoded still.
* **A client with a token.** TUS takes POST, PATCH and DELETE as long as the token is
  good: an original may be replaced or removed while it is queued or encoded, and
  the hook is not told of a removal.
* **Two channels.** tusd reports progress and completion over separate
  unbuffered channels; the `select` of the hook goroutine may take the
  completion first.
* **Rows without a transaction.** Deletion, init, play/init and the creation of
  a user are several statements each; foreign keys decide what of another
  request may come between, and a failure leaves the first part.
* **Goroutines per event.** A notification is two goroutines; the webhook's
  retries and the writes of slow streams go on after the next event, and after
  the video is deleted.
* **Memory and database.** A changed key is written, read back and assigned in
  three steps; two requests may do it at once, and a read may fail.
* **Failed reads taken for an absence.** The lookup of a webhook's URL and the read
  before a put of the configuration do the same whether the row is missing or the
  database failed.

What makes the pipeline correct: no video is lost between the statuses that
somebody looks for; each comes to rest; it is given up only after enough
attempts; what readers are told is what they find; the status keeps to its
table; a video is put back in the queue no more often than it timed out, and not
without limit. Of the library: what is ready is on the disk, what is
deleted stays deleted, a token opens what it was issued for and as long as it
was promised. Of the notifications: the log tells the attempts, an event goes
where it belongs, once to each stream, and a slow listener costs nobody else
an event. Of the accounts: nobody has a role that its granter could not give,
and a session is never somebody else's. Of the configuration: what was read was
validated, and what is in memory is what a restart would load.

## 2. The modules

| Module | Contents |
|---|---|
| `VideoStatus` | the statuses and `validTransitions` |
| `VideoLifecycle` | abstract specification: every change of a status is an entry of the table |
| `Pipeline` | from the first byte to the playlist: hook, queue, workers, jobs, recovery, crashes |
| `Shutdown` | `Pipeline` with the graceful end of the process |
| `WorkQueue` | abstract specification of the transcode queue, its workers and the requeue job: a job is put there once, and once more each time it timed out; first in first out, nothing lost but with the process |
| `PipelineHistory` | `Pipeline` with history variables counting failed transcodings and changes of the status |
| `MediaLibrary` | row, tokens, renditions and files of a video between requests and a worker |
| `Notifications` | a change of status on its way to webhooks, streams and the alerter |
| `Accounts` | users, roles and sessions; the database's one connection |
| `ConfigStore` | the table of the configuration and the values in memory |
| `MC...` | constants, symmetry and bounds for TLC |
| `..._proofs` | the theorems |

An operator named `Bug_X` is `X` with a slip that such code might have; the
mutants of `PROJECT.json` put it in the place of `X`.

### Pipeline: state

| Variable | In the program |
|---|---|
| `phase`, `crashes` | whether the process is down, in `RunStartupRecovery`, or serving |
| `status`, `attempts`, `described` | columns of `videos`; `described` is "duration and resolutions are set" |
| `file` | the upload in `UploadTmpDir`: `none`, `empty`, `partial`, or complete and `good` or `bad` (what the checks of `HandlePostFinish` will say) |
| `published` | `MediaDir/<id>/master.m3u8` exists |
| `queue` | the channel of `Queue` |
| `rows`, `idleRows` | the slices that recovery, requeue job and killer have selected and not yet worked off; a row keeps the status and attempts that were read |
| `at`, `vid` | the program point of each goroutine (`hook`, `killer`, `requeue`, `boot`, the workers) and the video in its hands |
| `snap` | `video.TranscodeAttempts` as the worker read it |
| `progressEv`, `completeEv` | tusd goroutines blocked on the two channels |
| `uploads` | POSTs so far, for the bound |
| `told` | events handed to `Notify` for the video |

### Pipeline: actions

One SQL statement, one removal of a file or one send is one step. `Check` is the
read of `UpdateStatus`, `Write` its update; a program point `x?` is before the
read and `x!` between the two. The callers differ in where they go when the
transition is refused, which is what the arguments of `Check` say.

* `TusCreate`, `TusChunk`, `TusFinish`, `TusTerminate`: the client and tusd
  (external, modelled from how `tus.go` sets it up and consumes its events). A second
  POST with the same token replaces the file, because `preCreate` chooses the video's
  ID as the upload's. DELETE (routed at `server.go:197`, let through by `ServeHTTP`
  with any good token, `tus.go:154-206`) removes the file at any time, whatever has
  become of the video.
* `HookProgress` ... `HookDiscard`: `consumeHooks`, `postReceive`,
  `HandlePostFinish` and its `fail`.
* `EnqueueCheck`, `EnqueueWrite`, `EnqueueSend`: `Queue.Enqueue` in the thread of
  its caller.
* `WorkerTake` ... `WorkerCount`: the loop of `Queue.Start`, `Transcode` and
  `handleTranscodeFailure`. `WorkerStumble` is any error from ffprobe to the
  playlist.
* `FailCheck`, `FailWrite`, `TellFailed`: giving a video up, in the worker, the
  requeue job and the recovery.
* `KillerScan`, `KillerRemove`, `KillerCheck`, `KillerFail`: `UploadKillerJob.runOnce`.
* `RequeueScan` (by status and age alone, `requeue.go:91-96`), `Restore`,
  `RestoreCheck`, `RestoreWrite`, `RollbackCheck`, `RollbackWrite`:
  `TranscodeRequeueJob.runOnce`; `RunStartupRecovery` shares `Restore...` because it does the same to each row (it also takes rows in
  `upload_complete` and does no rollback).
* `Crash`, `Boot`, `Serve`: the process. `Boot` is the `SELECT` of the recovery and
  `Serve` everything `main` starts after it.

`Work` reads the state as a `WorkQueue`: `pending` is the channel, `serving` the
video each worker has in hand, and `overdue` those that a round of the requeue job
has selected and not yet put back (`Overdue`). `Put` is the successful send, `Take` the
receive, `Done` the return of `Transcode`, `TimeOut` the `SELECT` of the requeue job,
`Forgo` its giving up on a row, `Lose` the end of the process.

Abstracted: payloads, sizes, names, the number of renditions, what ffmpeg writes.
Left out: errors of the database (each call of the code is taken to succeed),
errors of `os.Remove`, the two columns nobody's decision depends on
(`error_message`, `file_size_bytes`), time. A scan selects any set of rows in the
right status: every choice of timestamps is one of those sets.

### Pipeline: `Orderly` and `Quick`

With `Orderly = FALSE` a timeout may fire for any video at any moment, and a
client may come back at any moment with its token. `Orderly = TRUE` says two things
of time and of clients. The half hour of a timeout does not pass between two
statements of a goroutine about the video (`Passing`). A client sends a video once, or
begins anew while it is still sending, never after the killer has given the video up;
DELETE it may send at any time.

`Orderly` says nothing of the wait in the queue, which has no limit in the code, nor
of ffmpeg, which has half an hour for each resolution. `Quick` is the set of videos
for which these, too, stay within the timeout. The others are selected by `RequeueScan`
while they are queued or encoded, as the `SELECT` of the code does, and are then in the
queue, or in the hands of workers, several times at once.

So there are three kinds of properties: those that hold with no assumption on time;
those that need `Orderly` and hold for every video; and those of the quick videos.
Each theorem says which it is.

### Shutdown

`Shutdown` extends `Pipeline` with `main`'s deferred calls: `stopping` is the
component whose `Stop` `main` is in, `ended` the goroutines that have returned,
`ends` the processes so far that have ended, for the bound. `Signal` is the end of
`srv.Shutdown`, after which `routerCloser.Close` stops the hook goroutine;
`Return(t)` a goroutine that finds its channel closed when it is back at its
`select`, and a worker only when the queue is empty (`drainAndStop`); `Proceed` the
return of one `Stop` and the start of the next, in the order `NextStop`; `Exit` the
end of `main`. The steps of `Pipeline` go on for goroutines that have not returned
(`HookRuns` to `Boots`), and a crash may come at any of them (`MainCrash`); a signal
during the boot ends the process without any of this, as a crash does. Requests
that outlive the five seconds of `srv.Shutdown` go on until the process is gone, so
clients are never stopped. `AsCrash` is `Pipeline` again with `ends` for the crashes:
`EndsLikeCrashes` says that `Shutdown` implements it. Goroutines of `Notify` are not
waited for: `told` means that `Notify` was called, not that a webhook arrived.

### MediaLibrary

| Variable | In the program |
|---|---|
| `status`, `token`, `renditions` | the rows of `videos`, `access_tokens` and `video_renditions`; a token is its serial, by video and purpose, as `UNIQUE (video_id, purpose)` keeps one |
| `expired`, `issued` | tokens whose `expires_at` has passed; tokens ever given out, which anybody may still present |
| `original`, `dir`, `variants`, `published`, `master` | the file of the upload; the directory, segments and `master.m3u8` of the video, and what the master lists |
| `at`, `vid`, `key` | the program point of each request, its video and its token |
| `wat`, `wvid`, `plan`, `todo` | the same of the worker, with `determineResolutions`'s choice and what is left of it |
| `granted`, `gone` | what callers were answered: an upload token, a deletion |

`InitInsert`, `InitToken` are `POST /upload/init`; `TusRequest`, `TusPost`,
`TusPatch`, `TusDelete` the authorisation of an upload in `ServeHTTP` and again in
`preCreate`; `PlayInit`, `PlayToken`, `MasterRequest`, `MasterRow`, `MasterFile`
the playback; `DeleteRequest` to `DeleteFiles` the deletion, one step per
statement; `ReprocessRequest`, `Reprocess` the reprocessing; `Expire` and
`Cleanup` time and the cleanup job; `WorkerTake` to `WorkerFail` what a worker does
to rows and files; `Fault` a statement that fails. `Referenced` and the first
conjunct of `InsertAccessToken` are the foreign keys. The worker's `UpdateStatus` is a
read (`WorkerReadyCheck`, `WorkerFailCheck`) and a write that asks for nothing but the
row (`WriteStatus`). `reprocess` never gets past its read. The hook's part of an upload
is one step, which `Pipeline` takes apart, and the other writers of a status are
left to `Pipeline` too: one worker is all that changes a status in transcoding. Here
`Orderly` says that an ID is registered again only when no request and no worker
is busy with the video it named before; without it, the removal of files
that ends a deletion may meet the files of a second upload (listed as a hazard).

### Notifications

Reporters (hook, workers, jobs, recovery) call `Notify`, which reads the row and
starts a goroutine per sink. `Report` is any event of any video at any time, whatever
became of the write before it: the code logs a failed `UpdateStatus` and tells all the
same (`worker.go:397-400`), and what the row says by then is `Pipeline`'s affair. A
note is `<<video, event, serial>>`, a serial telling two reports of one event apart. It
has a delivery `wh` (program point, destination, tries) and a distribution `sse`
(program point, targets copied under the lock). `received` is what arrived at a
destination, `log` the rows of `webhook_log`, `there` the videos with a row. A listener
has a subscription `sub`, a channel `ch`, and what was written to its stream, `got`;
`due` and `lost` record what was distributed while it listened and what was dropped.
`streak` is `consecutiveFailures`; `row` and `alarms` count failures and alarms since
the last success.

`NotifyFails` and `ResolveFails` are the reads that find no row or fail: the first drops
the note, the second sends it to the global URL and is remembered in `unread`.
`Attempt` lets the POST arrive or not, and the answer be good or not, each
on its own; `LogFails` is the failed insert that ends the retries; `Copy` and
`Send` are the two halves of `Hub.Deliver`; `SendFailure`, `CountFailure` and
`SendAlarm` the three of `AlertTranscodeFailure`. Left out: payloads, signatures,
the length of backoffs, the heartbeat.

### Accounts

A request is a sequence of calls to the database. `Call(q, at)` waits for the one
connection; `conn` is its holder between calls, which only a transaction has.
`email` and `grants` are the rows of `users` and `user_roles`, `next` is
`AUTOINCREMENT`, `cookie` the session a person holds. `Callback` to `IssueSession`
are `HandleCallback` with the bootstrap of the first user; `Request` and `RoleAuth`
the middlewares; `CheckEmail` to `GrantRole` the creation of a user; `CheckUser`,
`DeleteUser` the deletion, with the cascade and with the foreign key of
`granted_by`; `ValidateRoleGrants`, `SetUserRoles` the change of roles; `Fault` a
call that fails.

### ConfigStore

`row` is the table, by key: whether the row is there, its value and whether it
has the type and validation that the migration wrote. `mem` is the field of
`Config`, and no more: the pool of workers, the size of the queue, the alerter and the
rate limiter are built of it at the boot (`main.go:71-87`, `:109`) and stay as they
are. A value is known by what the code does with it: the default, another
good one, zero, huge, or junk. `Converted` is the way to the unit of the field: a
number is raised to one, and a huge number of megabytes or seconds overflows when it
is multiplied (`wrapped`). `Put`, `Check`, `Write`, `Reload`, `Query`, `Assign` are
`HandleUpdateConfig` and `ReloadFromDB`; `Delete` shares all but the first two;
`Restart` is the end of the process at any moment with `Load` and `ApplyFromDB`.
`Check(q, fails)` takes a read that fails for a row that is not there, as
`config_api.go:64-81` does, and lets any value pass; `blind` has the keys whose last put
was such a one. `overlapped` and `missed` remember the keys that two requests were at
together, and those a reload could not read.

## 3. The runs

| Run | Instance | What it shows |
|---|---|---|
| `pipeline_slow` | `Pipeline`: 1 video, 2 workers, queue of 2, 2 attempts, 2 POSTs, 1 crash, `Orderly = TRUE`, `Quick = {}`, fair | `TypeOK`, `CompletedIsMovingOn`, `ExhaustedBeforeFailed`, `ReadyIsPlayable`, `FinalIsAnnounced`; that a video that waits and is encoded for as long as it likes is queued once per timeout (`QueuesPerTimeout`), with a limit (`CopiesAreBounded`), and comes to rest (`EverythingSettles`; 640 thousand states) |
| `pipeline_orderly` | `Shutdown`: 2 quick videos, 2 workers, queue of 1, 2 attempts, 1 POST each, 1 crash, 1 end of the process (a crash, a graceful end, or a crash during one), `Orderly = TRUE`, fair | `CompletedIsMovingOn`, `ToldAgrees`, `FinalIsAnnounced`, `RecoveryIsComplete`, that the pipeline implements `VideoLifecycle` (`FollowsLifecycle`), that a graceful end leaves nothing on its way to the queue (`NothingPendsAfterStop`) and comes to its end (`ShutdownEnds`; 760 thousand states) |
| `terminal_overwritten` | 1 video, 1 worker, `Orderly = TRUE`, `Quick = {}` | finding 1 |
| `failed_not_recorded` | 2 quick videos, 1 worker, queue of 1, `Orderly = TRUE` | finding 2 |
| `attempts_short` | 1 quick video, 1 worker, 3 attempts, `Orderly = TRUE` | finding 3 |
| `media_library` | 1 ID used twice, 3 requests at a time, 1 worker, 2 tokens of each purpose, 1 failure, `Orderly = TRUE` | `TypeOK`, `ReadyIsOnDisk`, `DeletionIsFinal`, `GrantedTokenWorks`, `PlayedWasReady` (1.1 million states) |
| `reprocess_refused` | 1 ID, 1 request at a time | finding 4 |
| `notifications` | 2 videos, one with its own URL, 2 reporters, 5 reports, each event twice, 2 listeners, channels of 1, 2 tries, alarm at 2, 1 deletion | `TypeOK`, `LogTellsTheAttempts`, `OwnURLFirst`, `ListenersAreIndependent`, `StreamsRepeatNothing`, `AlarmPerThreshold` (440 thousand states) |
| `accounts` | 2 people, 2 requests, 3 users ever, 1 failure, grants of `admin` or `acl` | `TypeOK`, `GrantsAreBacked`, `SessionsKeepTheirOwner` (6.4 million states) |
| `roles_hang` | 2 people, 2 requests, 2 users, fair | finding 5 |
| `config_store` | a number, a number of megabytes and a duration, 2 requests, every read and write may fail | `TypeOK`, `DescribedValuesAreValid`, `RestartChangesNothing` (650 thousand states) |
| `deleted_default` | the same | finding 6 |

Bounds of the pipeline: `MaxUploads` POSTs per video, `MaxCrashes` crashes,
`MaxEnds` ends of the process in `Shutdown`, and the sets. They are
enough for the cases at stake. In `pipeline_slow` hook, killer, requeue job, recovery
and workers contend for one video, two workers hold it at once after a requeue, and
it may be put back while both do; the queue and the workers have four places for it,
one more than `CopiesAreBounded` allows. In
`pipeline_orderly` one video fills the queue so that the other is refused, both
by the hook and by the recovery. A video interacts with others only through the
queue and the threads that are busy. `attempts` needs no bound: every round
costs one and the video is given up at the limit. Both instances are `Orderly`, which
keeps them small; the invariants they share with `Pipeline_proofs` are proved without
it. Deadlock is not checked: with all videos final, uploads
used up and no crash left the system rests, and should.

Bounds of the others. `media_library`: an ID is registered, deleted and registered
again (`MaxInits`), a token of each purpose replaced once (`MaxTokens`); three
requests are a deletion, one that it races and one that follows; a second ID
would meet the first only in the worker. `notifications`: five failures raise two
alarms and begin a third row; a webhook, the streams and the alerter share nothing but
the note they were given, so `Bounded` follows them by turns: one webhook with its
failures and a deletion, or two notes (`MaxFollowed`) over the streams of both
listeners, which fills a channel of one and lets two distributions overlap, or
the alerter with both reporters. The limits
of 16, 5 and 3 in the code (channel, alarm, tries) are small here and arbitrary in
the proofs. `accounts`: three rows are a first user, one it creates and one that
comes after a deletion; the roles asked for are of two
levels. `config_store`: three keys because a plain number, a number of megabytes and a
duration are converted differently; a request writes nothing of another key, so
`OneKeyAtATime` follows one key away from its default at a time. It is the run that
checks for deadlock. The others stop
where the system may: a library with its bounds used up and a note delivered
everywhere rest; in `accounts` the change of roles of finding 5 stops
everything, which is what that finding says.

Every property has a mutant in `PROJECT.json`: a change of one mapped definition,
such as a plausible slip would make, under which TLC finds it violated.

### Fairness

`FairSpec` assumes that the Go scheduler runs each goroutine that can run. An
encoding ends because the code gives ffprobe 5 seconds and each ffmpeg 30
minutes. `Boot` is fair because the service is restarted when it dies
(`docker-compose.yml`). The scans are fair for the set of all videos that are
left: rows that nobody updates are in the end older than the timeout, and the
tickers never stop. When `Orderly`, such a scan is not enabled while one of its videos
is between two statements, so its fairness promises a scan only of videos that stay in
the queue, with ffmpeg or with nobody. Fairness is weak throughout and stated per goroutine, not
per step, so it promises nothing about which branch a goroutine takes. Clients
and crashes are not fair.

`FairMainSpec` of `Shutdown` asks for less: one weak fairness on all that the
process does of itself. As long as something in it can move something does, no
matter what. A shutdown ends even so, because what is left to do is finite: each
round of a video costs an attempt, and clients have a bounded number of POSTs.

`FairSpec` of `Accounts`: `net/http` serves each request in a goroutine of its own,
and a call that can get the connection returns; a request need not be made.

### Findings

1. `TerminalIsFinal` (`spec/pipeline.md`: `ready`, `failed_upload` and
   `failed_transcode` are terminal, every write passes the validation). The
   validation and the write are separate statements (`models/video.go:204`, `:208`),
   and a writer that validated an older status replaces a final one. It takes no
   timeout between two statements: a video that has waited in the queue for longer
   than the stuck timeout is put back by the requeue job while a worker that has just
   taken it fails its last attempt. For quick videos `FollowsLifecycle` holds.
2. `FailedIsRecorded` (comment of `HandlePostFinish`: any failure sets
   `failed_upload`). If the queue is full, `Enqueue` has already written
   `transcoding`, from which `failed_upload` is refused: the file is gone and
   `failed` was sent, while the row stays in `transcoding` until the requeue job has
   used up its attempts.
3. `TriedBeforeFailed` (`spec/operacao.md`: attempts before `failed_transcode`). The
   worker counts a failed run and the requeue job counts it again, so with
   three attempts a video is given up after two failed runs.
4. `ReprocessRestarts` (comment of `HandleReprocessVideo`: the video is put in `transcoding`
   and its attempts are reset; allowed from `ready`, `failed_transcode` and
   `failed_upload`). The handler lets in these three statuses only
   (`admin/reprocess.go:47`) and then asks `UpdateStatus` for a transition that none of
   them has (`:58`), so it never succeeds.
5. `RoleUpdateAnswers` (`models/user.go:243`, `admin/users.go:188`: the roles are
   replaced in a transaction). `SetUserRoles` begins a transaction, which takes the
   only connection (`db/db.go:46`), and then makes its calls on the pool: they wait
   for the connection that only its own end would free. The request, and each later
   one, hangs.
6. `DeletedMeansDefault` (`admin/config_api.go:102`: after the removal the default
   applies). `ReloadFromDB` falls back to the field as it is (`config/config.go:247`),
   so the deleted value stays until the next start.

What the modules reach besides, and no run lists:

* `HandleUpdateConfig` validates a value before it is written (`config_api.go:43`), but
  takes any error of the read for a missing row (`:64-81`): a value that is not valid
  may then be written over a row with metadata. It takes a read that fails and a
  write that does not. `DescribedValuesAreValid` leaves these rows out (`blind`).
* `upload.max_size_mb` has a floor of one and is then multiplied by 1024 * 1024
  (`config.go:224`, `:253`); values that the validation admits overflow, to a limit
  that is not positive (`wrapped`). The durations in seconds do the same.
* With two workers on one video, `failed` may be told of a video that the other has
  set `ready`: the failure is told although its status was refused
  (`worker.go:397-400`). `ToldAgrees` is about quick videos, which have one worker.

## 4. The proofs

Each theorem is about every value of the constants, from the named assumption of
its module alone (`PipelineAssumption`, `ShutdownAssumption`, `LibraryAssumption`,
`NotificationsAssumption`, `AccountsAssumption`, `ConfigAssumption`): names are
distinct and limits are naturals, `Quick` is a set of videos, and `Shutdown` has at
least one worker, the floor that `config.go` gives their number. The sets of videos, workers, requests, keys and
listeners are arbitrary. Theorems that need the intention behind the timeouts, or
behind the reuse of IDs, say `ASSUME Orderly`. Those about quick videos hold for
whatever the set is, beside any number of videos that are not quick.

### Pipeline

| Theorem | Statement |
|---|---|
| `TypeCorrect` | `Spec => []TypeOK`, with the bound of the queue |
| `CompletedMovesOn` | `Spec => []CompletedIsMovingOn` |
| `FailedIsExhausted` | `Spec => []ExhaustedBeforeFailed` |
| `ReadyHasMaster` | `Spec => []ReadyIsPlayable` |
| `FinalGetsAnnounced` | `Spec => []FinalIsAnnounced` |
| `RecoveryLeavesNothing` | `Spec => RecoveryIsComplete` |
| `ImplementsWorkQueue` | under `Orderly`, `Spec => QueuesPerTimeout`, for all videos |
| `ImplementsLifecycle` | under `Orderly`, `Spec => FollowsLifecycle`, for quick videos |
| `WhatIsToldAgrees` | under `Orderly`, `Spec => []ToldAgrees`, for quick videos |
| `ToldFailuresAreFinal` | under `Orderly`, `Spec => []FailedIsRecordedOrLost`, for quick videos |
| `FinalsStay` | under `Orderly` and `Quick = Videos`, `Spec => TerminalIsFinal` (finding 1) |

`Pipeline_proofs` has the first five. `TypeOK` is inductive; one lemma per thread
shows that its steps keep it. Each of the others is an invariant beside it.
`CompletedIsMovingOn` and `FinalIsAnnounced` are inductive as they are stated, as
they name the thread that is on its way. The other two need what the threads
carry:

* `Counted`: a thread about to write `failed_transcode` has a video whose
  attempts are used up; a count that was read earlier, in `snap` or in a row of a
  scan, is never above the column, because no step lowers it; and a worker that
  gives up has counted its own failure.
* `Playable`: a worker past `publish` has published its video, one past
  `describe` has described it, and nothing is ever unpublished.

`PipelineOrder_proofs` has the rest, from an invariant about who holds a video:

* `Ordered` (under `Orderly`): until it is in the queue a video has one holder, which is
  a thread at work, a row of a scan or the event of its completion, and a quick
  video has one ever after, in the queue or with a worker (`OneHolder`). One that is
  not quick may then be in several places of the queue, with several workers and with
  the requeue job at once (`Loose`), but with nobody else (`FirmlyHeld`). The status
  of a video is one of those that its holder's program point allows (`StatusesAt`,
  `StatusFits`); of a loose holder only that the upload is over (`FitsAt`). A file
  announced as complete is complete (`FileFits`). Each is needed for the others: what a
  job finds too old is held by nobody, or by loose holders (`TimedOutIsLoose`); a
  thread that takes a quick video up is alone; being alone, it finds the status it
  read. The steps have three shapes, with a lemma each: a thread goes on with its video
  (`AdvanceKeepsOrder`), takes one up (`TakingUpKeepsOrder`), or lets go
  (`QuietKeepsOrder`).
* For `WorkQueue`, each step is a `Put`, `Take`, `Done`, `TimeOut`, `Forgo` or `Lose`, or
  leaves queue, hands and overdue videos alone (`QueueStep`). What the hook and the
  recovery send is neither queued nor in a worker's hands nor overdue
  (`SentIsUnknown`), which is where `OneHolder` is needed, for slow videos too: the
  channel itself would take them twice. What the requeue job sends it has selected
  before, and sends once (`RequeueGoesOn`).
* The refinement of `VideoLifecycle` needs no more than `Ordered`: at each `x!` the status
  of a quick video is one from which the transition is in the table (`WriteMoves`).
* `ToldFits`, for what was told: a quick video whose failure was told without being
  recorded has lost its original (`Lost`; finding 2), and without it no worker
  gets as far as `ready`. A removal by TUS only adds to that.
* `Recovering` (without `Orderly`): only the thread `boot` acts before the process
  serves, and each unfinished video is in its rows, its hands or the queue, or the
  queue is full.

### PipelineHistory

| Theorem | Statement |
|---|---|
| `AttemptsAreLimited` | under `Orderly`, `HistorySpec => []AttemptsStayNearLimit`, for quick videos |
| `RunsAreLimited` | under `Orderly`, `HistorySpec => []TriedHalfAsOften`, for quick videos |
| `ChangesAreLimited` | under `Orderly`, `HistorySpec => []ChangesAreBounded`, for quick videos |

These say what finding 3 leaves of `MAX_TRANSCODE_ATTEMPTS` for a video that is served
within the timeout: the column passes it by
one at most; twice the failed runs of a video stay within it, two and the number
of crashes; and the status changes no more often than twice the limit and four
times, however many crashes there are, so no video goes round for ever. The
invariant `History` beside `Ordered` relates the two counters to the column, at
each program point of the video's holder (`Tried`, `Changed`): a run that fails is
paid by two attempts, the worker's and the requeue job's, unless a crash comes
between; a way back to `upload_complete` is paid by one; and the attempts
in a row of a scan are those of the column still (`RowsAreFresh`), so that what was
compared with the limit is what is advanced.

### Shutdown

| Theorem | Statement |
|---|---|
| `MainTypeCorrect` | `MainSpec => []MainTypeOK` |
| `NothingPends` | `MainSpec => []NothingPendsAfterStop` |
| `InvariantsSurvive` | `MainSpec => [](FinalIsAnnounced /\ CompletedIsMovingOn /\ ReadyIsPlayable /\ ExhaustedBeforeFailed)` |
| `LifecycleSurvives` | under `Orderly`, `MainSpec => FollowsLifecycle` |
| `RecoverySurvives` | `MainSpec => RecoveryIsComplete` |
| `WorkQueueSurvives` | under `Orderly`, `MainSpec => QueuesPerTimeout` |
| `ToldSurvives` | under `Orderly`, `MainSpec => []ToldAgrees` |
| `NothingIsDropped` | `MainSpec => QueuedIsTaken` |
| `EndsAreCrashes` | `MainSpec => EndsLikeCrashes` |

Every step of `Shutdown` but `Exit` is a step of `Pipeline` or leaves its variables
alone (`StepsOfPipeline`), so the lemmas of `Pipeline_proofs` and
`PipelineOrder_proofs` apply as they are, and `Exit` is the only new case
(`ExitKeeps`): nothing it throws away was in use. That is `Draining`: a goroutine that
has returned has nothing in hand, `main` has stopped those that come before the
one it is stopping, and once a worker has returned the queue is empty and stays
so, because everything that fills it has been stopped.

With `Draining`, `Exit` is for `Pipeline` a `Crash` that finds little to throw away,
and counting it as one gives the refinement `EndsAreCrashes`: no intention behind
timeouts or clients is assumed, so whatever `Pipeline` promises across crashes a
service that is stopped politely keeps too. `NothingIsDropped` is the part of
a graceful end that a crash does not have: a video leaves the queue only into the
hands of a worker.

### MediaLibrary

| Theorem | Statement |
|---|---|
| `TypeCorrect` | `Spec => []TypeOK` |
| `DeletedStaysDeleted` | `Spec => []DeletionIsFinal` |
| `GrantedTokensWork` | `Spec => []GrantedTokenWorks` |
| `PlayersWereRightToPlay` | under `Orderly`, `Spec => []PlayedWasReady` |
| `ReadyVideosAreOnDisk` | under `Orderly`, `Spec => []ReadyIsOnDisk` |
| `TokensAreNotRevived` | `Spec => RefusedForEver` |
| `NothingOpensWhatIsGone` | `Spec => []GoneIsClosed` |

`RowsAreThere` says that whatever refers to a video has its row, which is what the
foreign keys give, and that a deletion was answered only without one.
`GrantedInForce` puts the answered token into the tables. `TokensGrowOlder` says that
the row of a token stays, goes, or makes place for one that was not yet issued, and
that an expired token stays so while its row does: hence a token once refused is
refused for ever, and with `GoneIsClosed` those of a deleted video do not open
another that is given its ID. `WorkersStatus` says that
between its read and its write of a status the worker's video is in transcoding still,
or gone, as nobody else writes that status here; and `PlaysAreOfReady`
that play tokens, and the requests past a check for `ready`, are of videos that
still are, or are gone. `FilesAreThere` follows the worker through the resolutions
of its plan (`WorkersFiles`): what is recorded has its segments, and the master
lists nothing else.

### Notifications

| Theorem | Statement |
|---|---|
| `LogsTellTheAttempts` | `Spec => []LogTellsTheAttempts` |
| `OwnURLComesFirst` | `Spec => []OwnURLFirst` |
| `AlarmsKeepCount` | `Spec => []AlarmPerThreshold` |
| `ListenersShareNothing` | `Spec => []ListenersAreIndependent` |
| `StreamsTellOnce` | `Spec => []StreamsRepeatNothing` |
| `TypeCorrect` | `Spec => []TypeOK` |

`Reporting` has the types of what reporters do; a note is reported once and its
delivery begins with that (`BegunOnce`). `DeliveriesAccounted` says of each delivery, at each of its program points, what it has
sent, where, and what the log holds of it, whichever reads and inserts failed: what
went to the global URL of a video with its own is a note whose lookup failed, and no
note has two destinations. `Counted` keeps the alerter's counter below the
threshold.
`DistributionsAccounted` says of each listener that its notes are pending in a
distribution, in its channel, written or dropped, and counts them, so that none is
in two places: a note is copied once, as its distribution begins with its delivery,
and a pending note is not one that was dropped. `EachInOnePlace` draws from the
count alone that no stream shows a note twice; `DueOfOneVideo` adds that all it shows
is of the video it subscribed to.

### Accounts

| Theorem | Statement |
|---|---|
| `TypeCorrect` | `Spec => []TypeOK` |
| `GrantsStayBacked` | `Spec => []GrantsAreBacked` |
| `SessionsAreTheirOwners` | `Spec => []SessionsKeepTheirOwner` |
| `RolesAreNotTakenAway` | `Spec => RolesOnlyGrow` |
| `ConnectionIsNeverReturned` | `Spec => HangIsForEver` |

`InTransaction`: a transaction keeps the connection for its request, so no other
call comes between its statements. Sessions rest on ids that are never given
twice (`TablesGrow`). For the grants, a request past its authorisation carries
the roles of the one who asked; that these still back what it inserts rests on
the foreign key of `granted_by`, which keeps whoever has granted something.

The last two measure finding 5: the change of roles never writes, for any number of
users and requests, and once a request holds the connection nothing is written any
more and no request that has begun gets any further (`OnlyArrivals`), which the
counterexample of the run shows of one request.

### ConfigStore

| Theorem | Statement |
|---|---|
| `TypeCorrect` | `Spec => []TypeOK` |
| `ValidationSurvivesRaces` | `Spec => []DescribedValuesAreValid` |
| `MemoryIsWhatARestartLoads` | `Spec => []RestartChangesNothing` |
| `DeletionsWaitForTheRestart` | `Spec => OnlyPutsChangeMemory` |

`CheckedBeforeWritten`: a request that could read the row, and is about to write over
one with metadata, has a value they admit; a row without metadata never gets any, so
what was checked against none is not written over a row that has them. A put that
could not read is left aside (`blind`), until another has written the row. `MemoryFollows`: a key
that one request at a time was at has in memory what its row gives, or the one
request is on the way to make it so. `FieldsAreFixed`: a field that is converted back
and forth stays what it is, as a reload without a row does to it, unless its product
overflowed: one in bytes that is not positive is raised to a megabyte by the next
reload. `DeletionsAreHarmless` makes finding 6 general:
where requests do not overlap, one that deletes has nothing in hand but the value
that is in memory already, so between two starts only a put that wrote the row
changes a field that has not overflowed.

### Formulas that no run lists

Some theorems state formulas that are no property of a passing run:
`TerminalIsFinal`, which the run of finding 1 violates and which holds when every video
is quick; the three of `PipelineHistory`; `FailedIsRecordedOrLost`, which is what is
left of finding 2; `QueuedIsTaken` and `EndsLikeCrashes`; `RefusedForEver`, `GoneIsClosed`,
`RolesOnlyGrow`, `HangIsForEver` and `OnlyPutsChangeMemory`. They are proved for every
value of the constants; those of state and step hold for TLC on the instances of the
runs of their modules as well.

### Only model-checked

`EverythingSettles` and `ShutdownEnds`, because liveness under fairness is out
of the prover's reach; `EverythingSettles` under `Orderly`, with waits and encodings of
any length. `CopiesAreBounded`, whose proof would have to count the places of a video
in the queue against its attempts. And the findings, each of which is a behaviour
that TLC shows.

## 5. Not modelled

* **The rest of the shutdown.** The `Stop` of the cleanup job and of the rate limiter
  touch nothing of the pipeline; the five seconds for requests have no clock here;
  notes that are still on their way when the process ends are lost with it, as
  `Notify` keeps nothing.
* **The rate limiter.** Buckets in memory under a lock, with an eviction; it can
  only refuse a request, and every model lets a request fail to come.
* **Segments, status, thumbnails, statistics, storage queries.** Each reads one file
  or makes one query, and writes nothing that another step reads.
* **Errors of the database in the pipeline.** `Pipeline` takes every statement to
  succeed; `MediaLibrary`, `Notifications`, `Accounts` and `ConfigStore` let calls
  fail. So a failing rollback of the requeue job, after which a video would rest in
  `upload_complete` (`jobs/requeue.go:156`), is not in `CompletedIsMovingOn`.
* **A second upload that meets the end of a deletion.** `MediaLibrary` without
  `Orderly` has these behaviours, and the two theorems that need `Orderly` do not
  hold there; the hazard is listed.
* **Several IDs in one library, several workers on one directory.** The first meet
  only in the worker. The second happens to a video that is not quick: `Pipeline` has
  the workers, their statuses and their announcements, but not what one of them does to
  the files of a directory that the other has published or is still writing;
  `MediaLibrary`, which has the files, has one worker.
* **What payloads say.** An event carries whatever the row says when `Notify` reads it,
  which may be a later status, or an earlier one when the write was refused. Nor is
  there an order of the events of a video: each has goroutines of its own.
* **Parts built at the boot.** A changed number of workers, size of the queue or limit
  of a rate takes effect at the next start; `ConfigStore` follows the field only.
* **HTTP plumbing, telemetry, the web front end, opening and migrating the
  database.** No state that the service's other parts depend on.
