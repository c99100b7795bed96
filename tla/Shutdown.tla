------------------------------ MODULE Shutdown ------------------------------
(***************************************************************************)
(* The graceful end of the process of Pipeline (cmd/server/main.go): after *)
(* SIGTERM main waits a while for requests and returns, and its deferred   *)
(* calls stop the goroutines one by one, in the reverse order of their     *)
(* start: the hook goroutine (upload/tus.go), the requeue and killer jobs  *)
(* (jobs/), and the workers of the queue (transcode/queue.go). Each Stop   *)
(* closes a channel and waits for the goroutine, which is in the middle of *)
(* something and hears of it when it comes back to its select.             *)
(*                                                                         *)
(* Requests that outlive the wait go on until the process ends, so clients *)
(* are not stopped; and the process may still crash at any step.           *)
(***************************************************************************)
EXTENDS Pipeline

CONSTANT MaxEnds   \* bound: ends of the process, crashes included

\* config.go: TRANSCODE_WORKERS is at least one.
ASSUME ShutdownAssumption == Workers # {} /\ MaxEnds \in Nat

VARIABLES
    stopping,   \* "no", or whose Stop main is in
    ended,      \* the goroutines that have returned
    ends        \* processes so far that have ended

mainVars == << stopping, ended, ends >>

Jobs == {"requeue", "killer"}

\* The goroutines that a Stop waits for.
Stopped(p) == IF p = "queue" THEN Workers ELSE {p}

MainTypeOK ==
    /\ TypeOK
    /\ stopping \in {"no", "hook", "queue"} \cup Jobs
    /\ ended \subseteq Threads \ {"boot"}
    /\ ends \in 0..MaxEnds

-----------------------------------------------------------------------------
(* The goroutines.                                                         *)

\* A goroutine at its select: it has nothing in hand. A job has no rows left of
\* its scan; a worker that finds its stop channel closed first empties the queue.
AtSelect(t) ==
    /\ Idle(t)
    /\ t = "requeue" => rows["requeue"] = {}
    /\ t = "killer" => idleRows = {}
    /\ t \in Workers => queue = << >>

\* Bug: the hook goroutine hears of nothing but the events of tusd.
Bug_Return(t) ==
    /\ stopping \notin {"no", "hook"} /\ t \in Stopped(stopping) \ ended
    /\ AtSelect(t)
    /\ ended' = ended \cup {t}
    /\ UNCHANGED << vars, stopping, ends >>

\* The select takes the closed channel, and the goroutine returns. It may as well
\* take what else is ready: an event, a tick, a video.
Return(t) ==
    /\ stopping # "no" /\ t \in Stopped(stopping) \ ended
    /\ AtSelect(t)
    /\ ended' = ended \cup {t}
    /\ UNCHANGED << vars, stopping, ends >>

-----------------------------------------------------------------------------
(* main.                                                                   *)

\* srv.Shutdown has returned, and routerCloser.Close has closed the first channel.
Signal ==
    /\ phase = "running"
    /\ stopping = "no"
    /\ ends < MaxEnds
    /\ stopping' = "hook"
    /\ UNCHANGED << vars, ended, ends >>

\* Bug: Queue.Stop comes before those of the jobs.
Bug_NextStop == [hook |-> "queue", queue |-> "requeue", requeue |-> "killer"]

\* The order of the deferred calls. (That of the cleanup job comes second, and
\* touches nothing of this.)
NextStop == [hook |-> "requeue", requeue |-> "killer", killer |-> "queue"]

\* wg.Wait returns, and the next Stop closes its channel.
Proceed ==
    /\ stopping \in DOMAIN NextStop
    /\ Stopped(stopping) \subseteq ended
    /\ stopping' = NextStop[stopping]
    /\ UNCHANGED << vars, ended, ends >>

MainGone ==
    /\ stopping' = "no"
    /\ ended' = {}
    /\ ends' = ends + 1

\* A process that is gone leaves the database and the disk.
Gone ==
    /\ phase' = "down"
    /\ queue' = << >>
    /\ rows' = [t \in {"requeue", "boot"} |-> {}]
    /\ idleRows' = {}
    /\ at' = [t \in Threads |-> "idle"]
    /\ vid' = [t \in Threads |-> NoVideo]
    /\ snap' = [w \in Workers |-> 0]
    /\ progressEv' = {}
    /\ completeEv' = {}
    /\ UNCHANGED << crashes, db, disk, uploads, told >>
    /\ MainGone

\* Bug: the process ends without waiting for its workers.
Bug_Exit == stopping = "queue" /\ Gone

\* Queue.Stop returns, the database is closed, and main is done.
Exit == stopping = "queue" /\ Workers \subseteq ended /\ Gone

MainCrash == Crash /\ ends < MaxEnds /\ MainGone

-----------------------------------------------------------------------------

MainInit == Init /\ stopping = "no" /\ ended = {} /\ ends = 0

\* The steps of Pipeline, of goroutines that have not returned.
HookRuns == "hook" \notin ended /\ Hook /\ UNCHANGED mainVars
WorkerRuns(w) == w \notin ended /\ Worker(w) /\ UNCHANGED mainVars
KillerRuns == "killer" \notin ended /\ KillerStep /\ UNCHANGED mainVars
RequeueRuns ==
    /\ "requeue" \notin ended
    /\ RestorerStep("requeue") \/ RollbackCheck \/ RollbackWrite
    /\ UNCHANGED mainVars
KillerTicks(S) == "killer" \notin ended /\ KillerScan(S) /\ UNCHANGED mainVars
RequeueTicks(S) == "requeue" \notin ended /\ RequeueScan(S) /\ UNCHANGED mainVars
Boots == (Boot \/ RestorerStep("boot") \/ Serve) /\ UNCHANGED mainVars

\* What the process does of itself: everything but what clients, signals and
\* crashes do, and the ticks that find part of what there is.
Progress ==
    \/ HookRuns
    \/ \E w \in Workers : WorkerRuns(w)
    \/ KillerRuns
    \/ RequeueRuns
    \/ KillerTicks(AllIdle) \/ RequeueTicks(AllStuck)
    \/ Boots
    \/ \E t \in Threads : Return(t)
    \/ Proceed \/ Exit

MainNext ==
    \/ Progress
    \/ Client /\ UNCHANGED mainVars
    \/ \E S \in SUBSET Videos : KillerTicks(S) \/ RequeueTicks(S)
    \/ Signal
    \/ MainCrash

MainSpec == MainInit /\ [][MainNext]_<< vars, mainVars >>

\* The weakest fairness that makes sense: as long as a goroutine can take a step
\* one of them takes one, no matter which. ffmpeg and ffprobe have timeouts in the
\* code, so an encoding ends; a process that is down is started again; a video
\* that nothing updates any more is in the end older than the timeouts, so a tick
\* finds all that is left.
FairMainSpec == MainSpec /\ WF_<< vars, mainVars >>(Progress)

-----------------------------------------------------------------------------

\* "garantindo que nada fique pendente quando Stop() retornar" (queue.go): once
\* the workers have returned nothing is in the queue and nobody is about to put
\* anything there, so no video is left on its way to it. The workers alone cannot
\* see to that: it takes the callers of Enqueue to be stopped before them.
NothingPendsAfterStop ==
    Workers \subseteq ended /\ stopping = "queue" =>
        /\ queue = << >>
        /\ \A v \in Videos : status[v] # "upload_complete"
        /\ \A t \in Threads : Idle(t)

\* A shutdown comes to its end, whatever the goroutines had in hand when the signal
\* came: none waits for one that main stopped before it.
ShutdownEnds == stopping # "no" ~> phase = "down"

\* A graceful end leaves nothing that a crash might not leave: with every end of
\* the process taken for a crash this is Pipeline, so whatever holds there at all
\* times holds here too.
AsCrash == INSTANCE Pipeline WITH crashes <- ends, MaxCrashes <- MaxEnds
EndsLikeCrashes == AsCrash!Spec

=============================================================================
