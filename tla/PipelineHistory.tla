-------------------------- MODULE PipelineHistory --------------------------
(***************************************************************************)
(* Pipeline with history variables that count, for each video, the runs    *)
(* of Transcode that failed and the changes of its status. The first is    *)
(* what transcode_attempts is taken for; the column itself is advanced by  *)
(* the worker's failure handler and by the job that puts the video back in *)
(* the queue.                                                              *)
(***************************************************************************)
EXTENDS Pipeline

VARIABLES failures, changes

\* The workers that reach the failure handler of v with this step.
Failing(v) == {w \in Workers : vid[w] = v /\ at[w] # "count" /\ at'[w] = "count"}

HistoryInit ==
    /\ Init
    /\ failures = [v \in Videos |-> 0]
    /\ changes = [v \in Videos |-> 0]

HistoryNext ==
    /\ Next
    /\ failures' = [v \in Videos |-> failures[v] + Cardinality(Failing(v))]
    /\ changes' = [v \in Videos |->
                      IF status'[v] = status[v] THEN changes[v] ELSE changes[v] + 1]

historyVars == << vars, failures, changes >>

HistorySpec == HistoryInit /\ [][HistoryNext]_historyVars

\* spec/operacao.md, MAX_TRANSCODE_ATTEMPTS: the number of attempts before
\* failed_transcode. So a video that is given up was transcoded that often.
TriedBeforeFailed ==
    \A v \in Videos :
        status[v] = "failed_transcode" => failures[v] >= MaxTranscodeAttempts

-----------------------------------------------------------------------------
(* What the code keeps to instead for a quick video, when timeouts and     *)
(* clients are orderly. The requeue job counts an attempt of another video *)
(* each time it has waited too long, whatever a worker does with it.       *)

\* The column passes its limit by one at most, when the run of the last attempt
\* fails too: nobody puts a video back in the queue that has reached the limit,
\* in this process or after a crash (runOnce, RunStartupRecovery).
AttemptsStayNearLimit ==
    \A v \in Quick : attempts[v] <= MaxTranscodeAttempts + 1

\* A video is tried about half as often as the limit says: between two runs that
\* fail worker and requeue job count one attempt each, and only a crash between
\* the failure and its count, or a retry by the recovery, evens that out.
TriedHalfAsOften ==
    \A v \in Quick : 2 * failures[v] <= MaxTranscodeAttempts + 2 + crashes

\* The status of a video changes a bounded number of times, whatever crashes: each
\* way back from transcoding to upload_complete costs an attempt, and all other
\* changes lead on. So no video goes round for ever (requeue.go, recovery.go).
ChangesAreBounded ==
    \A v \in Quick : changes[v] <= 2 * MaxTranscodeAttempts + 4
=============================================================================
