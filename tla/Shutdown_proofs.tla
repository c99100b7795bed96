-------------------------- MODULE Shutdown_proofs --------------------------
(***************************************************************************)
(* Proofs about Shutdown: nothing pends when the workers have returned, no *)
(* final status goes unannounced, and the invariants of Pipeline survive   *)
(* graceful ends as they survive crashes. Every step of Shutdown but Exit  *)
(* is a step of Pipeline, whose lemmas are used as they are; with Exit     *)
(* counted as a crash Shutdown implements Pipeline.                        *)
(***************************************************************************)
EXTENDS Shutdown, PipelineOrder_proofs, TLAPS

\* A goroutine that has returned has nothing in hand, and main has stopped those
\* that come before it; once a worker has, the queue is empty and stays so, because
\* all that could fill it has been stopped.
Draining ==
    /\ stopping \in {"no", "hook", "queue"} \cup Jobs
    /\ ended \subseteq Threads \ {"boot"}
    /\ stopping # "no" => phase = "running"
    /\ stopping = "no" => ended = {}
    /\ phase = "running" => Idle("boot") /\ rows["boot"] = {}
    /\ stopping \in Jobs \cup {"queue"} => "hook" \in ended
    /\ stopping \in {"killer", "queue"} => "requeue" \in ended
    /\ stopping = "queue" => "killer" \in ended
    /\ \A t \in ended : Idle(t)
    /\ "requeue" \in ended => rows["requeue"] = {}
    /\ ended \cap Workers # {} => stopping = "queue" /\ queue = << >>

\* What a step of thread t leaves as it was.
OthersStay(t) ==
    /\ \A u \in Threads \ {t} : at'[u] = at[u]
    /\ \A s \in {"requeue", "boot"} \ {t} : rows'[s] = rows[s]

LEMMA Distinct ==
    /\ \A w \in Workers : w \notin {"hook", "killer", "requeue", "boot"}
    /\ {"hook", "killer", "requeue", "boot"} \cup Workers = Threads
  BY PipelineAssumption DEF Threads

LEMMA EnqueueFrame ==
    ASSUME TypeOK, NEW t \in Enqueuers, Enqueue(t)
    PROVE  OthersStay(t) /\ phase' = phase
  <1>1. t \in Threads
    BY DEF Enqueuers, Threads
  <1> QED
    BY <1>1 DEF TypeOK, Enqueue, EnqueueCheck, EnqueueWrite, EnqueueSend, Check, Write,
                Goto, OthersStay, process, scans

LEMMA FailFrame ==
    ASSUME TypeOK, NEW t \in Threads, Fail(t)
    PROVE  OthersStay(t) /\ phase' = phase /\ queue' = queue
  BY DEF TypeOK, Fail, FailCheck, FailWrite, TellFailed, Check, Write, Tell, Goto,
         OthersStay, process, scans

LEMMA HookFrame ==
    ASSUME TypeOK, Hook
    PROVE  OthersStay("hook") /\ phase' = phase
  <1>1. "hook" \in Threads /\ "hook" \in Enqueuers
    BY DEF Threads, Enqueuers
  <1>2. CASE \E v \in Videos : HookProgress(v) \/ HookComplete(v)
    BY <1>1, <1>2 DEF TypeOK, HookProgress, HookComplete, Begin, OthersStay, process,
                      scans
  <1>3. CASE HookTouch \/ HookSetComplete \/ HookReject
    BY <1>1, <1>3 DEF TypeOK, HookTouch, HookSetComplete, HookReject, Write, Goto,
                      OthersStay, process, scans
  <1>4. CASE HookSetCompleteCheck \/ HookRejectCheck
    BY <1>1, <1>4 DEF TypeOK, HookSetCompleteCheck, HookRejectCheck, Check, Goto,
                      OthersStay, process, scans
  <1>5. CASE HookTellProcessing \/ TellFailed("hook")
    BY <1>1, <1>5 DEF TypeOK, HookTellProcessing, TellFailed, Tell, Goto, OthersStay,
                      process, scans
  <1>6. CASE HookDiscard
    BY <1>1, <1>6 DEF TypeOK, HookDiscard, Goto, OthersStay, process, scans
  <1>7. CASE Enqueue("hook")
    BY <1>1, <1>7, EnqueueFrame
  <1> QED
    BY <1>2, <1>3, <1>4, <1>5, <1>6, <1>7 DEF Hook

LEMMA WorkerFrame ==
    ASSUME TypeOK, NEW w \in Workers, Worker(w)
    PROVE  /\ OthersStay(w) /\ phase' = phase
           /\ queue' = queue \/ queue # << >>
  <1>1. w \in Threads
    BY DEF Threads
  <1>2. CASE WorkerTake(w) \/ WorkerLoad(w)
    BY <1>1, <1>2 DEF TypeOK, WorkerTake, WorkerLoad, Begin, OthersStay, process, scans
  <1>3. CASE WorkerClaimCheck(w) \/ WorkerReadyCheck(w)
    BY <1>1, <1>3 DEF TypeOK, WorkerClaimCheck, WorkerReadyCheck, Check, Goto,
                      OthersStay, process, scans
  <1>4. CASE WorkerClaim(w) \/ WorkerReady(w)
    BY <1>1, <1>4 DEF TypeOK, WorkerClaim, WorkerReady, Write, Goto, OthersStay,
                      process, scans
  <1>5. CASE WorkerEncode(w) \/ WorkerPublish(w) \/ WorkerStumble(w)
    BY <1>1, <1>5 DEF TypeOK, WorkerEncode, WorkerPublish, WorkerStumble, Goto,
                      OthersStay, process, scans
  <1>6. CASE WorkerDescribe(w) \/ WorkerFinish(w) \/ WorkerCount(w)
    BY <1>1, <1>6 DEF TypeOK, WorkerDescribe, WorkerFinish, WorkerCount, Goto,
                      OthersStay, process, scans
  <1>7. CASE Fail(w)
    BY <1>1, <1>7, FailFrame
  <1> QED
    BY <1>2, <1>3, <1>4, <1>5, <1>6, <1>7 DEF Worker

LEMMA KillerFrame ==
    ASSUME TypeOK, KillerStep
    PROVE  OthersStay("killer") /\ phase' = phase /\ queue' = queue
  BY DEF TypeOK, KillerStep, KillerRemove, KillerCheck, KillerFail, TellFailed, Check,
         Write, Tell, Goto, Begin, OthersStay, process, scans, Threads

LEMMA RestorerFrame ==
    ASSUME TypeOK, NEW t \in {"requeue", "boot"}, RestorerStep(t)
    PROVE  OthersStay(t) /\ phase' = phase /\ ~(Idle(t) /\ rows[t] = {})
  <1>1. t \in Threads /\ t \in Enqueuers
    BY DEF Threads, Enqueuers
  <1>2. CASE \E r \in rows[t] : Restore(t, r)
    BY <1>1, <1>2 DEF TypeOK, Restore, Begin, OthersStay, process
  <1>3. CASE RestoreCheck(t) \/ RestoreWrite(t)
    BY <1>1, <1>3 DEF TypeOK, RestoreCheck, RestoreWrite, Check, Write, Goto,
                      OthersStay, process, scans, Idle
  <1>4. CASE Enqueue(t)
    BY <1>1, <1>4, EnqueueFrame DEF Enqueue, EnqueueCheck, EnqueueWrite, EnqueueSend,
                                    Check, Write, Idle
  <1>5. CASE Fail(t)
    BY <1>1, <1>5, FailFrame DEF Fail, FailCheck, FailWrite, TellFailed, Check, Write,
                                 Tell, Idle
  <1> QED
    BY <1>2, <1>3, <1>4, <1>5 DEF RestorerStep

LEMMA RollbackFrame ==
    ASSUME TypeOK, RollbackCheck \/ RollbackWrite
    PROVE  OthersStay("requeue") /\ phase' = phase /\ queue' = queue
  BY DEF TypeOK, RollbackCheck, RollbackWrite, Check, Write, Goto, OthersStay, process,
         scans, Threads

-----------------------------------------------------------------------------

\* A step of a goroutine that has not returned.
LEMMA RunningKeeps ==
    ASSUME TypeOK, Draining, NEW t \in Threads, t \notin ended, OthersStay(t),
           phase' = phase, UNCHANGED mainVars,
           t = "boot" => phase # "running",
           ended \cap Workers # {} => queue' = << >>
    PROVE  Draining'
  <1>1. /\ stopping' = stopping /\ ended' = ended
        /\ \A u \in ended : u # t /\ at'[u] = at[u]
    BY DEF Draining, OthersStay, mainVars
  <1>2. phase' = "running" => at'["boot"] = "idle" /\ rows'["boot"] = {}
    BY DEF Draining, OthersStay, Threads, Idle
  <1>3. "requeue" \in ended => rows'["requeue"] = {}
    BY <1>1 DEF Draining, OthersStay
  <1> QED
    BY <1>1, <1>2, <1>3 DEF Draining, Idle

LEMMA DrainingInit == MainInit => Draining
  BY DEF MainInit, Init, Draining, Idle, Jobs, Threads

LEMMA GoneKeeps ==
    ASSUME Draining, Gone \/ MainCrash
    PROVE  Draining'
  BY DEF Gone, MainCrash, Crash, MainGone, Draining, Jobs

LEMMA ReturnKeeps ==
    ASSUME TypeOK, Draining, NEW t \in Threads, Return(t)
    PROVE  Draining'
  <1>1. /\ t \in Stopped(stopping) /\ Idle(t) /\ ended' = ended \cup {t}
        /\ t = "requeue" => rows["requeue"] = {}
        /\ t \in Workers => queue = << >>
        /\ stopping # "no"
        /\ UNCHANGED << vars, stopping, ends >>
    BY Distinct DEF Return, AtSelect, Stopped
  <1>2. t \in Workers => stopping = "queue"
    BY <1>1, Distinct DEF Stopped, Draining, Jobs
  <1>3. t # "boot"
    BY <1>1, Distinct DEF Stopped, Draining, Jobs
  <1>4. /\ phase' = phase /\ at' = at /\ rows' = rows /\ queue' = queue
        /\ stopping' = stopping
    BY <1>1 DEF vars
  <1>5. /\ \A u \in ended' : at'[u] = "idle"
        /\ "requeue" \in ended' => rows'["requeue"] = {}
    BY <1>1, <1>4 DEF Draining, Idle
  <1>6. ended' \cap Workers # {} => stopping' = "queue" /\ queue' = << >>
    BY <1>1, <1>2, <1>4 DEF Draining
  <1>7. ended' \subseteq Threads \ {"boot"} /\ (stopping' = "no" => ended' = {})
    BY <1>1, <1>3, <1>4 DEF Draining
  <1> QED
    BY <1>1, <1>4, <1>5, <1>6, <1>7 DEF Draining, Idle

LEMMA DrainingStep ==
    ASSUME TypeOK, Draining, [MainNext]_<< vars, mainVars >>
    PROVE  Draining'
  <1>1. CASE HookRuns
    <2>1. "hook" \in Threads \ ended /\ OthersStay("hook") /\ phase' = phase
      BY <1>1, HookFrame DEF HookRuns, Threads
    <2>2. ended \cap Workers = {}
      BY <1>1 DEF HookRuns, Draining, Jobs
    <2> QED
      BY <1>1, <2>1, <2>2, RunningKeeps DEF HookRuns
  <1>2. ASSUME NEW w \in Workers, WorkerRuns(w)
        PROVE  Draining'
    <2>1. w \in Threads \ ended /\ OthersStay(w) /\ phase' = phase /\ w # "boot"
      BY <1>2, WorkerFrame, Distinct DEF WorkerRuns
    <2>2. ended \cap Workers # {} => queue' = << >>
      BY <1>2, WorkerFrame DEF WorkerRuns, Draining
    <2> QED
      BY <1>2, <2>1, <2>2, RunningKeeps DEF WorkerRuns
  <1>3. CASE KillerRuns
    <2>1. "killer" \in Threads \ ended /\ OthersStay("killer") /\ phase' = phase
      BY <1>3, KillerFrame DEF KillerRuns, Threads
    <2>2. ended \cap Workers = {}
      BY <1>3 DEF KillerRuns, Draining
    <2> QED
      BY <1>3, <2>1, <2>2, RunningKeeps DEF KillerRuns
  <1>4. CASE RequeueRuns
    <2>1. "requeue" \in Threads \ ended /\ OthersStay("requeue") /\ phase' = phase
      BY <1>4, RestorerFrame, RollbackFrame DEF RequeueRuns, Threads
    <2>2. ended \cap Workers = {}
      BY <1>4 DEF RequeueRuns, Draining
    <2> QED
      BY <1>4, <2>1, <2>2, RunningKeeps DEF RequeueRuns
  <1>5. ASSUME NEW S \in SUBSET Videos, KillerTicks(S) \/ RequeueTicks(S)
        PROVE  Draining'
    <2>1. CASE KillerTicks(S)
      BY <2>1 DEF KillerTicks, KillerScan, Draining, mainVars, process, Idle
    <2>2. CASE RequeueTicks(S)
      <3>1. /\ rows'["boot"] = rows["boot"] /\ "requeue" \notin ended
            /\ UNCHANGED << phase, at, queue, stopping, ended >>
        BY <2>2 DEF RequeueTicks, RequeueScan, TypeOK, mainVars, process
      <3> QED
        BY <3>1 DEF Draining, Idle
    <2> QED
      BY <1>5, <2>1, <2>2
  <1>6. CASE Boots
    <2>1. CASE RestorerStep("boot")
      <3>1. /\ "boot" \in Threads \ ended /\ OthersStay("boot") /\ phase' = phase
            /\ phase # "running" /\ UNCHANGED mainVars
        BY <1>6, <2>1, RestorerFrame DEF Boots, Threads, Draining
      <3>2. ended \cap Workers = {}
        BY <3>1 DEF Draining
      <3> QED
        BY <3>1, <3>2, RunningKeeps
    <2>2. CASE Boot
      <3>1. /\ phase # "running" /\ phase' = "recovering"
            /\ UNCHANGED << at, queue, stopping, ended >>
        BY <1>6, <2>2 DEF Boots, Boot, mainVars
      <3> QED
        BY <3>1 DEF Draining
    <2>3. CASE Serve
      BY <1>6, <2>3 DEF Boots, Serve, Draining, mainVars, scans, Idle
    <2> QED
      BY <1>6, <2>1, <2>2, <2>3 DEF Boots
  <1>7. CASE Client /\ UNCHANGED mainVars
    BY <1>7 DEF Client, TusCreate, TusChunk, TusFinish, TusTerminate, Draining, mainVars, process,
                scans, Idle
  <1>8. CASE Signal
    BY <1>8 DEF Signal, Draining, vars, Idle, Jobs
  <1>9. CASE Proceed
    <2>1. /\ stopping \in {"hook", "requeue", "killer"} /\ Stopped(stopping) = {stopping}
          /\ stopping' = NextStop[stopping] /\ Stopped(stopping) \subseteq ended
          /\ UNCHANGED << vars, ended, ends >>
      BY <1>9 DEF Proceed, NextStop, Stopped
    <2>2. UNCHANGED << phase, at, rows, queue, ended >>
      BY <2>1 DEF vars
    <2>3. \/ stopping = "hook" /\ stopping' = "requeue"
          \/ stopping = "requeue" /\ stopping' = "killer"
          \/ stopping = "killer" /\ stopping' = "queue"
      BY <2>1 DEF NextStop
    <2> QED
      BY <2>1, <2>2, <2>3 DEF Draining, Idle, Jobs
  <1>10. CASE Exit \/ MainCrash
    BY <1>10, GoneKeeps DEF Exit
  <1>11. ASSUME NEW t \in Threads, Return(t)
         PROVE  Draining'
    BY <1>11, ReturnKeeps
  <1>12. CASE UNCHANGED << vars, mainVars >>
    BY <1>12 DEF Draining, vars, mainVars, Idle
  <1>13. AllIdle \in SUBSET Videos /\ AllStuck \in SUBSET Videos
    BY DEF AllIdle, AllStuck
  <1> QED
    BY <1>1, <1>2, <1>3, <1>4, <1>5, <1>6, <1>7, <1>8, <1>9, <1>10, <1>11, <1>12, <1>13
       DEF MainNext, Progress

-----------------------------------------------------------------------------

LEMMA AllAtRest ==
    ASSUME Draining, stopping = "queue", Workers \subseteq ended
    PROVE  /\ queue = << >>
           /\ phase = "running" /\ rows["boot"] = {}
           /\ \A t \in Threads : at[t] = "idle"
  <1>1. Workers # {}
    BY ShutdownAssumption
  <1>2. /\ queue = << >> /\ {"hook", "requeue", "killer"} \subseteq ended
        /\ phase = "running" /\ rows["boot"] = {} /\ Idle("boot")
    BY <1>1 DEF Draining, Jobs
  <1> QED
    BY <1>2, Distinct DEF Draining, Idle

\* Every step but Exit is one of Pipeline.
LEMMA StepsOfPipeline ==
    ASSUME [MainNext]_<< vars, mainVars >>
    PROVE  [Next]_vars \/ Exit
  <1>1. AllIdle \in SUBSET Videos /\ AllStuck \in SUBSET Videos
    BY DEF AllIdle, AllStuck
  <1>2. CASE Progress
    BY <1>1, <1>2 DEF Progress, HookRuns, WorkerRuns, KillerRuns, RequeueRuns,
       KillerTicks, RequeueTicks, Boots, Return, Proceed, Next, Scans
  <1>3. CASE MainNext /\ ~Progress
    BY <1>3 DEF MainNext, KillerTicks, RequeueTicks, Signal, MainCrash, Next, Scans
  <1> QED
    BY <1>2, <1>3

\* What Pipeline keeps, and Draining.
Kept ==
    /\ TypeOK
    /\ Draining
    /\ CompletedIsMovingOn
    /\ FinalIsAnnounced
    /\ Playable
    /\ Counted

LEMMA ExitKeeps ==
    ASSUME Kept, Exit
    PROVE  Kept'
  <1>1. /\ Gone
        /\ \A t \in Threads : at[t] = "idle"
    BY AllAtRest DEF Exit, Kept
  <1>2. /\ UNCHANGED << crashes, status, attempts, described, file, published,
                         uploads, told >>
        /\ phase' = "down" /\ queue' = << >> /\ idleRows' = {}
        /\ progressEv' = {} /\ completeEv' = {}
        /\ rows' = [t \in {"requeue", "boot"} |-> {}]
        /\ at' = [t \in Threads |-> "idle"] /\ vid' = [t \in Threads |-> NoVideo]
        /\ snap' = [w \in Workers |-> 0]
    BY <1>1 DEF Gone, db, disk
  <1>3. TypeOK'
    BY <1>2, PipelineAssumption DEF Kept, TypeOK, Points
  <1>4. Draining'
    BY <1>1, GoneKeeps DEF Kept
  <1>5. CompletedIsMovingOn'
    BY <1>2 DEF CompletedIsMovingOn
  <1>6. FinalIsAnnounced'
    <2>1. Workers \subseteq Threads
      BY DEF Threads
    <2> QED
      BY <1>1, <1>2, <2>1 DEF Kept, FinalIsAnnounced
  <1>7. Playable'
    BY <1>2, Distinct DEF Kept, Playable, ReadyIsPlayable
  <1>8. Counted'
    BY <1>2, Distinct DEF Kept, Counted, ExhaustedBeforeFailed
  <1> QED
    BY <1>3, <1>4, <1>5, <1>6, <1>7, <1>8 DEF Kept

LEMMA KeptInit == MainInit => Kept
  <1> SUFFICES ASSUME MainInit
               PROVE  Kept
    OBVIOUS
  <1>1. Init /\ TypeOK /\ Draining
    BY InitType, DrainingInit DEF MainInit
  <1>2. CompletedIsMovingOn /\ FinalIsAnnounced
    BY <1>1 DEF Init, CompletedIsMovingOn, FinalIsAnnounced, Failed
  <1>3. Playable /\ Counted
    BY <1>1, PipelineAssumption
       DEF Init, Playable, ReadyIsPlayable, Counted, ExhaustedBeforeFailed, Threads
  <1> QED
    BY <1>1, <1>2, <1>3 DEF Kept

LEMMA KeptStep == Kept /\ [MainNext]_<< vars, mainVars >> => Kept'
  <1> SUFFICES ASSUME Kept, [MainNext]_<< vars, mainVars >>
               PROVE  Kept'
    OBVIOUS
  <1>1. CASE Exit
    BY <1>1, ExitKeeps
  <1>2. CASE [Next]_vars
    BY <1>2, DrainingStep, NextType, MovingStep, AnnouncedStep, PlayableStep, CountedStep
       DEF Kept
  <1> QED
    BY <1>1, <1>2, StepsOfPipeline

\* When the workers have returned nothing is queued, about to be queued, or in
\* anybody's hands, for every number of videos and workers and every size of the
\* queue (main.go, Queue.Stop).
THEOREM NothingPends == MainSpec => []NothingPendsAfterStop
  <1>1. Kept => NothingPendsAfterStop
    <2> SUFFICES ASSUME Kept, Workers \subseteq ended, stopping = "queue"
                 PROVE  /\ queue = << >>
                        /\ \A v \in Videos : status[v] # "upload_complete"
                        /\ \A t \in Threads : Idle(t)
      BY DEF NothingPendsAfterStop
    <2>1. /\ queue = << >> /\ phase = "running" /\ rows["boot"] = {}
          /\ \A t \in Threads : at[t] = "idle"
      BY AllAtRest DEF Kept
    <2>2. \A v \in Videos : status[v] # "upload_complete"
      BY <2>1 DEF Kept, CompletedIsMovingOn, Enqueuing, Enqueuers, Threads
    <2> QED
      BY <2>1, <2>2 DEF Idle
  <1> QED
    BY <1>1, KeptInit, KeptStep, PTL DEF MainSpec

\* A graceful end loses no announcement, and leaves what a crash leaves: the
\* invariants of Pipeline hold across it.
THEOREM InvariantsSurvive ==
    MainSpec => [](FinalIsAnnounced /\ CompletedIsMovingOn /\ ReadyIsPlayable
                     /\ ExhaustedBeforeFailed)
  <1>1. Kept => /\ FinalIsAnnounced /\ CompletedIsMovingOn
                /\ ReadyIsPlayable /\ ExhaustedBeforeFailed
    BY DEF Kept, Playable, Counted
  <1> QED
    BY <1>1, KeptInit, KeptStep, PTL DEF MainSpec

\* A signal comes only while the process has an end left.
EndsLeft == ends \in 0..MaxEnds /\ (stopping # "no" => ends < MaxEnds)

LEMMA EndsStep == EndsLeft /\ [MainNext]_<< vars, mainVars >> => EndsLeft'
  <1> SUFFICES ASSUME EndsLeft, [MainNext]_<< vars, mainVars >>
               PROVE  EndsLeft'
    OBVIOUS
  <1> USE ShutdownAssumption DEF EndsLeft
  <1>1. CASE UNCHANGED mainVars
    BY <1>1 DEF mainVars
  <1>2. CASE Signal
    BY <1>2 DEF Signal
  <1>3. CASE Proceed
    BY <1>3 DEF Proceed, NextStop
  <1>4. CASE \E t \in Threads : Return(t)
    BY <1>4 DEF Return
  <1>5. CASE Exit
    BY <1>5 DEF Exit, Gone, MainGone
  <1>6. CASE MainCrash
    BY <1>6 DEF MainCrash, MainGone
  <1> QED
    BY <1>1, <1>2, <1>3, <1>4, <1>5, <1>6
       DEF MainNext, Progress, HookRuns, WorkerRuns, KillerRuns, RequeueRuns,
           KillerTicks, RequeueTicks, Boots

\* The types of Pipeline's variables and of main's.
THEOREM MainTypeCorrect == MainSpec => []MainTypeOK
  <1>1. MainInit => EndsLeft
    BY ShutdownAssumption DEF MainInit, EndsLeft
  <1>2. Kept /\ EndsLeft => MainTypeOK
    BY DEF Kept, EndsLeft, Draining, MainTypeOK
  <1> QED
    BY <1>1, <1>2, EndsStep, KeptInit, KeptStep, PTL DEF MainSpec

-----------------------------------------------------------------------------
(* The order of PipelineOrder_proofs, across graceful ends.                *)

\* Nobody has anything in hand when the process ends.
LEMMA ExitRests ==
    ASSUME TypeOK, Exit
    PROVE  /\ UNCHANGED << status, file >>
           /\ phase' = "down" /\ queue' = << >> /\ idleRows' = {}
           /\ progressEv' = {} /\ completeEv' = {}
           /\ \A t \in {"requeue", "boot"} : rows'[t] = {}
           /\ \A t \in Threads : at'[t] = "idle" /\ vid'[t] = NoVideo
  BY DEF Exit, Gone, db, disk

LEMMA MainOrdered ==
    ASSUME Orderly, Ordered, TypeOK', [MainNext]_<< vars, mainVars >>
    PROVE  Ordered'
  <1>1. CASE [Next]_vars
    BY <1>1, StepOrdered
  <1>2. CASE Exit
    <2>1. TypeOK
      BY DEF Ordered
    <2>2. /\ phase' = "down" /\ queue' = << >> /\ idleRows' = {}
          /\ progressEv' = {} /\ completeEv' = {}
          /\ rows'["requeue"] = {} /\ rows'["boot"] = {}
          /\ \A t \in Threads : at'[t] = "idle" /\ vid'[t] = NoVideo
      BY <1>2, <2>1, ExitRests
    <2>3. Phases'
      BY <2>2 DEF Phases, Threads
    <2>4. OneHolder'
      BY <2>2, PipelineAssumption DEF OneHolder, Busy
    <2>5. StatusFits' /\ FileFits'
      BY <2>2 DEF StatusFits, FileFits
    <2> QED
      BY <2>3, <2>4, <2>5 DEF Ordered
  <1> QED
    BY <1>1, <1>2, StepsOfPipeline

\* Orderly timeouts and clients keep the status of quick videos to the transition
\* table across graceful ends and restarts as well.
THEOREM LifecycleSurvives ==
    ASSUME Orderly
    PROVE  MainSpec => FollowsLifecycle
  <1>1. MainInit => Ordered /\ Lifecycle!Init
    BY InitOrdered, PipelineAssumption DEF MainInit, Init, Lifecycle!Init
  <1>2. Ordered /\ [MainNext]_<< vars, mainVars >>
          => [Lifecycle!Next]_([v \in Quick |-> status[v]])
    BY StepsOfPipeline, StepMoves DEF Exit, Gone, db
  <1>3. Kept => TypeOK
    BY DEF Kept
  <1>4. Ordered /\ TypeOK' /\ [MainNext]_<< vars, mainVars >> => Ordered'
    BY MainOrdered
  <1> QED
    BY <1>1, <1>2, <1>3, <1>4, KeptInit, KeptStep, PTL
       DEF MainSpec, FollowsLifecycle, Lifecycle!Spec

LEMMA MainRecovering ==
    ASSUME Recovering, TypeOK', [MainNext]_<< vars, mainVars >>
    PROVE  Recovering'
  <1>1. CASE [Next]_vars
    BY <1>1, RecoveringStep
  <1>2. CASE Exit
    <2>1. /\ phase' = "down" /\ queue' = << >> /\ idleRows' = {}
          /\ progressEv' = {} /\ completeEv' = {}
          /\ rows'["requeue"] = {} /\ rows'["boot"] = {}
          /\ \A t \in Threads : at'[t] = "idle" /\ vid'[t] = NoVideo
      BY <1>2, ExitRests DEF Recovering
    <2> QED
      BY <2>1 DEF Recovering, Phases, Threads
  <1> QED
    BY <1>1, <1>2, StepsOfPipeline

\* What a graceful end leaves is all found by the next recovery.
THEOREM RecoverySurvives == MainSpec => RecoveryIsComplete
  <1>1. MainInit => Recovering
    BY InitType, PipelineAssumption DEF MainInit, Init, Recovering, Phases, Threads
  <1>2. Kept => TypeOK
    BY DEF Kept
  <1>3. Recovering /\ TypeOK' /\ [MainNext]_<< vars, mainVars >> => Recovering'
    BY MainRecovering
  <1>4. Recovering /\ [MainNext]_<< vars, mainVars >> =>
          [phase = "recovering" /\ phase' = "running" =>
              \A v \in Videos : status[v] \in {"upload_complete", "transcoding"} =>
                  v \in Range(queue) \/ Len(queue) = QueueMaxSize]_vars
    BY StepsOfPipeline, HandsOver DEF Exit, Gone
  <1> QED
    BY <1>1, <1>2, <1>3, <1>4, KeptInit, KeptStep, PTL DEF MainSpec, RecoveryIsComplete

-----------------------------------------------------------------------------
(* What rests on Orderly, across graceful ends.                            *)

LEMMA MainOrderIsKept ==
    ASSUME Orderly
    PROVE  MainSpec => [](Ordered /\ Kept)
  <1>1. MainInit => Ordered
    BY InitOrdered DEF MainInit
  <1>2. Kept => TypeOK
    BY DEF Kept
  <1>3. Ordered /\ TypeOK' /\ [MainNext]_<< vars, mainVars >> => Ordered'
    BY MainOrdered
  <1> QED
    BY <1>1, <1>2, <1>3, KeptInit, KeptStep, PTL DEF MainSpec

\* The queue and its workers remain a WorkQueue, of which a graceful end takes
\* nothing away: the queue is empty by then, no worker has a video and the requeue
\* job has nothing left to put back (Queue.Stop, main.go).
THEOREM WorkQueueSurvives ==
    ASSUME Orderly
    PROVE  MainSpec => QueuesPerTimeout
  <1>1. ASSUME Ordered, Kept, Exit
        PROVE  UNCHANGED << queue, [w \in Workers |-> vid[w]], Overdue >>
    <2>1. /\ queue = << >> /\ queue' = << >> /\ Workers \subseteq Threads
          /\ "requeue" \in Threads
      BY <1>1, AllAtRest DEF Exit, Gone, Kept, Threads
    <2>2. \A w \in Workers : vid[w] = NoVideo /\ vid'[w] = NoVideo
      BY <1>1, <2>1, AllAtRest DEF Exit, Gone, Kept, Ordered, Phases
    <2>3. rows["requeue"] = {} /\ at["requeue"] = "idle"
      BY <1>1, <2>1, AllAtRest DEF Exit, Kept, Draining, Jobs
    <2>4. rows'["requeue"] = {} /\ at'["requeue"] = "idle"
      BY <1>1, <2>1 DEF Exit, Gone
    <2>5. Overdue = {} /\ Overdue' = {}
      BY <2>3, <2>4 DEF Overdue, Requeuing
    <2> QED
      BY <2>1, <2>2, <2>5
  <1>2. Ordered /\ Kept /\ [MainNext]_<< vars, mainVars >> => [Work!Next]_(Work!vars)
    BY <1>1, StepsOfPipeline, QueueStep DEF Work!vars
  <1>3. MainInit => Work!Init
    BY QueueInit DEF MainInit
  <1> QED
    BY <1>2, <1>3, MainOrderIsKept, PTL DEF MainSpec, QueuesPerTimeout, Work!Spec

LEMMA MainToldStep ==
    ASSUME Orderly, Ordered, Kept, TypeOK', ToldFits, [MainNext]_<< vars, mainVars >>
    PROVE  ToldFits'
  <1>1. CASE [Next]_vars
    BY <1>1, ToldStep
  <1>2. CASE Exit
    <2>1. /\ UNCHANGED << status, file, told >>
          /\ \A t \in Threads : at'[t] = "idle"
      BY <1>2 DEF Exit, Gone, db, disk
    <2> QED
      BY <2>1 DEF ToldFits, Lost, Failed
  <1> QED
    BY <1>1, <1>2, StepsOfPipeline

\* What was told of quick videos stays true across graceful ends: no process
\* announces one ready, or failed, that a later one takes back.
THEOREM ToldSurvives ==
    ASSUME Orderly
    PROVE  MainSpec => []ToldAgrees
  <1>1. MainInit => ToldFits
    BY ToldInit DEF MainInit
  <1>2. Ordered /\ Kept /\ TypeOK' /\ ToldFits /\ [MainNext]_<< vars, mainVars >>
          => ToldFits'
    BY MainToldStep
  <1>3. Kept => TypeOK
    BY DEF Kept
  <1> QED
    BY <1>1, <1>2, <1>3, ToldFitsAgrees, MainOrderIsKept, PTL DEF MainSpec

\* A video leaves the queue only into the hands of a worker, as long as the process
\* does not crash; this needs no order of timeouts and clients.
QueuedIsTaken ==
    [][crashes' = crashes =>
          \A v \in Range(queue) : v \in Range(queue') \/ \E w \in Workers : vid'[w] = v]_vars

THEOREM NothingIsDropped == MainSpec => QueuedIsTaken
  <1>1. ASSUME Kept, [Next]_vars, crashes' = crashes, NEW v \in Range(queue)
        PROVE  v \in Range(queue') \/ \E w \in Workers : vid'[w] = v
    <2>1. ~Crash
      BY <1>1, PipelineAssumption DEF Crash, Kept, TypeOK
    <2>2. PICK i \in DOMAIN queue : queue[i] = v
      BY <1>1 DEF Range
    <2>3. queue \in Seq(Videos) /\ DOMAIN queue = 1..Len(queue) /\ Len(queue) \in Nat
      BY <1>1 DEF Kept, TypeOK
    <2>4. CASE queue' = queue
      BY <1>1, <2>4
    <2>5. ASSUME NEW w \in Workers, WorkerTake(w)
          PROVE  v \in Range(queue') \/ \E u \in Workers : vid'[u] = v
      <3>1. queue # << >> /\ queue' = Tail(queue) /\ vid' = [vid EXCEPT ![w] = Head(queue)]
        BY <2>5 DEF WorkerTake, Begin
      <3>2. CASE i = 1
        <4>1. Head(queue) = v /\ w \in Threads
          BY <2>2, <2>3, <3>1, <3>2 DEF Threads
        <4> QED
          BY <1>1, <3>1, <4>1 DEF Kept, TypeOK
      <3>3. CASE i # 1
        <4>1. i - 1 \in DOMAIN queue' /\ queue'[i - 1] = queue[i]
          BY <2>2, <2>3, <3>1, <3>3
        <4> QED
          BY <2>2, <4>1 DEF Range
      <3> QED
        BY <3>2, <3>3
    <2>6. ASSUME NEW t \in Enqueuers, EnqueueSend(t), queue' # queue
          PROVE  v \in Range(queue')
      <3>1. queue' = Append(queue, vid[t])
        BY <2>6 DEF EnqueueSend
      <3>2. i \in DOMAIN queue' /\ queue'[i] = queue[i]
        BY <2>2, <2>3, <3>1
      <3> QED
        BY <2>2, <3>2 DEF Range
    <2> QED
      BY <1>1, <2>1, <2>4, <2>5, <2>6, QueueWriters
  <1>2. ASSUME Kept, Exit, NEW v \in Range(queue)
        PROVE  FALSE
    BY <1>2, AllAtRest DEF Exit, Kept, Range
  <1>3. Kept /\ [MainNext]_<< vars, mainVars >> =>
          [crashes' = crashes =>
              \A v \in Range(queue) :
                  v \in Range(queue') \/ \E w \in Workers : vid'[w] = v]_vars
    BY <1>1, <1>2, StepsOfPipeline
  <1> QED
    BY <1>3, KeptInit, KeptStep, PTL DEF MainSpec, QueuedIsTaken

-----------------------------------------------------------------------------
(* Shutdown implements Pipeline, with a crash for every end. The actions of *)
(* the two differ in the counter alone, so each maps to itself.            *)

LEMMA SameTransitions ==
    ASSUME NEW a, NEW b
    PROVE  AsCrash!IsValidTransition(a, b) <=> IsValidTransition(a, b)
  BY DEF IsValidTransition, ValidTransitions, Statuses, AsCrash!IsValidTransition,
         AsCrash!ValidTransitions, AsCrash!Statuses

LEMMA SameHeld ==
    ASSUME NEW v
    PROVE  /\ AsCrash!Held(v) <=> Held(v)
           /\ AsCrash!MayTimeOut(v) <=> MayTimeOut(v)
           /\ AsCrash!ClientPresent(v) <=> ClientPresent(v)
  BY DEF Held, Passing, Threads, MayTimeOut, ClientPresent, AsCrash!Held,
         AsCrash!Passing, AsCrash!Threads, AsCrash!MayTimeOut, AsCrash!ClientPresent,
         Range, AsCrash!Range

LEMMA SameCheck ==
    ASSUME NEW t, NEW from, NEW to, NEW valid, NEW invalid,
           Check(t, from, to, valid, invalid), ends' = ends
    PROVE  AsCrash!Check(t, from, to, valid, invalid)
  BY SameTransitions
  DEF Check, Goto, process, db, disk, scans, tus,
      AsCrash!Check, AsCrash!Goto, AsCrash!process, AsCrash!db, AsCrash!disk,
      AsCrash!scans, AsCrash!tus

LEMMA SameWrite ==
    ASSUME NEW t, NEW from, NEW to, NEW next, Write(t, from, to, next), ends' = ends
    PROVE  AsCrash!Write(t, from, to, next)
  BY DEF Write, Goto, process, disk, scans, tus, AsCrash!Write, AsCrash!Goto,
         AsCrash!process, AsCrash!disk, AsCrash!scans, AsCrash!tus

LEMMA SameTell ==
    ASSUME NEW t, NEW from, NEW event, Tell(t, from, event), ends' = ends
    PROVE  AsCrash!Tell(t, from, event)
  BY DEF Tell, Goto, process, db, disk, scans, tus, AsCrash!Tell, AsCrash!Goto,
         AsCrash!process, AsCrash!db, AsCrash!disk, AsCrash!scans, AsCrash!tus

LEMMA SameClient == Client /\ ends' = ends => AsCrash!Client
  <1> USE SameHeld DEF process, db, scans, AsCrash!process, AsCrash!db, AsCrash!scans
  <1> SUFFICES ASSUME NEW v \in Videos, ends' = ends,
                      TusCreate(v) \/ TusChunk(v) \/ TusFinish(v) \/ TusTerminate(v)
               PROVE  \/ AsCrash!TusCreate(v) \/ AsCrash!TusChunk(v)
                      \/ AsCrash!TusFinish(v) \/ AsCrash!TusTerminate(v)
    BY DEF Client, AsCrash!Client
  <1>1. CASE TusCreate(v)
    BY <1>1 DEF TusCreate, AsCrash!TusCreate
  <1>2. CASE TusChunk(v)
    BY <1>2 DEF TusChunk, AsCrash!TusChunk
  <1>3. CASE TusFinish(v)
    BY <1>3 DEF TusFinish, AsCrash!TusFinish
  <1>4. CASE TusTerminate(v)
    BY <1>4 DEF TusTerminate, tus, AsCrash!TusTerminate, AsCrash!tus
  <1> QED
    BY <1>1, <1>2, <1>3, <1>4

LEMMA SameEnqueue ==
    ASSUME NEW t, Enqueue(t), ends' = ends
    PROVE  AsCrash!Enqueue(t)
  <1>1. CASE EnqueueCheck(t)
    BY <1>1, SameCheck DEF EnqueueCheck, AfterRefusal, AsCrash!Enqueue,
       AsCrash!EnqueueCheck, AsCrash!AfterRefusal
  <1>2. CASE EnqueueWrite(t)
    BY <1>2, SameWrite DEF EnqueueWrite, AsCrash!Enqueue, AsCrash!EnqueueWrite
  <1>3. CASE EnqueueSend(t)
    BY <1>3
    DEF EnqueueSend, AfterEnqueue, AfterRefusal, Goto, process, db, disk, scans, tus,
        AsCrash!Enqueue, AsCrash!EnqueueSend, AsCrash!AfterEnqueue, AsCrash!AfterRefusal,
        AsCrash!Goto, AsCrash!process, AsCrash!db, AsCrash!disk, AsCrash!scans,
        AsCrash!tus
  <1> QED
    BY <1>1, <1>2, <1>3 DEF Enqueue

LEMMA SameFail ==
    ASSUME NEW t, Fail(t), ends' = ends
    PROVE  AsCrash!Fail(t)
  BY SameCheck, SameWrite, SameTell
  DEF Fail, FailCheck, FailWrite, TellFailed,
      AsCrash!Fail, AsCrash!FailCheck, AsCrash!FailWrite, AsCrash!TellFailed

LEMMA SameHook == Hook /\ ends' = ends => AsCrash!Hook
  <1> SUFFICES ASSUME Hook, ends' = ends
               PROVE  AsCrash!Hook
    OBVIOUS
  <1> USE DEF AsCrash!Hook
  <1>1. ASSUME NEW v \in Videos, HookProgress(v) \/ HookComplete(v)
        PROVE  AsCrash!HookProgress(v) \/ AsCrash!HookComplete(v)
    BY <1>1
    DEF HookProgress, HookComplete, Idle, Begin, process, db, disk, scans,
        AsCrash!HookProgress, AsCrash!HookComplete, AsCrash!Idle, AsCrash!Begin,
        AsCrash!process, AsCrash!db, AsCrash!disk, AsCrash!scans
  <1>2. CASE HookTouch \/ HookSetComplete \/ HookReject
    BY <1>2, SameWrite DEF HookTouch, HookSetComplete, HookReject, AsCrash!HookTouch,
       AsCrash!HookSetComplete, AsCrash!HookReject
  <1>3. CASE HookSetCompleteCheck \/ HookRejectCheck
    BY <1>3, SameCheck DEF HookSetCompleteCheck, HookRejectCheck,
       AsCrash!HookSetCompleteCheck, AsCrash!HookRejectCheck
  <1>4. CASE HookTellProcessing \/ TellFailed("hook")
    BY <1>4, SameTell DEF HookTellProcessing, TellFailed, AsCrash!HookTellProcessing,
       AsCrash!TellFailed
  <1>5. CASE HookDiscard
    BY <1>5 DEF HookDiscard, Goto, process, db, scans, tus, AsCrash!HookDiscard,
       AsCrash!Goto, AsCrash!process, AsCrash!db, AsCrash!scans, AsCrash!tus
  <1>6. CASE Enqueue("hook")
    BY <1>6, SameEnqueue
  <1> QED
    BY <1>1, <1>2, <1>3, <1>4, <1>5, <1>6 DEF Hook

LEMMA SameWorker ==
    ASSUME NEW w \in Workers, Worker(w), ends' = ends
    PROVE  AsCrash!Worker(w)
  <1> USE DEF AsCrash!Worker
  <1>1. CASE WorkerTake(w)
    BY <1>1 DEF WorkerTake, Idle, Begin, process, db, disk, scans, tus,
       AsCrash!WorkerTake, AsCrash!Idle, AsCrash!Begin, AsCrash!process, AsCrash!db,
       AsCrash!disk, AsCrash!scans, AsCrash!tus
  <1>2. CASE WorkerLoad(w)
    BY <1>2 DEF WorkerLoad, process, db, disk, scans, tus, AsCrash!WorkerLoad,
       AsCrash!process, AsCrash!db, AsCrash!disk, AsCrash!scans, AsCrash!tus
  <1>3. CASE WorkerClaimCheck(w) \/ WorkerReadyCheck(w)
    BY <1>3, SameCheck DEF WorkerClaimCheck, WorkerReadyCheck, AsCrash!WorkerClaimCheck,
       AsCrash!WorkerReadyCheck
  <1>4. CASE WorkerClaim(w) \/ WorkerReady(w)
    BY <1>4, SameWrite DEF WorkerClaim, WorkerReady, AsCrash!WorkerClaim,
       AsCrash!WorkerReady
  <1>5. CASE WorkerEncode(w) \/ WorkerPublish(w) \/ WorkerStumble(w)
    BY <1>5 DEF WorkerEncode, WorkerPublish, WorkerStumble, Goto, process, db, disk,
       scans, tus, AsCrash!WorkerEncode, AsCrash!WorkerPublish, AsCrash!WorkerStumble,
       AsCrash!Goto, AsCrash!process, AsCrash!db, AsCrash!disk, AsCrash!scans, AsCrash!tus
  <1>6. CASE WorkerDescribe(w) \/ WorkerFinish(w) \/ WorkerCount(w)
    BY <1>6 DEF WorkerDescribe, WorkerFinish, WorkerCount, Goto, process, db, disk,
       scans, tus, AsCrash!WorkerDescribe, AsCrash!WorkerFinish, AsCrash!WorkerCount,
       AsCrash!Goto, AsCrash!process, AsCrash!db, AsCrash!disk, AsCrash!scans, AsCrash!tus
  <1>7. CASE Fail(w)
    BY <1>7, SameFail
  <1> QED
    BY <1>1, <1>2, <1>3, <1>4, <1>5, <1>6, <1>7 DEF Worker

LEMMA SameKiller == KillerStep /\ ends' = ends => AsCrash!KillerStep
  <1> SUFFICES ASSUME KillerStep, ends' = ends
               PROVE  AsCrash!KillerStep
    OBVIOUS
  <1> USE DEF AsCrash!KillerStep
  <1>1. ASSUME NEW v \in Videos, KillerRemove(v)
        PROVE  AsCrash!KillerRemove(v)
    BY <1>1 DEF KillerRemove, Idle, Begin, process, db, tus, AsCrash!KillerRemove,
       AsCrash!Idle, AsCrash!Begin, AsCrash!process, AsCrash!db, AsCrash!tus
  <1>2. CASE KillerCheck \/ KillerFail \/ TellFailed("killer")
    BY <1>2, SameCheck, SameWrite, SameTell DEF KillerCheck, KillerFail, TellFailed,
       AsCrash!KillerCheck, AsCrash!KillerFail, AsCrash!TellFailed
  <1> QED
    BY <1>1, <1>2 DEF KillerStep

LEMMA SameRestorer ==
    ASSUME NEW t, RestorerStep(t), ends' = ends
    PROVE  AsCrash!RestorerStep(t)
  <1> USE DEF AsCrash!RestorerStep
  <1>1. ASSUME NEW r \in rows[t], Restore(t, r)
        PROVE  AsCrash!Restore(t, r)
    BY <1>1 DEF Restore, Idle, Begin, process, disk, tus, AsCrash!Restore,
       AsCrash!Idle, AsCrash!Begin, AsCrash!process, AsCrash!disk, AsCrash!tus
  <1>2. CASE RestoreCheck(t) \/ RestoreWrite(t)
    BY <1>2, SameCheck, SameWrite DEF RestoreCheck, RestoreWrite, AsCrash!RestoreCheck,
       AsCrash!RestoreWrite
  <1> QED
    BY <1>1, <1>2, SameEnqueue, SameFail DEF RestorerStep

\* As long as the process does not end every step is Pipeline's own.
LEMMA SameStep ==
    ASSUME [Next]_vars, ~Crash, ends' = ends
    PROVE  [AsCrash!Next]_AsCrash!vars
  <1> USE DEF AsCrash!Next
  <1>1. CASE RollbackCheck \/ RollbackWrite
    BY <1>1, SameCheck, SameWrite DEF RollbackCheck, RollbackWrite,
       AsCrash!RollbackCheck, AsCrash!RollbackWrite
  <1>2. ASSUME NEW S \in SUBSET Videos, KillerScan(S) \/ RequeueScan(S)
        PROVE  AsCrash!KillerScan(S) \/ AsCrash!RequeueScan(S)
    BY <1>2, SameHeld DEF KillerScan, RequeueScan, Idle, Snapshot, process, db, disk, tus,
       AsCrash!KillerScan, AsCrash!RequeueScan, AsCrash!Idle, AsCrash!Snapshot,
       AsCrash!process, AsCrash!db, AsCrash!disk, AsCrash!tus
  <1>3. CASE Scans
    BY <1>2, <1>3 DEF Scans, AsCrash!Scans
  <1>4. CASE Boot \/ Serve
    BY <1>4 DEF Boot, Serve, Idle, Snapshot, db, disk, scans, tus, AsCrash!Boot,
       AsCrash!Serve, AsCrash!Idle, AsCrash!Snapshot, AsCrash!db, AsCrash!disk,
       AsCrash!scans, AsCrash!tus
  <1>5. CASE UNCHANGED vars
    BY <1>5 DEF vars, AsCrash!vars
  <1> QED
    BY <1>1, <1>3, <1>4, <1>5, SameClient, SameHook, SameWorker, SameKiller, SameRestorer
       DEF Next

\* The steps that end the process.
LEMMA EndIsCrash ==
    ASSUME Kept, EndsLeft, Exit \/ MainCrash
    PROVE  AsCrash!Crash
  <1>1. phase # "down" /\ ends < MaxEnds
    BY DEF Kept, Draining, EndsLeft, Exit, MainCrash, Crash
  <1> QED
    BY <1>1 DEF Exit, Gone, MainCrash, MainGone, Crash, db, disk, Threads, AsCrash!Crash,
       AsCrash!db, AsCrash!disk, AsCrash!Threads

\* main's steps, apart from those that end the process, count no end.
LEMMA EndsAreCounted ==
    ASSUME [MainNext]_<< vars, mainVars >>, ~Exit, ~MainCrash
    PROVE  ends' = ends
  BY DEF MainNext, Progress, HookRuns, WorkerRuns, KillerRuns, RequeueRuns, KillerTicks,
         RequeueTicks, Boots, Return, Proceed, Signal, mainVars

LEMMA OnlyMainCrashes ==
    ASSUME TypeOK, [MainNext]_<< vars, mainVars >>, Crash
    PROVE  MainCrash
  <1>1. crashes' # crashes /\ phase' # phase /\ phase' = "down" /\ phase # "down"
    BY PipelineAssumption DEF Crash, TypeOK
  <1>2. ~HookRuns /\ ~KillerRuns /\ ~RequeueRuns /\ \A w \in Workers : ~WorkerRuns(w)
    BY <1>1, HookFrame, KillerFrame, RestorerFrame, RollbackFrame, WorkerFrame
       DEF HookRuns, KillerRuns, RequeueRuns, WorkerRuns
  <1>3. \A S \in SUBSET Videos : ~KillerTicks(S) /\ ~RequeueTicks(S)
    BY <1>1 DEF KillerTicks, RequeueTicks, KillerScan, RequeueScan, process
  <1>4. AllIdle \in SUBSET Videos /\ AllStuck \in SUBSET Videos
    BY DEF AllIdle, AllStuck
  <1>5. ~Boots
    BY <1>1, RestorerFrame DEF Boots, Boot, Serve
  <1>6. ~Client
    BY <1>1 DEF Client, TusCreate, TusChunk, TusFinish, TusTerminate, process
  <1>7. ~Proceed /\ ~Signal /\ ~Exit /\ \A t \in Threads : ~Return(t)
    BY <1>1 DEF Proceed, Signal, Exit, Gone, Return, vars
  <1>8. ~UNCHANGED vars
    BY <1>1 DEF vars
  <1> QED
    BY <1>2, <1>3, <1>4, <1>5, <1>6, <1>7, <1>8 DEF MainNext, Progress

\* A graceful end leaves nothing behind that a crash might not leave. With every end
\* of the process taken for a crash Shutdown implements Pipeline, whatever the
\* timeouts and the clients do.
THEOREM EndsAreCrashes == MainSpec => EndsLikeCrashes
  <1>1. MainInit => AsCrash!Init
    BY DEF MainInit, Init, Threads, AsCrash!Init, AsCrash!Threads
  <1>2. MainInit => EndsLeft
    BY ShutdownAssumption DEF MainInit, EndsLeft
  <1>3. Kept /\ EndsLeft /\ [MainNext]_<< vars, mainVars >>
          => [AsCrash!Next]_AsCrash!vars
    BY StepsOfPipeline, SameStep, EndIsCrash, EndsAreCounted, OnlyMainCrashes
       DEF AsCrash!Next, Kept
  <1> QED
    BY <1>1, <1>2, <1>3, EndsStep, KeptInit, KeptStep, PTL
       DEF MainSpec, EndsLikeCrashes, AsCrash!Spec
=============================================================================
