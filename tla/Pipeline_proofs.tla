-------------------------- MODULE Pipeline_proofs --------------------------
(***************************************************************************)
(* Theorems about Pipeline for every number of videos and workers, every   *)
(* size of the queue and every limit of attempts, whether or not timeouts  *)
(* and clients are orderly.                                                *)
(***************************************************************************)
EXTENDS Pipeline, TLAPS

-----------------------------------------------------------------------------
(* The types.                                                              *)

\* The part of TypeOK that a thread's move touches.
ThreadsOK ==
    /\ at \in [Threads -> Points]
    /\ vid \in [Threads -> Videos \cup {NoVideo}]
    /\ \A t \in Threads : at[t] # "idle" => vid[t] \in Videos
    /\ snap \in [Workers -> Nat]

LEMMA GotoType ==
    ASSUME TypeOK, NEW t \in Threads, NEW p \in Points, at[t] # "idle", Goto(t, p)
    PROVE  ThreadsOK'
  BY DEF TypeOK, ThreadsOK, Goto

LEMMA BeginType ==
    ASSUME TypeOK, NEW t \in Threads, NEW p \in Points, NEW v \in Videos,
           Begin(t, p, v)
    PROVE  ThreadsOK'
  BY DEF TypeOK, ThreadsOK, Begin

LEMMA CheckType ==
    ASSUME TypeOK, NEW t \in Threads, NEW from \in Points \ {"idle"}, NEW to,
           NEW valid \in Points, NEW invalid \in Points,
           Check(t, from, to, valid, invalid)
    PROVE  TypeOK'
  <1>1. ThreadsOK'
    BY GotoType DEF Check
  <1> QED
    BY <1>1 DEF TypeOK, ThreadsOK, Check, process, db, disk, scans, tus

LEMMA WriteType ==
    ASSUME TypeOK, NEW t \in Threads, NEW from \in Points \ {"idle"},
           NEW to \in Statuses, NEW next \in Points,
           Write(t, from, to, next)
    PROVE  TypeOK'
  <1>1. ThreadsOK'
    BY GotoType DEF Write
  <1>2. status' \in [Videos -> Statuses]
    BY DEF TypeOK, Write
  <1> QED
    BY <1>1, <1>2 DEF TypeOK, ThreadsOK, Write, process, disk, scans, tus

LEMMA TellType ==
    ASSUME TypeOK, NEW t \in Threads, NEW from \in Points \ {"idle"},
           NEW event \in {"processing", "ready", "failed"},
           Tell(t, from, event)
    PROVE  TypeOK'
  <1>1. "idle" \in Points
    BY DEF Points
  <1>2. ThreadsOK'
    BY <1>1, GotoType DEF Tell
  <1>3. told' \in [Videos -> SUBSET {"processing", "ready", "failed"}]
    BY DEF TypeOK, Tell
  <1> QED
    BY <1>2, <1>3 DEF TypeOK, ThreadsOK, Tell, process, db, disk, scans, tus

LEMMA ClientType == TypeOK /\ Client => TypeOK'
  <1> SUFFICES ASSUME TypeOK, NEW v \in Videos,
                      TusCreate(v) \/ TusChunk(v) \/ TusFinish(v) \/ TusTerminate(v)
               PROVE  TypeOK'
    BY DEF Client
  <1> USE PipelineAssumption DEF TypeOK, Contents, process, db, scans
  <1>1. CASE TusCreate(v)
    <2>1. uploads'[v] \in 0..MaxUploads
      BY <1>1 DEF TusCreate
    <2> QED
      BY <1>1, <2>1 DEF TusCreate
  <1>2. CASE TusChunk(v)
    BY <1>2 DEF TusChunk
  <1>3. CASE TusFinish(v)
    BY <1>3 DEF TusFinish
  <1>4. CASE TusTerminate(v)
    BY <1>4 DEF TusTerminate, tus
  <1> QED
    BY <1>1, <1>2, <1>3, <1>4

LEMMA EnqueueType ==
    ASSUME TypeOK, NEW t \in Enqueuers, Enqueue(t)
    PROVE  TypeOK'
  <1>1. t \in Threads
    BY DEF Enqueuers, Threads
  <1>2. AfterEnqueue(t) \in Points /\ AfterRefusal(t) \in Points
    BY DEF AfterEnqueue, AfterRefusal, Points
  <1>3. CASE EnqueueCheck(t)
    BY <1>1, <1>2, <1>3, CheckType DEF EnqueueCheck, Points
  <1>4. CASE EnqueueWrite(t)
    BY <1>1, <1>4, WriteType DEF EnqueueWrite, Points, Statuses
  <1>5. CASE EnqueueSend(t)
    <2>1. ThreadsOK'
      BY <1>1, <1>2, <1>5, GotoType DEF EnqueueSend
    <2>2. vid[t] \in Videos
      BY <1>1, <1>5 DEF TypeOK, EnqueueSend
    <2>3. queue' \in Seq(Videos) /\ Len(queue') <= QueueMaxSize
      <3> /\ queue \in Seq(Videos) /\ Len(queue) <= QueueMaxSize
          /\ QueueMaxSize \in Nat
        BY PipelineAssumption DEF TypeOK
      <3>1. CASE Len(queue) < QueueMaxSize
        <4>1. queue' = Append(queue, vid[t])
          BY <1>5, <3>1 DEF EnqueueSend
        <4>2. queue' \in Seq(Videos) /\ Len(queue') = Len(queue) + 1
          BY <2>2, <4>1
        <4> QED
          BY <3>1, <4>2
      <3>2. CASE ~(Len(queue) < QueueMaxSize)
        BY <1>5, <3>2 DEF EnqueueSend
      <3> QED
        BY <3>1, <3>2
    <2> QED
      BY <1>5, <2>1, <2>3 DEF TypeOK, ThreadsOK, EnqueueSend, process, db, disk,
                              scans, tus
  <1> QED
    BY <1>3, <1>4, <1>5 DEF Enqueue

LEMMA FailType ==
    ASSUME TypeOK, NEW t \in Threads, Fail(t)
    PROVE  TypeOK'
  <1>1. CASE FailCheck(t)
    BY <1>1, CheckType DEF FailCheck, Points
  <1>2. CASE FailWrite(t)
    BY <1>2, WriteType DEF FailWrite, Points, Statuses
  <1>3. CASE TellFailed(t)
    BY <1>3, TellType DEF TellFailed, Points
  <1> QED
    BY <1>1, <1>2, <1>3 DEF Fail

LEMMA HookType == TypeOK /\ Hook => TypeOK'
  <1> SUFFICES ASSUME TypeOK, Hook
               PROVE  TypeOK'
    OBVIOUS
  <1> "hook" \in Threads /\ "hook" \in Enqueuers
    BY DEF Threads, Enqueuers
  <1>1. ASSUME NEW v \in Videos, HookProgress(v)
        PROVE  TypeOK'
    <2>1. ThreadsOK'
      BY <1>1, BeginType DEF HookProgress, Points, TypeOK, ThreadsOK
    <2> QED
      BY <1>1, <2>1 DEF HookProgress, TypeOK, ThreadsOK, process, db, disk, scans
  <1>2. ASSUME NEW v \in Videos, HookComplete(v)
        PROVE  TypeOK'
    <2>1. ThreadsOK'
      BY <1>2, BeginType DEF HookComplete, Points
    <2> QED
      BY <1>2, <2>1 DEF HookComplete, TypeOK, ThreadsOK, process, db, disk, scans
  <1>3. CASE HookTouch
    BY <1>3, WriteType DEF HookTouch, Points, Statuses
  <1>4. CASE HookSetCompleteCheck
    BY <1>4, CheckType DEF HookSetCompleteCheck, Points
  <1>5. CASE HookSetComplete
    BY <1>5, WriteType DEF HookSetComplete, Points, Statuses
  <1>6. CASE Enqueue("hook")
    BY <1>6, EnqueueType
  <1>7. CASE HookTellProcessing
    BY <1>7, TellType DEF HookTellProcessing, Points
  <1>8. CASE HookRejectCheck
    BY <1>8, CheckType DEF HookRejectCheck, Points
  <1>9. CASE HookReject
    BY <1>9, WriteType DEF HookReject, Points, Statuses
  <1>10. CASE HookDiscard
    <2>1. ThreadsOK'
      BY <1>10, GotoType DEF HookDiscard, Points
    <2> QED
      BY <1>10, <2>1 DEF HookDiscard, TypeOK, ThreadsOK, Contents, process, db,
                         scans, tus
  <1>11. CASE TellFailed("hook")
    BY <1>11, FailType DEF Fail
  <1> QED
    BY <1>1, <1>2, <1>3, <1>4, <1>5, <1>6, <1>7, <1>8, <1>9, <1>10, <1>11 DEF Hook

LEMMA WorkerType ==
    ASSUME TypeOK, NEW w \in Workers, Worker(w)
    PROVE  TypeOK'
  <1> w \in Threads
    BY DEF Threads
  <1>1. CASE WorkerTake(w)
    <2>1. Head(queue) \in Videos /\ Tail(queue) \in Seq(Videos)
               /\ Len(Tail(queue)) <= QueueMaxSize
      BY <1>1, PipelineAssumption DEF WorkerTake, TypeOK
    <2>2. ThreadsOK'
      BY <1>1, <2>1, BeginType DEF WorkerTake, Points
    <2> QED
      BY <1>1, <2>1, <2>2 DEF WorkerTake, TypeOK, ThreadsOK, process, db, disk,
                              scans, tus
  <1>2. CASE WorkerLoad(w)
    <2>1. vid[w] \in Videos
      BY <1>2 DEF WorkerLoad, TypeOK
    <2>2. ThreadsOK'
      BY <1>2, <2>1 DEF WorkerLoad, TypeOK, ThreadsOK, Points
    <2> QED
      BY <1>2, <2>2 DEF WorkerLoad, TypeOK, ThreadsOK, process, db, disk, scans,
                        tus
  <1>3. CASE WorkerClaimCheck(w)
    BY <1>3, CheckType DEF WorkerClaimCheck, Points
  <1>4. CASE WorkerClaim(w)
    BY <1>4, WriteType DEF WorkerClaim, Points, Statuses
  <1>5. CASE WorkerEncode(w)
    <2>1. ThreadsOK'
      BY <1>5, GotoType DEF WorkerEncode, Points
    <2> QED
      BY <1>5, <2>1 DEF WorkerEncode, TypeOK, ThreadsOK, process, db, disk,
                        scans, tus
  <1>6. CASE WorkerPublish(w)
    <2>1. ThreadsOK'
      BY <1>6, GotoType DEF WorkerPublish, Points
    <2>2. vid[w] \in Videos
      BY <1>6 DEF WorkerPublish, TypeOK
    <2> QED
      BY <1>6, <2>1, <2>2 DEF WorkerPublish, TypeOK, ThreadsOK, process, db,
                              scans, tus
  <1>7. CASE WorkerStumble(w)
    <2>1. ThreadsOK'
      BY <1>7, GotoType DEF WorkerStumble, Points
    <2> QED
      BY <1>7, <2>1 DEF WorkerStumble, TypeOK, ThreadsOK, process, db, disk,
                        scans, tus
  <1>8. CASE WorkerReadyCheck(w)
    BY <1>8, CheckType DEF WorkerReadyCheck, Points
  <1>9. CASE WorkerReady(w)
    BY <1>9, WriteType DEF WorkerReady, Points, Statuses
  <1>10. CASE WorkerDescribe(w)
    <2>1. ThreadsOK'
      BY <1>10, GotoType DEF WorkerDescribe, Points
    <2>2. vid[w] \in Videos
      BY <1>10 DEF WorkerDescribe, TypeOK
    <2> QED
      BY <1>10, <2>1, <2>2 DEF WorkerDescribe, TypeOK, ThreadsOK, process, disk,
                               scans, tus
  <1>11. CASE WorkerFinish(w)
    <2>1. ThreadsOK'
      BY <1>11, GotoType DEF WorkerFinish, Points
    <2>2. told' \in [Videos -> SUBSET {"processing", "ready", "failed"}]
      BY <1>11 DEF WorkerFinish, TypeOK
    <2>3. file' \in [Videos -> Contents]
      BY <1>11 DEF WorkerFinish, TypeOK, Contents
    <2> QED
      BY <1>11, <2>1, <2>2, <2>3 DEF WorkerFinish, TypeOK, ThreadsOK, process,
                                     db, scans, tus
  <1>12. CASE WorkerCount(w)
    <2>1. ThreadsOK'
      BY <1>12, GotoType DEF WorkerCount, Points
    <2>2. attempts' \in [Videos -> Nat]
      BY <1>12 DEF WorkerCount, TypeOK
    <2> QED
      BY <1>12, <2>1, <2>2 DEF WorkerCount, TypeOK, ThreadsOK, process, disk,
                               scans, tus
  <1>13. CASE Fail(w)
    BY <1>13, FailType
  <1> QED
    BY <1>1, <1>2, <1>3, <1>4, <1>5, <1>6, <1>7, <1>8, <1>9, <1>10, <1>11,
           <1>12, <1>13
       DEF Worker

LEMMA KillerType == TypeOK /\ KillerStep => TypeOK'
  <1> SUFFICES ASSUME TypeOK, KillerStep
               PROVE  TypeOK'
    OBVIOUS
  <1> "killer" \in Threads
    BY DEF Threads
  <1>1. ASSUME NEW v \in Videos, KillerRemove(v)
        PROVE  TypeOK'
    <2>1. ThreadsOK'
      BY <1>1, BeginType DEF KillerRemove, Points
    <2> QED
      BY <1>1, <2>1 DEF KillerRemove, TypeOK, ThreadsOK, Contents, process, db,
                        tus
  <1>2. CASE KillerCheck
    BY <1>2, CheckType DEF KillerCheck, Points
  <1>3. CASE KillerFail
    BY <1>3, WriteType DEF KillerFail, Points, Statuses
  <1>4. CASE TellFailed("killer")
    BY <1>4, FailType DEF Fail
  <1> QED
    BY <1>1, <1>2, <1>3, <1>4 DEF KillerStep

LEMMA RestorerType ==
    ASSUME TypeOK, NEW t \in {"requeue", "boot"}, RestorerStep(t)
    PROVE  TypeOK'
  <1> t \in Threads /\ t \in Enqueuers
    BY DEF Threads, Enqueuers
  <1>1. ASSUME NEW r \in rows[t], Restore(t, r)
        PROVE  TypeOK'
    <2>1. r \in Row /\ r.v \in Videos
      BY DEF TypeOK, Row
    <2>2. ThreadsOK'
      BY <1>1, <2>1, BeginType DEF Restore, Points
    <2>3. attempts' \in [Videos -> Nat]
      <3>1. attempts' = attempts \/ attempts' = [attempts EXCEPT ![r.v] = @ + 1]
        BY <1>1 DEF Restore
      <3>2. attempts \in [Videos -> Nat]
        BY DEF TypeOK
      <3> QED
        BY <2>1, <3>1, <3>2
    <2>4. rows' \in [{"requeue", "boot"} -> SUBSET Row]
      BY <1>1 DEF Restore, TypeOK
    <2> QED
      BY <1>1, <2>2, <2>3, <2>4 DEF Restore, TypeOK, ThreadsOK, process, disk, tus
  <1>2. CASE RestoreCheck(t)
    BY <1>2, CheckType DEF RestoreCheck, Points
  <1>3. CASE RestoreWrite(t)
    BY <1>3, WriteType DEF RestoreWrite, Points, Statuses
  <1>4. CASE Enqueue(t)
    BY <1>4, EnqueueType
  <1>5. CASE Fail(t)
    BY <1>5, FailType
  <1> QED
    BY <1>1, <1>2, <1>3, <1>4, <1>5 DEF RestorerStep

LEMMA SnapshotType ==
    ASSUME TypeOK, NEW v \in Videos, status[v] \in {"upload_complete",
           "transcoding"}
    PROVE  Snapshot(v) \in Row
  BY DEF TypeOK, Snapshot, Row

LEMMA ScansType == TypeOK /\ Scans => TypeOK'
  <1> SUFFICES ASSUME TypeOK, NEW S \in SUBSET Videos,
         KillerScan(S) \/ RequeueScan(S)
               PROVE  TypeOK'
    BY DEF Scans
  <1>1. CASE KillerScan(S)
    BY <1>1 DEF KillerScan, TypeOK, process, db, disk, tus
  <1>2. CASE RequeueScan(S)
    <2>1. rows' \in [{"requeue", "boot"} -> SUBSET Row]
      BY <1>2, SnapshotType DEF RequeueScan, TypeOK
    <2> QED
      BY <1>2, <2>1 DEF RequeueScan, TypeOK, process, db, disk, tus
  <1> QED
    BY <1>1, <1>2

LEMMA ProcessType == TypeOK /\ (Crash \/ Boot \/ Serve) => TypeOK'
  <1> SUFFICES ASSUME TypeOK, Crash \/ Boot \/ Serve
               PROVE  TypeOK'
    OBVIOUS
  <1>1. CASE Crash
    <2>1. crashes' \in 0..MaxCrashes /\ QueueMaxSize >= 0
      BY <1>1, PipelineAssumption DEF Crash, TypeOK
    <2>2. ThreadsOK'
      BY <1>1 DEF Crash, ThreadsOK, Points
    <2>3. queue' \in Seq(Videos) /\ Len(queue') = 0
      BY <1>1 DEF Crash
    <2> QED
      BY <1>1, <2>1, <2>2, <2>3 DEF Crash, TypeOK, ThreadsOK, db, disk
  <1>2. CASE Boot
    <2>1. rows' \in [{"requeue", "boot"} -> SUBSET Row]
      BY <1>2, SnapshotType DEF Boot, TypeOK
    <2> QED
      BY <1>2, <2>1 DEF Boot, TypeOK, db, disk, tus
  <1>3. CASE Serve
    BY <1>3 DEF Serve, TypeOK, db, disk, scans, tus
  <1> QED
    BY <1>1, <1>2, <1>3

LEMMA InitType == Init => TypeOK
  BY PipelineAssumption DEF Init, TypeOK, Statuses, Contents, Points, Threads

LEMMA NextType == TypeOK /\ [Next]_vars => TypeOK'
  <1> SUFFICES ASSUME TypeOK, [Next]_vars
               PROVE  TypeOK'
    OBVIOUS
  <1>1. CASE RollbackCheck \/ RollbackWrite
    <2> "requeue" \in Threads
      BY DEF Threads
    <2>1. CASE RollbackCheck
      BY <2>1, CheckType DEF RollbackCheck, Points
    <2>2. CASE RollbackWrite
      BY <2>2, WriteType DEF RollbackWrite, Points, Statuses
    <2> QED
      BY <1>1, <2>1, <2>2
  <1>2. CASE UNCHANGED vars
    BY <1>2 DEF TypeOK, vars
  <1> QED
    BY <1>1, <1>2, ClientType, HookType, WorkerType, KillerType, RestorerType,
       ScansType, ProcessType DEF Next

\* The types hold: in particular the channel never holds more than its buffer,
\* and a thread that is at work has a video.
THEOREM TypeCorrect == Spec => []TypeOK
  BY InitType, NextType, PTL DEF Spec

-----------------------------------------------------------------------------
(* The safety invariants. A step is one of eighteen cases: the actions     *)
(* with the same shape share one. Two of the invariants are inductive as   *)
(* they stand, the other two need to know what a thread that is about to   *)
(* write a status has seen.                                                *)

\* A thread that has put a video in upload_complete leaves only by writing
\* transcoding: the transition it asks for is valid while the video stays there.
LEMMA MovingStep ==
    ASSUME TypeOK, CompletedIsMovingOn, [Next]_vars
    PROVE  CompletedIsMovingOn'
  <1> /\ at \in [Threads -> Points] /\ vid \in [Threads -> Videos \cup {NoVideo}]
      /\ status \in [Videos -> Statuses]
      /\ rows \in [{"requeue", "boot"} -> SUBSET Row]
      /\ \A t \in Threads : at[t] # "idle" => vid[t] \in Videos
    BY DEF TypeOK
  <1> Enqueuers \subseteq Threads /\ Workers \cap Enqueuers = {}
    BY PipelineAssumption DEF Enqueuers, Threads
  <1>1. ASSUME Client
        PROVE  CompletedIsMovingOn'
    BY <1>1
    DEF Client, TusCreate, TusChunk, TusFinish, TusTerminate, process, db, scans,
        CompletedIsMovingOn, Enqueuing, Enqueuers, Threads
  <1>2. ASSUME NEW v \in Videos,
               HookProgress(v) \/ HookComplete(v)
        PROVE  CompletedIsMovingOn'
    BY <1>2
    DEF HookProgress, HookComplete, Begin, Idle, process, db, disk, scans,
        CompletedIsMovingOn, Enqueuing, Enqueuers, Threads
  <1>3. ASSUME HookTouch \/ HookTellProcessing
        PROVE  CompletedIsMovingOn'
    BY <1>3
    DEF HookTouch, HookTellProcessing, Write, Tell, Goto, process, db, disk,
        scans, tus, CompletedIsMovingOn, Enqueuing, Enqueuers, Threads
  <1>4. ASSUME HookSetCompleteCheck \/ HookRejectCheck
        PROVE  CompletedIsMovingOn'
    BY <1>4
    DEF HookSetCompleteCheck, HookRejectCheck, Check, Goto, process, db, disk,
        scans, tus, CompletedIsMovingOn, Enqueuing, Enqueuers, Threads
  <1>5. ASSUME HookSetComplete \/ HookReject \/ HookDiscard
        PROVE  CompletedIsMovingOn'
    BY <1>5
    DEF HookSetComplete, HookReject, HookDiscard, Write, Goto, process, db,
        disk, scans, tus, CompletedIsMovingOn, Enqueuing, Enqueuers, Threads
  <1>6. ASSUME NEW t \in Enqueuers, EnqueueCheck(t) \/ EnqueueWrite(t)
        PROVE  CompletedIsMovingOn'
    BY <1>6
    DEF EnqueueCheck, EnqueueWrite, AfterRefusal, Check, Write, Goto, process,
        db, disk, scans, tus, CompletedIsMovingOn, Enqueuing, Enqueuers, Threads,
        IsValidTransition, ValidTransitions, Statuses
  <1>7. ASSUME NEW t \in Enqueuers, EnqueueSend(t)
        PROVE  CompletedIsMovingOn'
    <2>1. /\ at[t] = "send"
          /\ \E p \in {"tell_processing", "idle", "reject?", "rollback?"} : Goto(t, p)
      BY <1>7 DEF EnqueueSend, AfterEnqueue, AfterRefusal
    <2>2. UNCHANGED << process, db, disk, scans, tus, told >>
      BY <1>7 DEF EnqueueSend
    <2> QED
      BY <2>1, <2>2
      DEF CompletedIsMovingOn, Enqueuing, Enqueuers, Threads, Goto, process, db,
          disk, scans, tus
  <1>8. ASSUME NEW t \in Threads, Fail(t)
        PROVE  CompletedIsMovingOn'
    BY <1>8
    DEF Fail, FailCheck, FailWrite, TellFailed, Check, Write, Tell, Goto,
        process, db, disk, scans, tus, CompletedIsMovingOn, Enqueuing, Enqueuers,
        Threads
  <1>9. ASSUME NEW w \in Workers,
               WorkerTake(w) \/ WorkerLoad(w)
        PROVE  CompletedIsMovingOn'
    <2>1. CASE WorkerTake(w)
      <3>1. PICK v : Begin(w, "load", v)
        BY <2>1 DEF WorkerTake
      <3>2. at[w] = "idle" /\ UNCHANGED << process, db, disk, scans, tus, told >>
        BY <2>1 DEF WorkerTake, Idle
      <3> QED
        BY <3>1, <3>2
        DEF CompletedIsMovingOn, Enqueuing, Enqueuers, Threads, Begin, process,
            db, disk, scans, tus
    <2>2. CASE WorkerLoad(w)
      BY <2>2
      DEF CompletedIsMovingOn, Enqueuing, Enqueuers, Threads, WorkerLoad,
          process, db, disk, scans, tus
    <2> QED
      BY <1>9, <2>1, <2>2
  <1>10. ASSUME NEW w \in Workers,
               WorkerClaimCheck(w) \/ WorkerClaim(w) \/ WorkerEncode(w)
               \/ WorkerPublish(w) \/ WorkerStumble(w)
        PROVE  CompletedIsMovingOn'
    BY <1>10
    DEF WorkerClaimCheck, WorkerClaim, WorkerEncode, WorkerPublish,
        WorkerStumble, Check, Write, Goto, process, db, disk, scans, tus,
        CompletedIsMovingOn, Enqueuing, Enqueuers, Threads
  <1>11. ASSUME NEW w \in Workers,
               WorkerReadyCheck(w) \/ WorkerReady(w) \/ WorkerDescribe(w)
               \/ WorkerFinish(w)
        PROVE  CompletedIsMovingOn'
    BY <1>11
    DEF WorkerReadyCheck, WorkerReady, WorkerDescribe, WorkerFinish, Check,
        Write, Goto, process, db, disk, scans, tus, CompletedIsMovingOn,
        Enqueuing, Enqueuers, Threads
  <1>12. ASSUME NEW w \in Workers,
               WorkerCount(w)
        PROVE  CompletedIsMovingOn'
    BY <1>12
    DEF WorkerCount, Goto, process, db, disk, scans, tus, CompletedIsMovingOn,
        Enqueuing, Enqueuers, Threads
  <1>13. ASSUME KillerStep
        PROVE  CompletedIsMovingOn'
    BY <1>13
    DEF KillerStep, KillerRemove, KillerCheck, KillerFail, TellFailed, Check,
        Write, Tell, Begin, Goto, Idle, process, db, disk, scans, tus,
        CompletedIsMovingOn, Enqueuing, Enqueuers, Threads
  <1>14. ASSUME NEW t \in {"requeue", "boot"}, NEW r \in rows[t], Restore(t, r)
        PROVE  CompletedIsMovingOn'
    BY <1>14
    DEF Restore, Begin, Idle, process, disk, tus, CompletedIsMovingOn,
        Enqueuing, Enqueuers, Threads
  <1>15. ASSUME NEW t \in {"requeue", "boot"}, RestoreCheck(t) \/ RestoreWrite(t)
        PROVE  CompletedIsMovingOn'
    BY <1>15
    DEF RestoreCheck, RestoreWrite, Check, Write, Goto, process, db, disk,
        scans, tus, CompletedIsMovingOn, Enqueuing, Enqueuers, Threads
  <1>16. ASSUME RollbackCheck \/ RollbackWrite
        PROVE  CompletedIsMovingOn'
    BY <1>16
    DEF RollbackCheck, RollbackWrite, Check, Write, Goto, process, db, disk,
        scans, tus, CompletedIsMovingOn, Enqueuing, Enqueuers, Threads
  <1>17. ASSUME Scans \/ Serve \/ UNCHANGED vars
        PROVE  CompletedIsMovingOn'
    BY <1>17
    DEF Scans, KillerScan, RequeueScan, Snapshot, Serve, vars, process, db,
        disk, scans, tus, CompletedIsMovingOn, Enqueuing, Enqueuers, Threads
  <1>18. ASSUME Crash \/ Boot
        PROVE  CompletedIsMovingOn'
    <2>1. CASE Crash
      BY <2>1 DEF CompletedIsMovingOn, Enqueuing, Enqueuers, Threads, Crash, db,
                  disk
    <2>2. CASE Boot
      <3>1. phase' = "recovering" /\ UNCHANGED << status, at, vid >>
        BY <2>2 DEF Boot, db
      <3>2. \A v \in Videos : status[v] = "upload_complete" =>
               Snapshot(v) \in rows'["boot"] /\ Snapshot(v).v = v
                                             /\ Snapshot(v).s = "upload_complete"
        BY <2>2 DEF Boot, Snapshot
      <3> QED
        BY <3>1, <3>2 DEF CompletedIsMovingOn, Enqueuing
    <2> QED
      BY <1>18, <2>1, <2>2
  <1> QED
    BY <1>1, <1>2, <1>3, <1>4, <1>5, <1>6, <1>7, <1>8, <1>9, <1>10, <1>11, <1>12,
       <1>13, <1>14, <1>15, <1>16, <1>17, <1>18
    DEF Next, Client, Hook, Worker, KillerStep, RestorerStep, Enqueue, Fail,
        Scans,
        Enqueuers, Threads

\* Whoever writes a final status goes on to announce it, and nobody takes an
\* announcement back.
LEMMA AnnouncedStep ==
    ASSUME TypeOK, FinalIsAnnounced, [Next]_vars
    PROVE  FinalIsAnnounced'
  <1> /\ at \in [Threads -> Points] /\ vid \in [Threads -> Videos \cup {NoVideo}]
      /\ status \in [Videos -> Statuses] /\ crashes \in Nat
      /\ told \in [Videos -> SUBSET {"processing", "ready", "failed"}]
      /\ \A t \in Threads : at[t] # "idle" => vid[t] \in Videos
    BY PipelineAssumption DEF TypeOK
  <1> Enqueuers \subseteq Threads /\ Workers \subseteq Threads
    BY DEF Enqueuers, Threads
  <1>1. ASSUME Client
        PROVE  FinalIsAnnounced'
    BY <1>1
    DEF Client, TusCreate, TusChunk, TusFinish, TusTerminate, process, db, scans,
        FinalIsAnnounced, Failed, Threads
  <1>2. ASSUME NEW v \in Videos,
               HookProgress(v) \/ HookComplete(v)
        PROVE  FinalIsAnnounced'
    BY <1>2
    DEF HookProgress, HookComplete, Begin, Idle, process, db, disk, scans,
        FinalIsAnnounced, Failed, Threads
  <1>3. ASSUME HookTouch \/ HookTellProcessing
        PROVE  FinalIsAnnounced'
    BY <1>3
    DEF HookTouch, HookTellProcessing, Write, Tell, Goto, process, db, disk,
        scans, tus, FinalIsAnnounced, Failed, Threads
  <1>4. ASSUME HookSetCompleteCheck \/ HookRejectCheck
        PROVE  FinalIsAnnounced'
    BY <1>4
    DEF HookSetCompleteCheck, HookRejectCheck, Check, Goto, process, db, disk,
        scans, tus, FinalIsAnnounced, Failed, Threads
  <1>5. ASSUME HookSetComplete \/ HookReject \/ HookDiscard
        PROVE  FinalIsAnnounced'
    BY <1>5
    DEF HookSetComplete, HookReject, HookDiscard, Write, Goto, process, db,
        disk, scans, tus, FinalIsAnnounced, Failed, Threads
  <1>6. ASSUME NEW t \in Enqueuers, EnqueueCheck(t) \/ EnqueueWrite(t)
        PROVE  FinalIsAnnounced'
    BY <1>6
    DEF EnqueueCheck, EnqueueWrite, AfterRefusal, Check, Write, Goto, process,
        db, disk, scans, tus, FinalIsAnnounced, Failed, Threads
  <1>7. ASSUME NEW t \in Enqueuers, EnqueueSend(t)
        PROVE  FinalIsAnnounced'
    <2>1. /\ at[t] = "send"
          /\ \E p \in {"tell_processing", "idle", "reject?", "rollback?"} : Goto(t, p)
      BY <1>7 DEF EnqueueSend, AfterEnqueue, AfterRefusal
    <2>2. UNCHANGED << process, db, disk, scans, tus, told >>
      BY <1>7 DEF EnqueueSend
    <2> QED
      BY <2>1, <2>2
      DEF FinalIsAnnounced, Failed, Threads, Goto, process, db, disk, scans, tus
  <1>8. ASSUME NEW t \in Threads, Fail(t)
        PROVE  FinalIsAnnounced'
    BY <1>8
    DEF Fail, FailCheck, FailWrite, TellFailed, Check, Write, Tell, Goto,
        process, db, disk, scans, tus, FinalIsAnnounced, Failed, Threads
  <1>9. ASSUME NEW w \in Workers,
               WorkerTake(w) \/ WorkerLoad(w)
        PROVE  FinalIsAnnounced'
    <2>1. CASE WorkerTake(w)
      <3>1. PICK v : Begin(w, "load", v)
        BY <2>1 DEF WorkerTake
      <3>2. at[w] = "idle" /\ UNCHANGED << process, db, disk, scans, tus, told >>
        BY <2>1 DEF WorkerTake, Idle
      <3> QED
        BY <3>1, <3>2
        DEF FinalIsAnnounced, Failed, Threads, Begin, process, db, disk, scans,
            tus
    <2>2. CASE WorkerLoad(w)
      BY <2>2
      DEF FinalIsAnnounced, Failed, Threads, WorkerLoad, process, db, disk,
          scans, tus
    <2> QED
      BY <1>9, <2>1, <2>2
  <1>10. ASSUME NEW w \in Workers,
               WorkerClaimCheck(w) \/ WorkerClaim(w) \/ WorkerEncode(w)
               \/ WorkerPublish(w) \/ WorkerStumble(w)
        PROVE  FinalIsAnnounced'
    BY <1>10
    DEF WorkerClaimCheck, WorkerClaim, WorkerEncode, WorkerPublish,
        WorkerStumble, Check, Write, Goto, process, db, disk, scans, tus,
        FinalIsAnnounced, Failed, Threads
  <1>11. ASSUME NEW w \in Workers,
               WorkerReadyCheck(w) \/ WorkerReady(w) \/ WorkerDescribe(w)
               \/ WorkerFinish(w)
        PROVE  FinalIsAnnounced'
    BY <1>11
    DEF WorkerReadyCheck, WorkerReady, WorkerDescribe, WorkerFinish, Check,
        Write, Goto, process, db, disk, scans, tus, FinalIsAnnounced, Failed,
        Threads
  <1>12. ASSUME NEW w \in Workers,
               WorkerCount(w)
        PROVE  FinalIsAnnounced'
    BY <1>12
    DEF WorkerCount, Goto, process, db, disk, scans, tus, FinalIsAnnounced,
        Failed, Threads
  <1>13. ASSUME KillerStep
        PROVE  FinalIsAnnounced'
    BY <1>13
    DEF KillerStep, KillerRemove, KillerCheck, KillerFail, TellFailed, Check,
        Write, Tell, Begin, Goto, Idle, process, db, disk, scans, tus,
        FinalIsAnnounced, Failed, Threads
  <1>14. ASSUME NEW t \in {"requeue", "boot"}, NEW r \in rows[t], Restore(t, r)
        PROVE  FinalIsAnnounced'
    BY <1>14
    DEF Restore, Begin, Idle, process, disk, tus, FinalIsAnnounced, Failed,
        Threads
  <1>15. ASSUME NEW t \in {"requeue", "boot"}, RestoreCheck(t) \/ RestoreWrite(t)
        PROVE  FinalIsAnnounced'
    BY <1>15
    DEF RestoreCheck, RestoreWrite, Check, Write, Goto, process, db, disk,
        scans, tus, FinalIsAnnounced, Failed, Threads
  <1>16. ASSUME RollbackCheck \/ RollbackWrite
        PROVE  FinalIsAnnounced'
    BY <1>16
    DEF RollbackCheck, RollbackWrite, Check, Write, Goto, process, db, disk,
        scans, tus, FinalIsAnnounced, Failed, Threads
  <1>17. ASSUME Scans \/ Serve \/ UNCHANGED vars
        PROVE  FinalIsAnnounced'
    BY <1>17
    DEF Scans, KillerScan, RequeueScan, Snapshot, Serve, vars, process, db,
        disk, scans, tus, FinalIsAnnounced, Failed, Threads
  <1>18. ASSUME Crash \/ Boot
        PROVE  FinalIsAnnounced'
    <2>1. CASE Crash
      BY <2>1 DEF FinalIsAnnounced, Failed, Threads, Crash, db, disk
    <2>2. CASE Boot
      BY <2>2 DEF FinalIsAnnounced, Failed, Threads, Boot, db, disk, tus
    <2> QED
      BY <1>18, <2>1, <2>2
  <1> QED
    BY <1>1, <1>2, <1>3, <1>4, <1>5, <1>6, <1>7, <1>8, <1>9, <1>10, <1>11, <1>12,
       <1>13, <1>14, <1>15, <1>16, <1>17, <1>18
    DEF Next, Client, Hook, Worker, KillerStep, RestorerStep, Enqueue, Fail,
        Scans,
        Enqueuers, Threads

\* What a worker has seen of the video it is about to set ready.
Playable ==
    /\ ReadyIsPlayable
    /\ \A w \in Workers :
          /\ at[w] \in {"ready?", "ready!", "describe", "finish"} => vid[w] \in published
          /\ at[w] = "finish" => vid[w] \in described

\* The master and the description are never taken back, so what a worker has
\* published is there when it, or another worker, sets the video ready.
LEMMA PlayableStep ==
    ASSUME TypeOK, Playable, [Next]_vars
    PROVE  Playable'
  <1> /\ at \in [Threads -> Points] /\ vid \in [Threads -> Videos \cup {NoVideo}]
      /\ status \in [Videos -> Statuses]
      /\ told \in [Videos -> SUBSET {"processing", "ready", "failed"}]
      /\ \A t \in Threads : at[t] # "idle" => vid[t] \in Videos
    BY DEF TypeOK
  <1> Workers \subseteq Threads /\ Workers \cap {"hook", "killer", "requeue", "boot"} = {}
    BY PipelineAssumption DEF Threads
  <1>1. ASSUME Client
        PROVE  Playable'
    BY <1>1
    DEF Client, TusCreate, TusChunk, TusFinish, TusTerminate, process, db, scans, Playable,
        ReadyIsPlayable, Enqueuers, Threads
  <1>2. ASSUME NEW v \in Videos,
               HookProgress(v) \/ HookComplete(v)
        PROVE  Playable'
    BY <1>2
    DEF HookProgress, HookComplete, Begin, Idle, process, db, disk, scans,
        Playable, ReadyIsPlayable, Enqueuers, Threads
  <1>3. ASSUME HookTouch \/ HookTellProcessing
        PROVE  Playable'
    BY <1>3
    DEF HookTouch, HookTellProcessing, Write, Tell, Goto, process, db, disk,
        scans, tus, Playable, ReadyIsPlayable, Enqueuers, Threads
  <1>4. ASSUME HookSetCompleteCheck \/ HookRejectCheck
        PROVE  Playable'
    BY <1>4
    DEF HookSetCompleteCheck, HookRejectCheck, Check, Goto, process, db, disk,
        scans, tus, Playable, ReadyIsPlayable, Enqueuers, Threads
  <1>5. ASSUME HookSetComplete \/ HookReject \/ HookDiscard
        PROVE  Playable'
    BY <1>5
    DEF HookSetComplete, HookReject, HookDiscard, Write, Goto, process, db,
        disk, scans, tus, Playable, ReadyIsPlayable, Enqueuers, Threads
  <1>6. ASSUME NEW t \in Enqueuers, EnqueueCheck(t) \/ EnqueueWrite(t)
        PROVE  Playable'
    BY <1>6
    DEF EnqueueCheck, EnqueueWrite, AfterRefusal, Check, Write, Goto, process,
        db, disk, scans, tus, Playable, ReadyIsPlayable, Enqueuers, Threads
  <1>7. ASSUME NEW t \in Enqueuers, EnqueueSend(t)
        PROVE  Playable'
    <2>1. /\ at[t] = "send"
          /\ \E p \in {"tell_processing", "idle", "reject?", "rollback?"} : Goto(t, p)
      BY <1>7 DEF EnqueueSend, AfterEnqueue, AfterRefusal
    <2>2. UNCHANGED << process, db, disk, scans, tus, told >>
      BY <1>7 DEF EnqueueSend
    <2> QED
      BY <2>1, <2>2
      DEF Playable, ReadyIsPlayable, Enqueuers, Threads, Goto, process, db,
          disk, scans, tus
  <1>8. ASSUME NEW t \in Threads, Fail(t)
        PROVE  Playable'
    BY <1>8
    DEF Fail, FailCheck, FailWrite, TellFailed, Check, Write, Tell, Goto,
        process, db, disk, scans, tus, Playable, ReadyIsPlayable, Enqueuers,
        Threads
  <1>9. ASSUME NEW w \in Workers,
               WorkerTake(w) \/ WorkerLoad(w)
        PROVE  Playable'
    <2>1. CASE WorkerTake(w)
      <3>1. PICK v : Begin(w, "load", v)
        BY <2>1 DEF WorkerTake
      <3>2. at[w] = "idle" /\ UNCHANGED << process, db, disk, scans, tus, told >>
        BY <2>1 DEF WorkerTake, Idle
      <3> QED
        BY <3>1, <3>2
        DEF Playable, ReadyIsPlayable, Enqueuers, Threads, Begin, process, db,
            disk, scans, tus
    <2>2. CASE WorkerLoad(w)
      BY <2>2
      DEF Playable, ReadyIsPlayable, Enqueuers, Threads, WorkerLoad, process,
          db, disk, scans, tus
    <2> QED
      BY <1>9, <2>1, <2>2
  <1>10. ASSUME NEW w \in Workers,
               WorkerClaimCheck(w) \/ WorkerClaim(w) \/ WorkerEncode(w)
               \/ WorkerPublish(w) \/ WorkerStumble(w)
        PROVE  Playable'
    BY <1>10
    DEF WorkerClaimCheck, WorkerClaim, WorkerEncode, WorkerPublish,
        WorkerStumble, Check, Write, Goto, process, db, disk, scans, tus,
        Playable, ReadyIsPlayable, Enqueuers, Threads
  <1>11. ASSUME NEW w \in Workers,
               WorkerReadyCheck(w) \/ WorkerReady(w) \/ WorkerDescribe(w)
               \/ WorkerFinish(w)
        PROVE  Playable'
    BY <1>11
    DEF WorkerReadyCheck, WorkerReady, WorkerDescribe, WorkerFinish, Check,
        Write, Goto, process, db, disk, scans, tus, Playable, ReadyIsPlayable,
        Enqueuers, Threads
  <1>12. ASSUME NEW w \in Workers,
               WorkerCount(w)
        PROVE  Playable'
    BY <1>12
    DEF WorkerCount, Goto, process, db, disk, scans, tus, Playable,
        ReadyIsPlayable, Enqueuers, Threads
  <1>13. ASSUME KillerStep
        PROVE  Playable'
    BY <1>13
    DEF KillerStep, KillerRemove, KillerCheck, KillerFail, TellFailed, Check,
        Write, Tell, Begin, Goto, Idle, process, db, disk, scans, tus, Playable,
        ReadyIsPlayable, Enqueuers, Threads
  <1>14. ASSUME NEW t \in {"requeue", "boot"}, NEW r \in rows[t], Restore(t, r)
        PROVE  Playable'
    BY <1>14
    DEF Restore, Begin, Idle, process, disk, tus, Playable, ReadyIsPlayable,
        Enqueuers, Threads
  <1>15. ASSUME NEW t \in {"requeue", "boot"}, RestoreCheck(t) \/ RestoreWrite(t)
        PROVE  Playable'
    BY <1>15
    DEF RestoreCheck, RestoreWrite, Check, Write, Goto, process, db, disk,
        scans, tus, Playable, ReadyIsPlayable, Enqueuers, Threads
  <1>16. ASSUME RollbackCheck \/ RollbackWrite
        PROVE  Playable'
    BY <1>16
    DEF RollbackCheck, RollbackWrite, Check, Write, Goto, process, db, disk,
        scans, tus, Playable, ReadyIsPlayable, Enqueuers, Threads
  <1>17. ASSUME Scans \/ Serve \/ UNCHANGED vars
        PROVE  Playable'
    BY <1>17
    DEF Scans, KillerScan, RequeueScan, Snapshot, Serve, vars, process, db,
        disk, scans, tus, Playable, ReadyIsPlayable, Enqueuers, Threads
  <1>18. ASSUME Crash \/ Boot
        PROVE  Playable'
    <2>1. CASE Crash
      BY <2>1 DEF Playable, ReadyIsPlayable, Enqueuers, Threads, Crash, db, disk
    <2>2. CASE Boot
      BY <2>2 DEF Playable, ReadyIsPlayable, Enqueuers, Threads, Boot, db, disk,
                  tus
    <2> QED
      BY <1>18, <2>1, <2>2
  <1> QED
    BY <1>1, <1>2, <1>3, <1>4, <1>5, <1>6, <1>7, <1>8, <1>9, <1>10, <1>11, <1>12,
       <1>13, <1>14, <1>15, <1>16, <1>17, <1>18
    DEF Next, Client, Hook, Worker, KillerStep, RestorerStep, Enqueue, Fail,
        Scans,
        Enqueuers, Threads

\* The count that a thread has read, of a worker's video or of a scan's row, is
\* never above the one in the database: attempts are only added. So whoever has
\* decided that a video is exhausted is right, however old the count it read.
Counted ==
    /\ ExhaustedBeforeFailed
    /\ \A t \in Threads :
          at[t] \in {"fail?", "fail!"} => attempts[vid[t]] >= MaxTranscodeAttempts
    /\ \A w \in Workers : at[w] \notin {"idle", "load"} => snap[w] <= attempts[vid[w]]
    /\ \A t \in {"requeue", "boot"} : \A r \in rows[t] : r.a <= attempts[r.v]

\* Attempts are only added, so a stale count errs on the safe side.
LEMMA CountedStep ==
    ASSUME TypeOK, Counted, [Next]_vars
    PROVE  Counted'
  <1> /\ at \in [Threads -> Points] /\ vid \in [Threads -> Videos \cup {NoVideo}]
      /\ status \in [Videos -> Statuses] /\ attempts \in [Videos -> Nat]
      /\ rows \in [{"requeue", "boot"} -> SUBSET Row] /\ snap \in [Workers -> Nat]
      /\ \A t \in Threads : at[t] # "idle" => vid[t] \in Videos
    BY DEF TypeOK
  <1> Workers \subseteq Threads /\ Workers \cap {"hook", "killer", "requeue", "boot"} = {}
    BY PipelineAssumption DEF Threads
  <1> MaxTranscodeAttempts \in Nat
    BY PipelineAssumption
  <1>1. ASSUME Client
        PROVE  Counted'
    BY <1>1
    DEF Client, TusCreate, TusChunk, TusFinish, TusTerminate, process, db, scans, Counted,
        ExhaustedBeforeFailed, Enqueuers, Threads
  <1>2. ASSUME NEW v \in Videos,
               HookProgress(v) \/ HookComplete(v)
        PROVE  Counted'
    BY <1>2
    DEF HookProgress, HookComplete, Begin, Idle, process, db, disk, scans,
        Counted, ExhaustedBeforeFailed, Enqueuers, Threads
  <1>3. ASSUME HookTouch \/ HookTellProcessing
        PROVE  Counted'
    BY <1>3
    DEF HookTouch, HookTellProcessing, Write, Tell, Goto, process, db, disk,
        scans, tus, Counted, ExhaustedBeforeFailed, Enqueuers, Threads
  <1>4. ASSUME HookSetCompleteCheck \/ HookRejectCheck
        PROVE  Counted'
    BY <1>4
    DEF HookSetCompleteCheck, HookRejectCheck, Check, Goto, process, db, disk,
        scans, tus, Counted, ExhaustedBeforeFailed, Enqueuers, Threads
  <1>5. ASSUME HookSetComplete \/ HookReject \/ HookDiscard
        PROVE  Counted'
    BY <1>5
    DEF HookSetComplete, HookReject, HookDiscard, Write, Goto, process, db,
        disk, scans, tus, Counted, ExhaustedBeforeFailed, Enqueuers, Threads
  <1>6. ASSUME NEW t \in Enqueuers, EnqueueCheck(t) \/ EnqueueWrite(t)
        PROVE  Counted'
    BY <1>6
    DEF EnqueueCheck, EnqueueWrite, AfterRefusal, Check, Write, Goto, process,
        db, disk, scans, tus, Counted, ExhaustedBeforeFailed, Enqueuers, Threads
  <1>7. ASSUME NEW t \in Enqueuers, EnqueueSend(t)
        PROVE  Counted'
    <2>1. /\ at[t] = "send"
          /\ \E p \in {"tell_processing", "idle", "reject?", "rollback?"} : Goto(t, p)
      BY <1>7 DEF EnqueueSend, AfterEnqueue, AfterRefusal
    <2>2. UNCHANGED << process, db, disk, scans, tus, told >>
      BY <1>7 DEF EnqueueSend
    <2> QED
      BY <2>1, <2>2
      DEF Counted, ExhaustedBeforeFailed, Enqueuers, Threads, Goto, process, db,
          disk, scans, tus
  <1>8. ASSUME NEW t \in Threads, Fail(t)
        PROVE  Counted'
    BY <1>8
    DEF Fail, FailCheck, FailWrite, TellFailed, Check, Write, Tell, Goto,
        process, db, disk, scans, tus, Counted, ExhaustedBeforeFailed, Enqueuers,
        Threads
  <1>9. ASSUME NEW w \in Workers,
               WorkerTake(w) \/ WorkerLoad(w)
        PROVE  Counted'
    <2>1. CASE WorkerTake(w)
      <3>1. PICK v : Begin(w, "load", v)
        BY <2>1 DEF WorkerTake
      <3>2. at[w] = "idle" /\ UNCHANGED << process, db, disk, scans, tus, told >>
        BY <2>1 DEF WorkerTake, Idle
      <3> QED
        BY <3>1, <3>2
        DEF Counted, ExhaustedBeforeFailed, Enqueuers, Threads, Begin, process,
            db, disk, scans, tus
    <2>2. CASE WorkerLoad(w)
      BY <2>2
      DEF Counted, ExhaustedBeforeFailed, Enqueuers, Threads, WorkerLoad,
          process, db, disk, scans, tus
    <2> QED
      BY <1>9, <2>1, <2>2
  <1>10. ASSUME NEW w \in Workers,
               WorkerClaimCheck(w) \/ WorkerClaim(w) \/ WorkerEncode(w)
               \/ WorkerPublish(w) \/ WorkerStumble(w)
        PROVE  Counted'
    BY <1>10
    DEF WorkerClaimCheck, WorkerClaim, WorkerEncode, WorkerPublish,
        WorkerStumble, Check, Write, Goto, process, db, disk, scans, tus, Counted,
        ExhaustedBeforeFailed, Enqueuers, Threads
  <1>11. ASSUME NEW w \in Workers,
               WorkerReadyCheck(w) \/ WorkerReady(w) \/ WorkerDescribe(w)
               \/ WorkerFinish(w)
        PROVE  Counted'
    BY <1>11
    DEF WorkerReadyCheck, WorkerReady, WorkerDescribe, WorkerFinish, Check,
        Write, Goto, process, db, disk, scans, tus, Counted,
        ExhaustedBeforeFailed, Enqueuers, Threads
  <1>12. ASSUME NEW w \in Workers,
               WorkerCount(w)
        PROVE  Counted'
    <2>1. /\ vid[w] \in Videos /\ attempts[vid[w]] \in Nat
          /\ snap[w] <= attempts[vid[w]]
      BY <1>12 DEF Counted, WorkerCount
    <2>2. \A v \in Videos : attempts'[v] >= attempts[v] /\ attempts'[v] \in Nat
      BY <1>12, <2>1 DEF WorkerCount
    <2>3. attempts'[vid[w]] = attempts[vid[w]] + 1
      BY <1>12, <2>1 DEF WorkerCount
    <2>4. at'[w] = "fail?" => attempts'[vid[w]] >= MaxTranscodeAttempts
      BY <1>12, <2>1, <2>3 DEF WorkerCount, Goto
    <2>5. /\ \A t \in Threads \ {w} : at'[t] = at[t] /\ vid'[t] = vid[t]
          /\ \A x \in Workers \ {w} : snap'[x] = snap[x]
          /\ at'[w] \in {"fail?", "idle"}
          /\ at'[w] = "fail?" => vid'[w] = vid[w] /\ snap'[w] = snap[w]
          /\ UNCHANGED << status, rows >>
      BY <1>12 DEF WorkerCount, Goto, scans
    <2>6. ExhaustedBeforeFailed'
      BY <2>2, <2>5 DEF Counted, ExhaustedBeforeFailed
    <2>7. \A t \in Threads : at'[t] \in {"fail?", "fail!"} =>
             attempts'[vid'[t]] >= MaxTranscodeAttempts
      BY <2>2, <2>4, <2>5 DEF Counted
    <2>8. \A x \in Workers : at'[x] \notin {"idle", "load"} =>
             snap'[x] <= attempts'[vid'[x]]
      BY <2>1, <2>2, <2>3, <2>5 DEF Counted
    <2>9. \A t \in {"requeue", "boot"} : \A r \in rows'[t] : r.a <= attempts'[r.v]
      BY <2>2, <2>5 DEF Counted, Row
    <2> QED
      BY <2>6, <2>7, <2>8, <2>9 DEF Counted
  <1>13. ASSUME KillerStep
        PROVE  Counted'
    BY <1>13
    DEF KillerStep, KillerRemove, KillerCheck, KillerFail, TellFailed, Check,
        Write, Tell, Begin, Goto, Idle, process, db, disk, scans, tus, Counted,
        ExhaustedBeforeFailed, Enqueuers, Threads
  <1>14. ASSUME NEW t \in {"requeue", "boot"}, NEW r \in rows[t], Restore(t, r)
        PROVE  Counted'
    BY <1>14
    DEF Restore, Begin, Idle, process, disk, tus, Counted,
        ExhaustedBeforeFailed, Enqueuers, Threads, Row
  <1>15. ASSUME NEW t \in {"requeue", "boot"}, RestoreCheck(t) \/ RestoreWrite(t)
        PROVE  Counted'
    BY <1>15
    DEF RestoreCheck, RestoreWrite, Check, Write, Goto, process, db, disk,
        scans, tus, Counted, ExhaustedBeforeFailed, Enqueuers, Threads
  <1>16. ASSUME RollbackCheck \/ RollbackWrite
        PROVE  Counted'
    BY <1>16
    DEF RollbackCheck, RollbackWrite, Check, Write, Goto, process, db, disk,
        scans, tus, Counted, ExhaustedBeforeFailed, Enqueuers, Threads
  <1>17. ASSUME Scans \/ Serve \/ UNCHANGED vars
        PROVE  Counted'
    BY <1>17
    DEF Scans, KillerScan, RequeueScan, Snapshot, Serve, vars, process, db,
        disk, scans, tus, Counted, ExhaustedBeforeFailed, Enqueuers, Threads
  <1>18. ASSUME Crash \/ Boot
        PROVE  Counted'
    <2>1. CASE Crash
      BY <2>1 DEF Counted, ExhaustedBeforeFailed, Enqueuers, Threads, Crash, db,
                  disk
    <2>2. CASE Boot
      BY <2>2 DEF Counted, ExhaustedBeforeFailed, Enqueuers, Threads, Snapshot,
                  Boot, db, disk, tus
    <2> QED
      BY <1>18, <2>1, <2>2
  <1> QED
    BY <1>1, <1>2, <1>3, <1>4, <1>5, <1>6, <1>7, <1>8, <1>9, <1>10, <1>11, <1>12,
       <1>13, <1>14, <1>15, <1>16, <1>17, <1>18
    DEF Next, Client, Hook, Worker, KillerStep, RestorerStep, Enqueue, Fail,
        Scans,
        Enqueuers, Threads

\* No video rests in upload_complete, where no job would look for it: the
\* invariant that the comment in runOnce (jobs/requeue.go) asks for.
THEOREM CompletedMovesOn == Spec => []CompletedIsMovingOn
  <1>1. Init => CompletedIsMovingOn
    BY DEF Init, CompletedIsMovingOn
  <1> QED
    BY <1>1, MovingStep, TypeCorrect, PTL DEF Spec

\* A video is given up only once MaxTranscodeAttempts attempts are counted
\* (handleTranscodeFailure, runOnce, RunStartupRecovery).
THEOREM FailedIsExhausted == Spec => []ExhaustedBeforeFailed
  <1>1. Init => Counted
    BY PipelineAssumption DEF Init, Counted, ExhaustedBeforeFailed, Threads
  <1>2. Counted => ExhaustedBeforeFailed
    BY DEF Counted
  <1> QED
    BY <1>1, <1>2, CountedStep, TypeCorrect, PTL DEF Spec

\* A video that is ready, or said to be, has its master playlist (Transcode).
THEOREM ReadyHasMaster == Spec => []ReadyIsPlayable
  <1>1. Init => Playable
    BY DEF Init, Playable, ReadyIsPlayable, Threads
  <1>2. Playable => ReadyIsPlayable
    BY DEF Playable
  <1> QED
    BY <1>1, <1>2, PlayableStep, TypeCorrect, PTL DEF Spec

\* Without a crash every final status is announced with its own event.
THEOREM FinalGetsAnnounced == Spec => []FinalIsAnnounced
  <1>1. Init => FinalIsAnnounced
    BY DEF Init, FinalIsAnnounced, Failed
  <1> QED
    BY <1>1, AnnouncedStep, TypeCorrect, PTL DEF Spec
=============================================================================
