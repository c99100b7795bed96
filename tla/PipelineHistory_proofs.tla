----------------------- MODULE PipelineHistory_proofs -----------------------
(***************************************************************************)
(* Theorems about PipelineHistory: how often a video is tried, how far its *)
(* attempts are counted and how often its status changes when timeouts and *)
(* clients are orderly, for every limit of attempts and number of crashes. *)
(***************************************************************************)
EXTENDS PipelineHistory, PipelineOrder_proofs

\* The points on the way from the restorer's count to the end of a run.
SpareAt == {"restore?", "restore!", "enqueue?", "enqueue!", "send", "load", "encode",
            "publish", "ready?", "ready!"}

\* A run of v is to come or under way: it has an attempt to spare.
Spare(v) ==
    \/ v \in Range(queue)
    \/ status[v] \in Open \cup {"upload_complete"}
    \/ \E t \in Threads : vid[t] = v /\ at[t] \in SpareAt

\* A run of v has failed and is not yet counted.
Counting(v) == \E t \in Threads : vid[t] = v /\ at[t] = "count"

\* An attempt is counted for putting v back, and v is still in transcoding.
Restoring(v) == \E t \in Threads : vid[t] = v /\ at[t] \in {"restore?", "restore!"}

RowsAreFresh ==
    \A t \in {"requeue", "boot"} : \A r \in rows[t] :
        r.v \in Quick => r.a = attempts[r.v]

\* A count is short of twice the failures by what the next count adds, and by the
\* crashes that lost one.
Tried(v) ==
    /\ attempts[v] <= MaxTranscodeAttempts + 1
    /\ Spare(v) => /\ attempts[v] <= MaxTranscodeAttempts
                   /\ 2 * failures[v] <= attempts[v] + crashes
    /\ Counting(v) => /\ attempts[v] <= MaxTranscodeAttempts
                      /\ 2 * failures[v] <= attempts[v] + crashes + 2
    /\ ~Counting(v) => 2 * failures[v] <= attempts[v] + crashes + 1

\* How far on a status is; only putting a video back leads from one to a lower one.
Rank(s) ==
    IF s = "pending_upload" THEN 0
    ELSE IF s = "uploading" THEN 1
    ELSE IF s = "upload_complete" THEN 2
    ELSE IF s = "transcoding" THEN 3
    ELSE 4

\* The attempts of v that may have paid for putting it back.
Paid(v) ==
    IF attempts[v] <= MaxTranscodeAttempts THEN attempts[v] ELSE MaxTranscodeAttempts

Changed(v) ==
    /\ changes[v] <= 2 * Paid(v) + Rank(status[v])
    /\ Restoring(v) => changes[v] + 2 <= 2 * Paid(v) + Rank(status[v])

\* The inductive invariant, beside Ordered.
History ==
    /\ RowsAreFresh
    /\ \A v \in Quick : failures[v] \in Nat /\ Tried(v) /\ changes[v] \in Nat /\ Changed(v)

-----------------------------------------------------------------------------
(* Who brings about what the invariant looks at.                           *)

LEMMA AttemptWriters ==
    ASSUME [Next]_vars, attempts' # attempts
    PROVE  \/ \E w \in Workers : WorkerCount(w)
           \/ \E t \in {"requeue", "boot"} : \E r \in rows[t] : Restore(t, r)
  BY DEF Next, Client, TusCreate, TusChunk, TusFinish, TusTerminate, Hook, HookProgress,
         HookComplete,
         HookTouch, HookSetCompleteCheck, HookSetComplete, HookTellProcessing,
         HookRejectCheck, HookReject, HookDiscard, Enqueue, EnqueueCheck, EnqueueWrite,
         EnqueueSend, Worker, WorkerTake, WorkerLoad, WorkerClaimCheck, WorkerClaim,
         WorkerEncode, WorkerPublish, WorkerStumble, WorkerReadyCheck, WorkerReady,
         WorkerDescribe, WorkerFinish, Fail, FailCheck, FailWrite, TellFailed, KillerStep,
         KillerRemove, KillerCheck, KillerFail, RestorerStep, RestoreCheck, RestoreWrite,
         RollbackCheck, RollbackWrite, Scans, KillerScan, RequeueScan, Crash, Boot, Serve,
         Check, Write, Tell, vars, db

LEMMA CrashesGrow ==
    ASSUME TypeOK, [Next]_vars
    PROVE  crashes' = crashes \/ Crash
  BY DEF Next, Client, TusCreate, TusChunk, TusFinish, TusTerminate, Hook, HookProgress,
         HookComplete,
         HookTouch, HookSetCompleteCheck, HookSetComplete, HookTellProcessing,
         HookRejectCheck, HookReject, HookDiscard, Enqueue, EnqueueCheck, EnqueueWrite,
         EnqueueSend, Worker, WorkerTake, WorkerLoad, WorkerClaimCheck, WorkerClaim,
         WorkerEncode, WorkerPublish, WorkerStumble, WorkerReadyCheck, WorkerReady,
         WorkerDescribe, WorkerFinish, WorkerCount, Fail, FailCheck, FailWrite, TellFailed,
         KillerStep, KillerRemove, KillerCheck, KillerFail, RestorerStep, Restore,
         RestoreCheck, RestoreWrite, RollbackCheck, RollbackWrite, Scans, KillerScan,
         RequeueScan, Boot, Serve, Check, Write, Tell, vars, process

LEMMA Completes ==
    ASSUME TypeOK, [Next]_vars, NEW v \in Videos,
           status[v] # "upload_complete", status'[v] = "upload_complete"
    PROVE  \E t \in Threads : vid[t] = v /\ at[t] \in {"complete!", "restore!"}
  <1> status \in [Videos -> Statuses]
    BY DEF TypeOK
  <1> QED
    BY DEF Next, Client, TusCreate, TusChunk, TusFinish, TusTerminate, Hook, HookProgress,
           HookComplete,
           HookTouch, HookSetCompleteCheck, HookSetComplete, HookTellProcessing,
           HookRejectCheck, HookReject, HookDiscard, Enqueue, EnqueueCheck, EnqueueWrite,
           EnqueueSend, Worker, WorkerTake, WorkerLoad, WorkerClaimCheck, WorkerClaim,
           WorkerEncode, WorkerPublish, WorkerStumble, WorkerReadyCheck, WorkerReady,
           WorkerDescribe, WorkerFinish, WorkerCount, Fail, FailCheck, FailWrite,
           TellFailed, KillerStep, KillerRemove, KillerCheck, KillerFail, RestorerStep,
           Restore, RestoreCheck, RestoreWrite, RollbackCheck, RollbackWrite, Scans,
           KillerScan, RequeueScan, Crash, Boot, Serve, Check, Write, Tell, vars, db,
           Threads

\* Where each kind of thread comes from when it arrives at a point that matters here.
Matters == SpareAt \cup {"count"}

LEMMA HookArrives ==
    ASSUME TypeOK, Hook, at'["hook"] \in Matters
    PROVE  /\ vid'["hook"] = vid["hook"] /\ at'["hook"] \in {"enqueue?", "enqueue!", "send"}
           /\ at["hook"] \in {"complete!", "enqueue?", "enqueue!"}
  <1> "hook" \in Threads /\ at \in [Threads -> Points]
    BY DEF TypeOK, Threads
  <1> QED
    BY DEF Hook, HookProgress, HookComplete, HookTouch, HookSetCompleteCheck,
           HookSetComplete, HookTellProcessing, HookRejectCheck, HookReject, HookDiscard,
           Enqueue, EnqueueCheck, EnqueueWrite, EnqueueSend, AfterEnqueue, AfterRefusal,
           TellFailed, Check, Write, Tell, Begin, Goto, Idle, Matters, SpareAt

LEMMA WorkerArrives ==
    ASSUME TypeOK, NEW w \in Workers, Worker(w), at'[w] \in Matters
    PROVE  \/ WorkerTake(w) /\ at'[w] = "load" /\ vid'[w] = Head(queue) /\ queue # << >>
           \/ /\ vid'[w] = vid[w]
              /\ at'[w] \in {"encode", "publish", "ready?", "ready!"}
              /\ at[w] \in {"load", "claim!", "encode", "publish", "ready?"}
           \/ /\ vid'[w] = vid[w] /\ at'[w] = "count"
              /\ at[w] \in {"encode", "publish", "ready?"}
  <1> w \in Threads /\ at \in [Threads -> Points] /\ vid \in [Threads -> Videos \cup {NoVideo}]
    BY DEF TypeOK, Threads
  <1>1. CASE WorkerTake(w)
    BY <1>1 DEF WorkerTake, Begin
  <1> QED
    BY <1>1
    DEF Worker, WorkerLoad, WorkerClaimCheck, WorkerClaim, WorkerEncode, WorkerPublish,
        WorkerStumble, WorkerReadyCheck, WorkerReady, WorkerDescribe, WorkerFinish,
        WorkerCount, Fail, FailCheck, FailWrite, TellFailed, Check, Write, Tell, Goto,
        Matters, SpareAt

LEMMA RestorerArrives ==
    ASSUME TypeOK, NEW t \in {"requeue", "boot"}, RestorerStep(t), at'[t] \in Matters
    PROVE  \/ /\ vid'[t] = vid[t] /\ at'[t] = "restore!" /\ at[t] = "restore?"
           \/ /\ vid'[t] = vid[t] /\ at'[t] \in {"enqueue?", "enqueue!", "send"}
              /\ at[t] \in {"restore!", "enqueue?", "enqueue!"}
           \/ \E r \in rows[t] : Restore(t, r)
  <1> t \in Threads /\ at \in [Threads -> Points]
    BY DEF TypeOK, Threads
  <1>1. CASE \E r \in rows[t] : Restore(t, r)
    BY <1>1
  <1>2. CASE ~\E r \in rows[t] : Restore(t, r)
    <2>1. \/ RestoreCheck(t) \/ RestoreWrite(t) \/ Enqueue(t) \/ Fail(t)
      BY <1>2 DEF RestorerStep
    <2> QED
      BY <2>1, PipelineAssumption
      DEF RestoreCheck, RestoreWrite, Enqueue, EnqueueCheck, EnqueueWrite, EnqueueSend,
          AfterEnqueue, AfterRefusal, Fail, FailCheck, FailWrite, TellFailed, Check, Write,
          Tell, Goto, Matters, SpareAt
  <1> QED
    BY <1>1, <1>2

LEMMA OthersNeverArrive ==
    ASSUME TypeOK
    PROVE  /\ KillerStep => at'["killer"] \notin Matters
           /\ RollbackCheck \/ RollbackWrite => at'["requeue"] \notin Matters
           /\ Crash => \A t \in Threads : at'[t] = "idle"
  <1> {"killer", "requeue"} \subseteq Threads /\ at \in [Threads -> Points]
    BY DEF TypeOK, Threads
  <1> QED
    BY DEF KillerStep, KillerRemove, KillerCheck, KillerFail, RollbackCheck, RollbackWrite,
           TellFailed, Check, Write, Tell, Begin, Goto, Crash, Matters, SpareAt

\* How a thread comes to a point with an attempt to spare.
LEMMA GoesToSpare ==
    ASSUME TypeOK, [Next]_vars, NEW t \in Threads, at'[t] \in SpareAt
    PROVE  \/ at[t] \in SpareAt \cup {"complete!", "claim!"} /\ vid'[t] = vid[t]
           \/ t \in Workers /\ WorkerTake(t) /\ vid'[t] = Head(queue) /\ queue # << >>
           \/ t \in {"requeue", "boot"} /\ \E r \in rows[t] : Restore(t, r)
  <1> at'[t] \in Matters /\ at'[t] # "idle"
    BY DEF Matters, SpareAt
  <1> USE DEF SpareAt
  <1>1. CASE at'[t] = at[t] /\ vid'[t] = vid[t]
    BY <1>1
  <1>2. CASE t = "hook" /\ Hook
    BY <1>2, HookArrives
  <1>3. CASE t \in Workers /\ Worker(t)
    BY <1>3, WorkerArrives
  <1>4. CASE t \in {"requeue", "boot"} /\ RestorerStep(t)
    BY <1>4, RestorerArrives
  <1> QED
    BY <1>1, <1>2, <1>3, <1>4, OnlyItMoves, OthersNeverArrive

\* How a worker comes to the failure handler, and how it leaves it.
LEMMA GoesToCount ==
    ASSUME TypeOK, [Next]_vars, NEW t \in Threads, at'[t] = "count"
    PROVE  vid'[t] = vid[t] /\ at[t] \in {"count", "encode", "publish", "ready?"}
  <1> at'[t] \in Matters
    BY DEF Matters
  <1>1. CASE at'[t] = at[t] /\ vid'[t] = vid[t]
    BY <1>1
  <1>2. CASE t = "hook" /\ Hook
    BY <1>2, HookArrives
  <1>3. CASE t \in Workers /\ Worker(t)
    BY <1>3, WorkerArrives
  <1>4. CASE t \in {"requeue", "boot"} /\ RestorerStep(t)
    <2>1. ~\E r \in rows[t] : Restore(t, r)
      BY <1>4 DEF Restore, Begin, TypeOK, Threads
    <2> QED
      BY <1>4, <2>1, RestorerArrives
  <1> QED
    BY <1>1, <1>2, <1>3, <1>4, OnlyItMoves, OthersNeverArrive

LEMMA LeavesCount ==
    ASSUME TypeOK, [Next]_vars, NEW t \in Threads, at[t] = "count",
           at'[t] # "count" \/ vid'[t] # vid[t]
    PROVE  (t \in Workers /\ WorkerCount(t)) \/ Crash
  <1>1. CASE t = "hook" /\ Hook
    BY <1>1
    DEF Hook, HookProgress, HookComplete, HookTouch, HookSetCompleteCheck,
        HookSetComplete, HookTellProcessing, HookRejectCheck, HookReject, HookDiscard,
        Enqueue, EnqueueCheck, EnqueueWrite, EnqueueSend, TellFailed, Check, Write, Tell,
        Idle
  <1>2. CASE t \in Workers /\ Worker(t)
    BY <1>2
    DEF Worker, WorkerTake, WorkerLoad, WorkerClaimCheck, WorkerClaim, WorkerEncode,
        WorkerPublish, WorkerStumble, WorkerReadyCheck, WorkerReady, WorkerDescribe,
        WorkerFinish, Fail, FailCheck, FailWrite, TellFailed, Check, Write, Tell, Idle
  <1>3. CASE t = "killer" /\ KillerStep
    BY <1>3 DEF KillerStep, KillerRemove, KillerCheck, KillerFail, TellFailed, Check, Write,
                Tell, Idle
  <1>4. CASE t \in {"requeue", "boot"} /\ RestorerStep(t)
    BY <1>4
    DEF RestorerStep, Restore, RestoreCheck, RestoreWrite, Enqueue, EnqueueCheck,
        EnqueueWrite, EnqueueSend, Fail, FailCheck, FailWrite, TellFailed, Check, Write,
        Tell, Idle
  <1>5. CASE t = "requeue" /\ (RollbackCheck \/ RollbackWrite)
    BY <1>5 DEF RollbackCheck, RollbackWrite, Check, Write
  <1> QED
    BY <1>1, <1>2, <1>3, <1>4, <1>5, OnlyItMoves

\* How a thread comes to put a video back.
LEMMA GoesToRestore ==
    ASSUME TypeOK, [Next]_vars, NEW t \in Threads, at'[t] \in {"restore?", "restore!"}
    PROVE  \/ at[t] \in {"restore?", "restore!"} /\ vid'[t] = vid[t]
           \/ t \in {"requeue", "boot"} /\ \E r \in rows[t] : Restore(t, r)
  <1> at'[t] \in Matters
    BY DEF Matters, SpareAt
  <1>1. CASE at'[t] = at[t] /\ vid'[t] = vid[t]
    BY <1>1
  <1>2. CASE t = "hook" /\ Hook
    BY <1>2, HookArrives
  <1>3. CASE t \in Workers /\ Worker(t)
    BY <1>3, WorkerArrives
  <1>4. CASE t \in {"requeue", "boot"} /\ RestorerStep(t)
    BY <1>4, RestorerArrives
  <1> QED
    BY <1>1, <1>2, <1>3, <1>4, OnlyItMoves, OthersNeverArrive

-----------------------------------------------------------------------------
(* What a step does to the attempts of a video, and to who holds it.       *)

\* The two ways to count an attempt of v.
Counts(v) == \E w \in Workers : WorkerCount(w) /\ vid[w] = v

Bumps(v) ==
    /\ \E t \in {"requeue", "boot"} : \E r \in rows[t] :
          /\ Restore(t, r) /\ r.v = v /\ r \notin rows'[t]
          /\ at'[t] = "restore?" /\ vid'[t] = v
    /\ attempts[v] < MaxTranscodeAttempts
    /\ status[v] = "transcoding" /\ status'[v] = "transcoding" /\ ~Held(v)
    /\ attempts'[v] = attempts[v] + 1 /\ crashes' = crashes

\* Nobody has the quick video of a row.
LEMMA RowIsAlone ==
    ASSUME Ordered, NEW t \in {"requeue", "boot"}, NEW r \in rows[t], r.v \in Quick
    PROVE  ~Held(r.v)
  BY DEF Ordered, OneHolder, FirmlyHeld, Held, Loose

\* Taking up a row of a scan, and nothing else, may count an attempt of its video.
LEMMA RestoreTakes ==
    ASSUME TypeOK, NEW t \in {"requeue", "boot"}, NEW r \in rows[t], Restore(t, r)
    PROVE  /\ r \in Row /\ r.v \in Videos /\ vid'[t] = r.v
           /\ \A x \in Videos \ {r.v} : attempts'[x] = attempts[x]
  <1> /\ t \in Threads /\ vid \in [Threads -> Videos \cup {NoVideo}]
      /\ rows \in [{"requeue", "boot"} -> SUBSET Row] /\ attempts \in [Videos -> Nat]
    BY DEF Threads, TypeOK
  <1> QED
    BY DEF Restore, Begin, Row

LEMMA RestoreEffect ==
    ASSUME Ordered, RowsAreFresh, NEW t \in {"requeue", "boot"}, NEW r \in rows[t],
           Restore(t, r), r.v \in Quick
    PROVE  /\ UNCHANGED << crashes, status, queue >>
           /\ vid'[t] = r.v /\ ~Held(r.v)
           /\ \/ /\ at'[t] = "enqueue?" /\ UNCHANGED attempts
                 /\ status[r.v] = "upload_complete"
              \/ at'[t] = "restore?" /\ Bumps(r.v)
              \/ at'[t] = "fail?" /\ UNCHANGED attempts
  <1> /\ t \in Threads /\ TypeOK /\ OneHolder /\ StatusFits
      /\ rows \in [{"requeue", "boot"} -> SUBSET Row]
      /\ at \in [Threads -> Points] /\ vid \in [Threads -> Videos \cup {NoVideo}]
      /\ attempts \in [Videos -> Nat]
    BY DEF Threads, Ordered, TypeOK
  <1>1. /\ r \in Row /\ r.v \in Videos /\ status[r.v] = r.s /\ r.a = attempts[r.v]
        /\ ~Held(r.v)
    BY RowIsAlone DEF Row, StatusFits, RowsAreFresh
  <1>2. /\ UNCHANGED << crashes, status, queue >> /\ r \notin rows'[t]
        /\ vid'[t] = r.v
    BY DEF Restore, Begin, process, disk, tus
  <1>3. CASE r.s = "upload_complete" /\ Begin(t, "enqueue?", r.v) /\ UNCHANGED attempts
    BY <1>1, <1>2, <1>3 DEF Begin
  <1>4. CASE /\ r.s = "transcoding" /\ r.a < MaxTranscodeAttempts
             /\ attempts' = [attempts EXCEPT ![r.v] = @ + 1]
             /\ Begin(t, "restore?", r.v)
    <2>1. at'[t] = "restore?" /\ attempts'[r.v] = attempts[r.v] + 1
      BY <1>1, <1>4 DEF Begin
    <2> QED
      BY <1>1, <1>2, <1>4, <2>1 DEF Bumps
  <1>5. CASE Begin(t, "fail?", r.v) /\ UNCHANGED attempts
    BY <1>1, <1>2, <1>5 DEF Begin
  <1> QED
    BY <1>3, <1>4, <1>5 DEF Restore

LEMMA CountingIsNotSpare ==
    Ordered => \A v \in Quick : Counting(v) => ~Spare(v)
  <1> SUFFICES ASSUME Ordered, NEW v \in Quick, Counting(v)
               PROVE  ~Spare(v)
    OBVIOUS
  <1> PICK t \in Threads : vid[t] = v /\ at[t] = "count"
    BY DEF Counting
  <1> OneHolder /\ StatusFits /\ queue \in Seq(Videos)
    BY DEF Ordered, TypeOK
  <1>1. Busy(t) /\ status[v] = "transcoding"
    BY DEF Busy, StatusFits, FitsAt, Loose, StatusesAt
  <1>2. v \notin Range(queue)
    BY <1>1 DEF OneHolder, Range, Loose
  <1>3. \A u \in Threads : vid[u] = v => at[u] \notin SpareAt
    BY <1>1 DEF OneHolder, Busy, SpareAt, Loose
  <1> QED
    BY <1>1, <1>2, <1>3 DEF Spare, Open

LEMMA CountingIsNotSpareNext ==
    Ordered' => \A v \in Quick : Counting(v)' => ~Spare(v)'
  <1>1. (Ordered => \A v \in Quick : Counting(v) => ~Spare(v))'
    BY CountingIsNotSpare, PTL
  <1> QED
    BY <1>1

LEMMA AttemptsStep ==
    ASSUME Ordered, Ordered', RowsAreFresh, [Next]_vars, NEW v \in Quick,
           attempts'[v] # attempts[v]
    PROVE  /\ attempts'[v] = attempts[v] + 1 /\ crashes' = crashes
           /\ \/ Counts(v) /\ Counting(v) /\ ~Counting(v)'
              \/ Bumps(v)
  <1> /\ attempts \in [Videos -> Nat] /\ TypeOK /\ OneHolder
      /\ at \in [Threads -> Points] /\ vid \in [Threads -> Videos \cup {NoVideo}]
    BY DEF Ordered, TypeOK
  <1>1. CASE \E w \in Workers : WorkerCount(w)
    <2> PICK w \in Workers : WorkerCount(w)
      BY <1>1
    <2>1. w \in Threads /\ at[w] = "count"
      BY DEF WorkerCount, Threads
    <2>2. vid[w] = v /\ attempts'[v] = attempts[v] + 1 /\ crashes' = crashes
      BY <2>1 DEF WorkerCount, TypeOK, process
    <2>3. at'[w] # "count" /\ \A t \in Threads \ {w} : at'[t] = at[t] /\ vid'[t] = vid[t]
      BY <2>1 DEF WorkerCount, Goto
    <2>4. ~Counting(v)'
      BY <2>1, <2>2, <2>3 DEF Counting, OneHolder, Busy, Loose
    <2>5. Counting(v)
      BY <2>1, <2>2 DEF Counting
    <2>6. Counts(v)
      BY <2>2 DEF Counts
    <2> QED
      BY <2>2, <2>4, <2>5, <2>6
  <1>2. CASE \E t \in {"requeue", "boot"} : \E r \in rows[t] : Restore(t, r)
    <2> PICK t \in {"requeue", "boot"} : \E r \in rows[t] : Restore(t, r)
      BY <1>2
    <2> PICK r \in rows[t] : Restore(t, r)
      OBVIOUS
    <2>1. r.v = v
      BY RestoreTakes, PipelineAssumption
    <2>2. Bumps(v)
      BY <2>1, RestoreEffect
    <2> QED
      BY <2>2 DEF Bumps
  <1> QED
    BY <1>1, <1>2, AttemptWriters

\* Only a count for putting it back gives a video an attempt to spare again.
LEMMA SpareStep ==
    ASSUME Ordered, Ordered', RowsAreFresh, [Next]_vars, NEW v \in Quick, Spare(v)'
    PROVE  Spare(v) \/ Bumps(v)
  <1> /\ TypeOK /\ OneHolder /\ StatusFits /\ queue \in Seq(Videos)
      /\ status \in [Videos -> Statuses]
    BY DEF Ordered, TypeOK
  <1>1. CASE v \in Range(queue')
    <2>1. CASE queue' = queue
      BY <1>1, <2>1 DEF Spare
    <2>2. CASE \E w \in Workers : WorkerTake(w)
      <3>1. queue # << >> /\ queue' = Tail(queue)
        BY <2>2 DEF WorkerTake
      <3>2. \A i \in DOMAIN queue' : i + 1 \in DOMAIN queue /\ queue'[i] = queue[i + 1]
        BY <3>1
      <3> QED
        BY <1>1, <3>2 DEF Spare, Range
    <2>3. CASE \E t \in Enqueuers : EnqueueSend(t)
      <3> PICK t \in Enqueuers : EnqueueSend(t)
        BY <2>3
      <3>1. t \in Threads /\ at[t] = "send"
        BY DEF EnqueueSend, Enqueuers, Threads
      <3>2. queue' = queue \/ queue' = Append(queue, vid[t])
        BY DEF EnqueueSend
      <3>3. v \in Range(queue) \/ v = vid[t]
        BY <1>1, <3>2 DEF Range
      <3> QED
        BY <3>1, <3>3 DEF Spare, SpareAt
    <2>4. CASE Crash
      BY <1>1, <2>4 DEF Crash, Range
    <2> QED
      BY <2>1, <2>2, <2>3, <2>4, QueueWriters
  <1>2. CASE status'[v] \in Open
    <2>1. status[v] \in Open
      BY <1>2, StatusStep DEF Open, IsValidTransition, ValidTransitions, Statuses
    <2> QED
      BY <2>1 DEF Spare
  <1>3. CASE status'[v] = "upload_complete"
    <2>1. CASE status[v] = "upload_complete"
      BY <2>1 DEF Spare
    <2>2. CASE status[v] # "upload_complete"
      <3> PICK t \in Threads : vid[t] = v /\ at[t] \in {"complete!", "restore!"}
        BY <1>3, <2>2, Completes, PipelineAssumption
      <3>1. CASE at[t] = "complete!"
        BY <3>1 DEF StatusFits, FitsAt, Loose, StatusesAt, Spare, Open
      <3>2. CASE at[t] = "restore!"
        BY <3>2 DEF Spare, SpareAt
      <3> QED
        BY <3>1, <3>2
    <2> QED
      BY <2>1, <2>2
  <1>4. ASSUME NEW t \in Threads, vid'[t] = v, at'[t] \in SpareAt
        PROVE  Spare(v) \/ Bumps(v)
    <2>1. CASE at[t] \in SpareAt \cup {"complete!", "claim!"} /\ vid'[t] = vid[t]
      BY <1>4, <2>1 DEF StatusFits, FitsAt, Loose, StatusesAt, Spare, Open
    <2>2. CASE vid'[t] = Head(queue) /\ queue # << >>
      BY <1>4, <2>2 DEF Spare, Range
    <2>3. CASE t \in {"requeue", "boot"} /\ \E r \in rows[t] : Restore(t, r)
      <3> PICK r \in rows[t] : Restore(t, r)
        BY <2>3
      <3>1. r.v = v
        BY <1>4, <2>3, RestoreTakes
      <3>2. CASE at'[t] = "enqueue?" /\ status[r.v] = "upload_complete"
        BY <3>1, <3>2 DEF Spare
      <3>3. CASE Bumps(r.v)
        BY <3>1, <3>3
      <3>4. CASE at'[t] = "fail?"
        BY <1>4, <3>4 DEF SpareAt
      <3> QED
        BY <2>3, <3>1, <3>2, <3>3, <3>4, RestoreEffect
    <2> QED
      BY <1>4, <2>1, <2>2, <2>3, GoesToSpare
  <1> QED
    BY <1>1, <1>2, <1>3, <1>4 DEF Spare

LEMMA CountingStep ==
    ASSUME Ordered, Ordered', RowsAreFresh, [Next]_vars, NEW v \in Quick, Counting(v)'
    PROVE  /\ Counting(v) \/ Spare(v)
           /\ attempts'[v] = attempts[v]
  <1> TypeOK
    BY DEF Ordered
  <1> PICK t \in Threads : vid'[t] = v /\ at'[t] = "count"
    BY DEF Counting
  <1>1. vid[t] = v /\ at[t] \in {"count", "encode", "publish", "ready?"}
    BY GoesToCount
  <1>2. Counting(v) \/ Spare(v)
    BY <1>1 DEF Counting, Spare, SpareAt
  <1>3. ~Bumps(v)
    BY <1>1 DEF Bumps, Held
  <1> QED
    BY <1>2, <1>3, AttemptsStep

LEMMA UncountingStep ==
    ASSUME Ordered, Ordered', RowsAreFresh, [Next]_vars, NEW v \in Quick,
           Counting(v), ~Counting(v)'
    PROVE  attempts'[v] = attempts[v] + 1 \/ crashes' = crashes + 1
  <1> /\ attempts \in [Videos -> Nat] /\ TypeOK
    BY DEF Ordered, TypeOK
  <1> PICK t \in Threads : vid[t] = v /\ at[t] = "count"
    BY DEF Counting
  <1>1. CASE t \in Workers /\ WorkerCount(t)
    BY <1>1, PipelineAssumption DEF WorkerCount
  <1>2. CASE Crash
    BY <1>2 DEF Crash
  <1> QED
    BY <1>1, <1>2, LeavesCount DEF Counting

\* One worker at most reaches the failure handler of a video with a step.
LEMMA FailingOnce ==
    ASSUME Ordered, Ordered', [Next]_vars, NEW v \in Quick
    PROVE  /\ Cardinality(Failing(v)) \in {0, 1}
           /\ Cardinality(Failing(v)) = 1 => Counting(v)' /\ Spare(v)
  <1> /\ TypeOK /\ OneHolder' /\ Workers \subseteq Threads
    BY DEF Ordered, Threads
  <1>1. \A w \in Failing(v) : /\ w \in Threads /\ at'[w] = "count" /\ vid'[w] = v
                              /\ vid[w] = v /\ at[w] \in {"encode", "publish", "ready?"}
    BY GoesToCount DEF Failing
  <1>2. \A w, x \in Failing(v) : w = x
    BY <1>1 DEF OneHolder, Busy, Loose
  <1>3. Failing(v) = {} \/ \E w \in Workers : Failing(v) = {w}
    BY <1>2 DEF Failing
  <1>4. CASE Failing(v) = {}
    BY <1>4, FS_EmptySet
  <1>5. CASE Failing(v) # {}
    <2>1. Counting(v)' /\ Spare(v)
      BY <1>1, <1>5 DEF Counting, Spare, SpareAt
    <2> QED
      BY <1>3, <1>5, <2>1, FS_Singleton
  <1> QED
    BY <1>4, <1>5

-----------------------------------------------------------------------------
(* A step keeps the invariant.                                             *)

LEMMA FreshStep ==
    ASSUME Ordered, Ordered', RowsAreFresh, [Next]_vars
    PROVE  RowsAreFresh'
  <1> SUFFICES ASSUME NEW t \in {"requeue", "boot"}, NEW r \in rows'[t], r.v \in Quick
               PROVE  r.a = attempts'[r.v]
    BY DEF RowsAreFresh
  <1> /\ rows \in [{"requeue", "boot"} -> SUBSET Row] /\ TypeOK /\ OneHolder /\ Phases
      /\ rows' \in [{"requeue", "boot"} -> SUBSET Row]
    BY DEF Ordered, TypeOK
  <1> r \in Row /\ r.v \in Videos
    BY DEF Row
  <1>1. CASE r \in rows[t]
    <2>1. ~Held(r.v)
      BY <1>1, RowIsAlone
    <2>2. ~Counts(r.v)
      BY <2>1 DEF Counts, Held, Threads
    <2>3. ~Bumps(r.v)
      <3> SUFFICES ASSUME NEW u \in {"requeue", "boot"}, NEW q \in rows[u],
                          q.v = r.v, q \notin rows'[u]
                   PROVE  FALSE
        BY DEF Bumps
      <3>1. u = t
        BY <1>1 DEF Phases
      <3>2. q = r
        BY <1>1, <3>1 DEF OneHolder
      <3> QED
        BY <3>1, <3>2
    <2>4. attempts'[r.v] = attempts[r.v]
      BY <2>2, <2>3, AttemptsStep
    <2> QED
      BY <1>1, <2>4 DEF RowsAreFresh
  <1>2. CASE r \notin rows[t]
    <2>1. CASE \E u \in {"requeue", "boot"} : \E q \in rows[u] : Restore(u, q)
      BY <1>2, <2>1 DEF Restore
    <2>2. CASE \E S \in SUBSET Videos : RequeueScan(S)
      BY <1>2, <2>2 DEF RequeueScan, Snapshot, db
    <2>3. CASE Boot
      BY <1>2, <2>3 DEF Boot, Snapshot, db
    <2>4. CASE Crash
      BY <1>2, <2>4 DEF Crash
    <2> QED
      BY <1>2, <2>1, <2>2, <2>3, <2>4, RowWriters
  <1> QED
    BY <1>1, <1>2

LEMMA TriedStep ==
    ASSUME Ordered, Ordered', History, [Next]_vars, NEW v \in Quick,
           failures'[v] = failures[v] + Cardinality(Failing(v))
    PROVE  Tried(v)' /\ failures'[v] \in Nat
  <1> DEFINE m == MaxTranscodeAttempts
             a == attempts[v]  b == attempts'[v]
             f == failures[v]  g == failures'[v]
             c == crashes      d == crashes'
  <1>1. /\ m \in Nat /\ a \in Nat /\ b \in Nat /\ f \in Nat /\ c \in Nat /\ d \in Nat
        /\ RowsAreFresh /\ Tried(v) /\ TypeOK
    BY PipelineAssumption DEF Ordered, TypeOK, History
  <1>2. /\ g = f \/ g = f + 1
        /\ g = f + 1 => Counting(v)' /\ Spare(v)
    BY <1>1, FailingOnce
  <1>3. d = c \/ d = c + 1
    BY <1>1, CrashesGrow DEF Crash
  <1>4. /\ b = a \/ (b = a + 1 /\ d = c)
        /\ b = a + 1 => (Counting(v) /\ ~Counting(v)') \/ Bumps(v)
    BY <1>1, AttemptsStep
  <1>5. Bumps(v) => b = a + 1 /\ a < m /\ ~Counting(v) /\ ~Counting(v)'
    <2>1. Bumps(v) => ~Counting(v)
      BY DEF Bumps, Held, Counting
    <2> QED
      BY <1>1, <2>1, CountingStep DEF Bumps
  <1>6. Counting(v) => ~Spare(v)
    BY CountingIsNotSpare
  <1>7. b <= m + 1
    BY <1>1, <1>4, <1>5 DEF Tried
  <1>8. ASSUME Spare(v)'
        PROVE  b <= m /\ 2 * g <= b + d
    <2>1. ~Counting(v)' /\ g = f
      BY <1>2, <1>8, CountingIsNotSpareNext
    <2>2. CASE Bumps(v)
      <3>1. 2 * f <= a + c + 1
        BY <1>1, <1>5, <2>2 DEF Tried
      <3> QED
        BY <1>1, <1>3, <1>5, <2>1, <2>2, <3>1
    <2>3. CASE Spare(v) /\ ~Bumps(v)
      <3>1. a <= m /\ 2 * f <= a + c /\ b = a
        BY <1>1, <1>4, <1>6, <2>3 DEF Tried
      <3> QED
        BY <1>1, <1>3, <2>1, <3>1
    <2> QED
      BY <1>1, <1>8, <2>2, <2>3, SpareStep
  <1>9. ASSUME Counting(v)'
        PROVE  b <= m /\ 2 * g <= b + d + 2
    <2>1. b = a
      BY <1>1, <1>9, CountingStep
    <2>2. CASE Counting(v)
      <3>1. a <= m /\ 2 * f <= a + c + 2 /\ g = f
        BY <1>1, <1>2, <1>6, <2>2 DEF Tried
      <3> QED
        BY <1>1, <1>3, <2>1, <3>1
    <2>3. CASE Spare(v)
      <3>1. a <= m /\ 2 * f <= a + c
        BY <1>1, <2>3 DEF Tried
      <3> QED
        BY <1>1, <1>2, <1>3, <2>1, <3>1
    <2> QED
      BY <1>1, <1>9, <2>2, <2>3, CountingStep
  <1>10. ASSUME ~Counting(v)'
         PROVE  2 * g <= b + d + 1
    <2>1. g = f
      BY <1>2, <1>10
    <2>2. CASE Counting(v)
      <3>1. b = a + 1 \/ d = c + 1
        BY <1>1, <1>10, <2>2, UncountingStep
      <3>2. 2 * f <= a + c + 2
        BY <1>1, <2>2 DEF Tried
      <3> QED
        BY <1>1, <1>3, <1>4, <2>1, <3>1, <3>2
    <2>3. CASE ~Counting(v)
      <3>1. 2 * f <= a + c + 1
        BY <1>1, <2>3 DEF Tried
      <3> QED
        BY <1>1, <1>3, <1>4, <2>1, <3>1
    <2> QED
      BY <2>2, <2>3
  <1> QED
    BY <1>1, <1>2, <1>7, <1>8, <1>9, <1>10 DEF Tried

\* Where a status goes.
LEMMA StatusGoes ==
    ASSUME Ordered, [Next]_vars, NEW v \in Quick, status'[v] # status[v]
    PROVE  \/ status[v] = "transcoding" /\ status'[v] = "upload_complete"
           \/ status[v] = "pending_upload" /\ status'[v] \in {"uploading", "failed_upload"}
           \/ status[v] = "uploading" /\ status'[v] \in {"upload_complete", "failed_upload"}
           \/ status[v] = "upload_complete" /\ status'[v] = "transcoding"
           \/ status[v] = "transcoding" /\ status'[v] \in {"ready", "failed_transcode"}
  BY StatusStep DEF Statuses, IsValidTransition, ValidTransitions

LEMMA ChangedStep ==
    ASSUME Ordered, Ordered', History, [Next]_vars, NEW v \in Quick,
           changes'[v] = IF status'[v] = status[v] THEN changes[v] ELSE changes[v] + 1
    PROVE  Changed(v)' /\ changes'[v] \in Nat
  <1> DEFINE a == attempts[v]  b == attempts'[v]
             n == changes[v]   k == changes'[v]
  <1>1. /\ MaxTranscodeAttempts \in Nat /\ a \in Nat /\ b \in Nat /\ n \in Nat
        /\ RowsAreFresh /\ Changed(v) /\ TypeOK /\ StatusFits /\ StatusFits'
    BY PipelineAssumption DEF Ordered, TypeOK, History
  <1>2. b = a \/ b = a + 1
    BY <1>1, AttemptsStep
  <1>3. /\ Paid(v) \in Nat /\ Paid(v)' \in Nat /\ Paid(v) <= Paid(v)'
        /\ Bumps(v) => Paid(v)' = Paid(v) + 1
    BY <1>1, <1>2 DEF Paid, Bumps
  <1>4. /\ Rank(status[v]) \in Nat /\ Rank(status'[v]) \in Nat
        /\ status'[v] # status[v] =>
             \/ Rank(status[v]) + 1 <= Rank(status'[v])
             \/ /\ status[v] = "transcoding" /\ status'[v] = "upload_complete"
    BY StatusGoes DEF Rank
  <1>5. status[v] = "transcoding" /\ status'[v] = "upload_complete" => Restoring(v)
    <2> SUFFICES ASSUME status[v] = "transcoding", status'[v] = "upload_complete"
                 PROVE  Restoring(v)
      OBVIOUS
    <2> PICK t \in Threads : vid[t] = v /\ at[t] \in {"complete!", "restore!"}
      BY <1>1, Completes, PipelineAssumption
    <2>1. at[t] # "complete!"
      BY <1>1 DEF StatusFits, FitsAt, Loose, StatusesAt
    <2> QED
      BY <2>1 DEF Restoring
  <1>6. Restoring(v)' => /\ status'[v] = "transcoding" /\ status[v] = "transcoding"
                         /\ Restoring(v) \/ Bumps(v)
    <2> SUFFICES ASSUME NEW t \in Threads, vid'[t] = v, at'[t] \in {"restore?", "restore!"}
                 PROVE  /\ status'[v] = "transcoding" /\ status[v] = "transcoding"
                        /\ Restoring(v) \/ Bumps(v)
      BY DEF Restoring
    <2>1. status'[v] = "transcoding"
      BY <1>1 DEF StatusFits, FitsAt, Loose, StatusesAt
    <2>2. CASE at[t] \in {"restore?", "restore!"} /\ vid'[t] = vid[t]
      BY <1>1, <2>1, <2>2 DEF StatusFits, FitsAt, Loose, StatusesAt, Restoring
    <2>3. CASE t \in {"requeue", "boot"} /\ \E r \in rows[t] : Restore(t, r)
      <3> PICK r \in rows[t] : Restore(t, r)
        BY <2>3
      <3>1. r.v = v
        BY <1>1, <2>2, <2>3, RestoreTakes
      <3>2. Bumps(v)
        BY <1>1, <2>1, <2>3, <3>1, RestoreEffect
      <3> QED
        BY <2>1, <3>2 DEF Bumps
    <2> QED
      BY <1>1, <2>2, <2>3, GoesToRestore
  <1>7. k \in Nat
    BY <1>1
  <1>8. k <= 2 * Paid(v)' + Rank(status'[v])
    <2>1. CASE status'[v] = status[v]
      BY <1>1, <1>3, <1>4, <2>1 DEF Changed
    <2>2. CASE status'[v] # status[v] /\ Rank(status[v]) + 1 <= Rank(status'[v])
      BY <1>1, <1>3, <1>4, <2>2 DEF Changed
    <2>3. CASE status[v] = "transcoding" /\ status'[v] = "upload_complete"
      <3>1. n + 2 <= 2 * Paid(v) + Rank(status[v])
        BY <1>1, <1>5, <2>3 DEF Changed
      <3>2. Rank(status[v]) = 3 /\ Rank(status'[v]) = 2 /\ k = n + 1
        BY <2>3 DEF Rank
      <3> QED
        BY <1>1, <1>3, <3>1, <3>2
    <2> QED
      BY <1>4, <2>1, <2>2, <2>3
  <1>9. ASSUME Restoring(v)'
        PROVE  k + 2 <= 2 * Paid(v)' + Rank(status'[v])
    <2>1. k = n /\ status'[v] = status[v] /\ (Restoring(v) \/ Bumps(v))
      BY <1>6, <1>9
    <2>2. CASE Restoring(v)
      BY <1>1, <1>3, <1>4, <2>1, <2>2 DEF Changed
    <2>3. CASE Bumps(v)
      BY <1>1, <1>3, <1>4, <2>1, <2>3 DEF Changed
    <2> QED
      BY <2>1, <2>2, <2>3
  <1> QED
    BY <1>7, <1>8, <1>9 DEF Changed

LEMMA HistoryStep ==
    ASSUME Ordered, Ordered', History, HistoryNext
    PROVE  History'
  <1> Next /\ RowsAreFresh
    BY DEF HistoryNext, History
  <1>1. \A v \in Quick :
            /\ failures'[v] = failures[v] + Cardinality(Failing(v))
            /\ changes'[v] =
                   IF status'[v] = status[v] THEN changes[v] ELSE changes[v] + 1
    BY PipelineAssumption DEF HistoryNext
  <1>2. \A v \in Quick : Tried(v)' /\ failures'[v] \in Nat
    BY <1>1, TriedStep
  <1>3. \A v \in Quick : Changed(v)' /\ changes'[v] \in Nat
    BY <1>1, ChangedStep
  <1>4. RowsAreFresh'
    BY FreshStep
  <1> QED
    BY <1>2, <1>3, <1>4 DEF History

LEMMA InitHistory ==
    ASSUME HistoryInit
    PROVE  History
  <1> /\ Init /\ failures = [v \in Videos |-> 0] /\ changes = [v \in Videos |-> 0]
      /\ crashes = 0 /\ attempts = [v \in Videos |-> 0]
      /\ MaxTranscodeAttempts \in Nat
    BY PipelineAssumption DEF HistoryInit, Init
  <1>1. RowsAreFresh
    BY DEF Init, RowsAreFresh
  <1>2. ASSUME NEW v \in Quick
        PROVE  failures[v] \in Nat /\ Tried(v) /\ changes[v] \in Nat /\ Changed(v)
    <2>1. v \in Videos /\ v # NoVideo
      BY PipelineAssumption
    <2>2. ~Restoring(v)
      BY <2>1 DEF Init, Restoring
    <2>3. Rank(status[v]) = 0 /\ Paid(v) = 0
      BY <2>1 DEF Init, Rank, Paid
    <2> QED
      BY <2>1, <2>2, <2>3 DEF Tried, Changed
  <1> QED
    BY <1>1, <1>2 DEF History

LEMMA HistoryIsKept ==
    ASSUME Orderly
    PROVE  HistorySpec => [](Ordered /\ History)
  <1>1. HistoryInit => Ordered /\ History
    BY InitOrdered, InitHistory DEF HistoryInit
  <1>2. Ordered /\ History /\ [HistoryNext]_historyVars => Ordered' /\ History'
    <2> SUFFICES ASSUME Ordered, History, [HistoryNext]_historyVars
                 PROVE  Ordered' /\ History'
      OBVIOUS
    <2>1. [Next]_vars
      BY DEF HistoryNext, historyVars
    <2>2. TypeOK'
      BY <2>1, NextType DEF Ordered
    <2>3. Ordered'
      BY <2>1, <2>2, StepOrdered
    <2>4. CASE HistoryNext
      BY <2>3, <2>4, HistoryStep
    <2>5. CASE UNCHANGED historyVars
      BY <2>3, <2>5 DEF historyVars, vars, History, RowsAreFresh, Tried, Changed, Spare,
                       Counting, Restoring, Paid
    <2> QED
      BY <2>3, <2>4, <2>5
  <1> QED
    BY <1>1, <1>2, PTL DEF HistorySpec

-----------------------------------------------------------------------------

\* With orderly timeouts and clients transcode_attempts passes its limit by one at
\* most, whatever crashes (handleTranscodeFailure, runOnce, RunStartupRecovery).
THEOREM AttemptsAreLimited ==
    ASSUME Orderly
    PROVE  HistorySpec => []AttemptsStayNearLimit
  <1>1. History => AttemptsStayNearLimit
    BY DEF History, Tried, AttemptsStayNearLimit
  <1> QED
    BY <1>1, HistoryIsKept, PTL

\* A video is transcoded about half as often as MAX_TRANSCODE_ATTEMPTS says, because
\* the worker that fails and the job that puts it back both count the attempt
\* (handleTranscodeFailure, runOnce); each crash makes room for half a run more.
THEOREM RunsAreLimited ==
    ASSUME Orderly
    PROVE  HistorySpec => []TriedHalfAsOften
  <1>1. Ordered /\ History => TriedHalfAsOften
    <2> SUFFICES ASSUME Ordered, History, NEW v \in Quick
                 PROVE  2 * failures[v] <= MaxTranscodeAttempts + 2 + crashes
      BY DEF TriedHalfAsOften
    <2>1. /\ MaxTranscodeAttempts \in Nat /\ attempts[v] \in Nat /\ crashes \in Nat
          /\ failures[v] \in Nat /\ Tried(v)
      BY PipelineAssumption DEF Ordered, TypeOK, History
    <2> QED
      BY <2>1 DEF Tried
  <1> QED
    BY <1>1, HistoryIsKept, PTL

\* No video goes round for ever: its status changes at most twice for each attempt
\* and four times more, whatever crashes (requeue.go, recovery.go).
THEOREM ChangesAreLimited ==
    ASSUME Orderly
    PROVE  HistorySpec => []ChangesAreBounded
  <1>1. Ordered /\ History => ChangesAreBounded
    <2> SUFFICES ASSUME Ordered, History, NEW v \in Quick
                 PROVE  changes[v] <= 2 * MaxTranscodeAttempts + 4
      BY DEF ChangesAreBounded
    <2>1. /\ MaxTranscodeAttempts \in Nat /\ attempts[v] \in Nat /\ changes[v] \in Nat
          /\ Changed(v) /\ status[v] \in Statuses
      BY PipelineAssumption DEF Ordered, TypeOK, History
    <2>2. Paid(v) \in Nat /\ Paid(v) <= MaxTranscodeAttempts
      BY <2>1 DEF Paid
    <2>3. Rank(status[v]) \in Nat /\ Rank(status[v]) <= 4
      BY <2>1 DEF Rank, Statuses
    <2> QED
      BY <2>1, <2>2, <2>3 DEF Changed
  <1> QED
    BY <1>1, HistoryIsKept, PTL
=============================================================================
