------------------------ MODULE PipelineOrder_proofs ------------------------
(***************************************************************************)
(* Theorems about Pipeline that need to know who holds a video. The        *)
(* recovery leaves nothing behind, whatever the timeouts and clients do.   *)
(* When they are orderly a video has one holder at a time until it is in   *)
(* the queue, and a quick one ever after: so the queue and its workers     *)
(* implement WorkQueue, and of quick videos the status a thread has        *)
(* validated is still there when it writes, the pipeline implements        *)
(* VideoLifecycle, a final status stays, and what is told agrees with the  *)
(* table.                                                                  *)
(***************************************************************************)
EXTENDS Pipeline_proofs, FiniteSetTheorems

\* The statuses in which a client may still send bytes.
Open == {"pending_upload", "uploading"}

\* At work on a video. A hook that only has to tell of a queued video is not:
\* the video is the queue's, or a worker's, by then.
Busy(t) == at[t] \notin {"idle", "tell_processing"}

\* A worker or the requeue job with a video that is not quick: others of them may
\* have it at the same time, and the queue too.
Loose(t, v) == v \notin Quick /\ t \in Workers \cup {"requeue"}

\* What the status of a thread's video can be at each program point, when no
\* other thread writes it.
StatusesAt(p) ==
    CASE p = "touch!" -> {"pending_upload"}
      [] p \in {"complete?", "reject!", "kill?", "kill!"} -> Open
      [] p = "complete!" -> {"uploading"}
      [] p = "reject?" -> Open \cup {"transcoding"}
      [] p = "discard" -> {"failed_upload", "transcoding"}
      [] p \in {"enqueue?", "enqueue!"} -> {"upload_complete"}
      [] p \in {"describe", "finish"} -> {"ready"}
      [] p = "tell_failed" -> {"failed_upload", "failed_transcode", "transcoding"}
      [] p \in {"claim?", "claim!"} -> {}
      [] p = "tell_processing" -> Statuses \ Open
      [] p = "idle" -> Statuses
      [] OTHER -> {"transcoding"}

\* What status of its video fits a thread: when others may write it too, only that
\* no client can send bytes any more.
FitsAt(t, v, p, s) == IF Loose(t, v) THEN s \notin Open ELSE s \in StatusesAt(p)

\* The points that only one thread can be at.
InPlace(t, p) ==
    /\ p \in {"touch!", "complete?", "complete!", "reject?", "reject!", "tell_processing"}
       => t = "hook"
    /\ p \in {"kill?", "kill!"} => t = "killer"
    /\ p = "encode" => t \in Workers

\* Outside its running phase the process is the recovery, or nothing.
Phases ==
    /\ phase # "running" =>
        /\ \A t \in Threads \ {"boot"} : at[t] = "idle"
        /\ rows["requeue"] = {} /\ idleRows = {}
        /\ progressEv = {} /\ completeEv = {}
    /\ phase # "recovering" => at["boot"] = "idle" /\ rows["boot"] = {}
    /\ phase = "down" => queue = << >>
    /\ \A t \in Threads : at[t] = "idle" => vid[t] = NoVideo

\* Somebody holds v whom no timeout passes over.
FirmlyHeld(v) ==
    \/ v \in Range(queue) /\ v \in Quick
    \/ v \in progressEv \cup completeEv
    \/ \E t \in Threads : vid[t] = v /\ ~Loose(t, v)

\* A video has one holder: a thread at work, a place in the queue, a row of a
\* scan, or the event of its completion. A video that is not quick may have several
\* once it is queued: places there, workers, and the requeue job or its rows.
OneHolder ==
    /\ \A t, u \in Threads : Busy(t) /\ Busy(u) /\ vid[t] = vid[u] =>
        t = u \/ (Loose(t, vid[t]) /\ Loose(u, vid[u]))
    /\ \A i, j \in DOMAIN queue : queue[i] = queue[j] => i = j \/ queue[i] \notin Quick
    /\ \A t \in Threads, i \in DOMAIN queue : Busy(t) /\ vid[t] = queue[i] =>
        Loose(t, vid[t])
    /\ \A v \in idleRows : ~Held(v)
    /\ \A r \in rows["boot"] : ~Held(r.v)
    /\ \A r \in rows["requeue"] : ~FirmlyHeld(r.v) /\ vid["requeue"] # r.v
    /\ \A t \in {"requeue", "boot"} : \A q, r \in rows[t] : q.v = r.v => q = r
    /\ \A v \in completeEv, t \in Threads : vid[t] = v => at[t] = "touch!"
    /\ \A v \in progressEv : vid["killer"] # v

\* The status of a video fits its holders.
StatusFits ==
    /\ \A t \in Threads : at[t] # "idle" =>
        InPlace(t, at[t]) /\ FitsAt(t, vid[t], at[t], status[vid[t]])
    /\ \A i \in DOMAIN queue :
        /\ status[queue[i]] \notin Open
        /\ queue[i] \in Quick => status[queue[i]] = "transcoding"
    /\ \A v \in idleRows \cup completeEv : status[v] \in Open
    /\ \A t \in {"requeue", "boot"} : \A r \in rows[t] :
        /\ status[r.v] \notin Open
        /\ t = "boot" \/ r.v \in Quick => status[r.v] = r.s

\* So does its file, as long as a client may send.
FileFits ==
    /\ \A v \in completeEv : file[v] \notin {"empty", "partial"}
    /\ \A t \in Threads :
        at[t] \in {"complete?", "complete!", "reject?", "reject!"} /\ status[vid[t]] \in Open
        => file[vid[t]] \notin {"empty", "partial"}

\* The inductive invariant when timeouts and clients are orderly.
Ordered == TypeOK /\ Phases /\ OneHolder /\ StatusFits /\ FileFits

\* The failure of v was told without being recorded: its file is gone, and nobody
\* has read it to the end.
Lost(v) ==
    /\ status[v] \in {"upload_complete", "transcoding"} /\ file[v] = "none"
    /\ \A t \in Threads : vid[t] = v => at[t] \notin {"publish", "ready?", "ready!"}

\* What has been told of a quick video fits what is stored.
ToldFits ==
    /\ \A v \in Quick : "ready" \in told[v] => status[v] = "ready"
    /\ \A v \in Quick : "failed" \in told[v] => status[v] \in Failed \/ Lost(v)
    /\ \A t \in Threads : at[t] = "tell_failed" /\ vid[t] \in Quick =>
        status[vid[t]] \in Failed \/ Lost(vid[t])

\* While the recovery is at work no unfinished video is out of its sight.
InSight(v) ==
    \/ v \in Range(queue) \/ Len(queue) = QueueMaxSize
    \/ \E r \in rows["boot"] : r.v = v
    \/ vid["boot"] = v

Recovering ==
    /\ TypeOK /\ Phases
    /\ phase = "recovering" =>
        /\ \A r \in rows["boot"] :
            /\ status[r.v] = r.s /\ vid["boot"] # r.v
            /\ \A q \in rows["boot"] : q.v = r.v => q = r
        /\ at["boot"] # "idle" => status[vid["boot"]] \in StatusesAt(at["boot"])
        /\ at["boot"] \in {"idle", "restore?", "restore!", "enqueue?", "enqueue!", "send",
                           "fail?", "fail!", "tell_failed"}
        /\ at["boot"] = "tell_failed" => status[vid["boot"]] = "failed_transcode"
        /\ \A v \in Videos : status[v] \in {"upload_complete", "transcoding"} => InSight(v)

-----------------------------------------------------------------------------
(* A thread that goes on with its video, and writes nothing of another.    *)

Advances(t) ==
    /\ Busy(t) /\ at'[t] # "tell_processing"
    /\ \A u \in Threads \ {t} : at'[u] = at[u] /\ vid'[u] = vid[u]
    /\ vid'[t] = IF at'[t] = "idle" THEN NoVideo ELSE vid[t]
    /\ \A v \in Videos \ {vid[t]} : status'[v] = status[v] /\ file'[v] = file[v]
    /\ UNCHANGED << phase, queue, rows, idleRows, progressEv, completeEv >>

\* What it writes fits the point it goes to, and what others wait for.
GoesWell(t) ==
    LET v == vid[t] IN
    /\ at'[t] # "idle" => InPlace(t, at'[t]) /\ FitsAt(t, v, at'[t], status'[v])
    /\ status'[v] \in Open => status'[v] = status[v] \/ t = "hook"
    /\ at[t] = "touch!" =>
        at'[t] = "idle" /\ status'[v] \in Open /\ file'[v] = file[v]
    /\ at'[t] \in {"complete?", "complete!", "reject?", "reject!"} /\ status'[v] \in Open
       => file'[v] \notin {"empty", "partial"}

LEMMA AdvanceKeepsOrder ==
    ASSUME Ordered, TypeOK', NEW t \in Threads, Advances(t), GoesWell(t)
    PROVE  Ordered'
  <1> /\ at \in [Threads -> Points] /\ vid \in [Threads -> Videos \cup {NoVideo}]
      /\ at' \in [Threads -> Points] /\ vid' \in [Threads -> Videos \cup {NoVideo}]
      /\ status \in [Videos -> Statuses] /\ file \in [Videos -> Contents]
      /\ status' \in [Videos -> Statuses] /\ file' \in [Videos -> Contents]
      /\ rows \in [{"requeue", "boot"} -> SUBSET Row] /\ queue \in Seq(Videos)
      /\ idleRows \subseteq Videos /\ progressEv \subseteq Videos
      /\ completeEv \subseteq Videos /\ vid[t] \in Videos
    BY DEF Ordered, TypeOK, Advances, Busy
  <1> NoVideo \notin Videos /\ {"hook", "killer", "requeue", "boot"} \subseteq Threads
    BY PipelineAssumption DEF Threads
  <1> \A i \in DOMAIN queue : queue[i] \in Videos
    OBVIOUS
  <1> Phases /\ OneHolder /\ StatusFits /\ FileFits
    BY DEF Ordered
  <1>1. \A v \in Videos : (Held(v)' => Held(v)) /\ (FirmlyHeld(v)' => FirmlyHeld(v))
    BY DEF Held, FirmlyHeld, Advances
  <1>2. \A u \in Threads : Busy(u)' => Busy(u) /\ vid'[u] = vid[u]
    BY DEF Advances, Busy
  <1>3. Held(vid[t])
    BY DEF Held
  <1>4. Phases'
    BY DEF Phases, Advances, Busy
  <1>5. OneHolder'
    <2>1. \A u, x \in Threads : Busy(u)' /\ Busy(x)' /\ vid'[u] = vid'[x] =>
             u = x \/ (Loose(u, vid'[u]) /\ Loose(x, vid'[x]))
      BY <1>2 DEF OneHolder
    <2>2. \A i, j \in DOMAIN queue' : queue'[i] = queue'[j] => i = j \/ queue'[i] \notin Quick
      BY DEF OneHolder, Advances
    <2>3. \A u \in Threads, i \in DOMAIN queue' : Busy(u)' /\ vid'[u] = queue'[i] =>
             Loose(u, vid'[u])
      BY <1>2 DEF OneHolder, Advances
    <2>4. \A v \in idleRows' : ~Held(v)'
      BY <1>1 DEF OneHolder, Advances
    <2>5. \A r \in rows'["boot"] : ~Held(r.v)'
      BY <1>1 DEF OneHolder, Advances, Row
    <2>6. \A r \in rows'["requeue"] : ~FirmlyHeld(r.v)' /\ vid'["requeue"] # r.v
      BY <1>1 DEF OneHolder, Advances, Row
    <2>7. \A u \in {"requeue", "boot"} : \A q, r \in rows'[u] : q.v = r.v => q = r
      BY DEF OneHolder, Advances
    <2>8. \A v \in completeEv', u \in Threads : vid'[u] = v => at'[u] = "touch!"
      BY DEF OneHolder, Advances, GoesWell
    <2>9. \A v \in progressEv' : vid'["killer"] # v
      <3>1. vid'["killer"] \in {vid["killer"], NoVideo} /\ progressEv' = progressEv
        BY DEF Advances
      <3> QED
        BY <3>1 DEF OneHolder
    <2> QED
      BY <2>1, <2>2, <2>3, <2>4, <2>5, <2>6, <2>7, <2>8, <2>9 DEF OneHolder, Loose
  <1>6. StatusFits'
    <2>1. \A u \in Threads : at'[u] # "idle" =>
             InPlace(u, at'[u]) /\ FitsAt(u, vid'[u], at'[u], status'[vid'[u]])
      <3> SUFFICES ASSUME NEW u \in Threads, at'[u] # "idle"
                   PROVE  InPlace(u, at'[u]) /\ FitsAt(u, vid'[u], at'[u], status'[vid'[u]])
        OBVIOUS
      <3>1. CASE u = t
        BY <3>1 DEF GoesWell, Advances
      <3>2. CASE u # t /\ vid[u] # vid[t]
        <4>1. vid[u] \in Videos
          BY <3>2 DEF Advances, Ordered, TypeOK
        <4> QED
          BY <3>2, <4>1 DEF StatusFits, Advances
      <3>3. CASE u # t /\ vid[u] = vid[t] /\ Busy(u)
        <4>1. Loose(t, vid[t]) /\ Loose(u, vid[t])
          BY <3>3 DEF OneHolder, Advances
        <4>2. at[t] # "idle" /\ t # "hook"
          BY <4>1, PipelineAssumption DEF Loose, Advances, Busy
        <4>3. status[vid[t]] \notin Open
          BY <4>1, <4>2 DEF StatusFits, FitsAt
        <4>4. status'[vid[t]] \notin Open
          BY <4>2, <4>3 DEF GoesWell
        <4> QED
          BY <3>3, <4>1, <4>4 DEF StatusFits, Advances, FitsAt
      <3>4. CASE u # t /\ vid[u] = vid[t] /\ ~Busy(u)
        <4>1. at[u] = "tell_processing" /\ u = "hook"
          BY <3>4 DEF Busy, StatusFits, Advances, InPlace
        <4>2. status[vid[t]] \in Statuses \ Open
          BY <3>4, <4>1, PipelineAssumption DEF StatusFits, StatusesAt, FitsAt, Loose
        <4>3. status'[vid[t]] \in Statuses \ Open
          BY <3>4, <4>1, <4>2 DEF GoesWell
        <4> QED
          BY <3>4, <4>1, <4>3, PipelineAssumption
          DEF StatusFits, StatusesAt, Advances, InPlace, FitsAt, Loose
      <3> QED
        BY <3>1, <3>2, <3>3, <3>4
    <2>2. \A i \in DOMAIN queue' :
             /\ status'[queue'[i]] \notin Open
             /\ queue'[i] \in Quick => status'[queue'[i]] = "transcoding"
      <3> SUFFICES ASSUME NEW i \in DOMAIN queue
                   PROVE  /\ status'[queue[i]] \notin Open
                          /\ queue[i] \in Quick => status'[queue[i]] = "transcoding"
        BY DEF Advances
      <3>1. CASE queue[i] # vid[t]
        BY <3>1 DEF StatusFits, Advances
      <3>2. CASE queue[i] = vid[t]
        <4>1. Loose(t, vid[t]) /\ t # "hook"
          BY <3>2, PipelineAssumption DEF OneHolder, Advances, Loose
        <4> QED
          BY <3>2, <4>1 DEF StatusFits, GoesWell, Loose
      <3> QED
        BY <3>1, <3>2
    <2>3. \A v \in idleRows' : status'[v] \in Open
      BY <1>3 DEF StatusFits, Advances, OneHolder
    <2>4. \A v \in completeEv' : status'[v] \in Open
      BY DEF StatusFits, Advances, OneHolder, GoesWell
    <2>5. \A u \in {"requeue", "boot"} : \A r \in rows'[u] :
             /\ status'[r.v] \notin Open
             /\ u = "boot" \/ r.v \in Quick => status'[r.v] = r.s
      <3> SUFFICES ASSUME NEW u \in {"requeue", "boot"}, NEW r \in rows[u]
                   PROVE  /\ status'[r.v] \notin Open
                          /\ u = "boot" \/ r.v \in Quick => status'[r.v] = r.s
        BY DEF Advances
      <3>1. CASE r.v # vid[t]
        BY <3>1 DEF StatusFits, Advances, Row
      <3>2. CASE r.v = vid[t]
        <4>1. u = "requeue" /\ Loose(t, vid[t]) /\ t # "hook"
          BY <1>3, <3>2, PipelineAssumption DEF OneHolder, FirmlyHeld, Loose
        <4> QED
          BY <3>2, <4>1 DEF StatusFits, GoesWell, Loose
      <3> QED
        BY <3>1, <3>2
    <2> QED
      BY <2>1, <2>2, <2>3, <2>4, <2>5 DEF StatusFits, FitsAt, Loose
  <1>7. FileFits'
    <2>1. \A v \in completeEv' : file'[v] \notin {"empty", "partial"}
      BY DEF FileFits, Advances, OneHolder, GoesWell
    <2>2. \A u \in Threads :
             at'[u] \in {"complete?", "complete!", "reject?", "reject!"}
             /\ status'[vid'[u]] \in Open => file'[vid'[u]] \notin {"empty", "partial"}
      <3> SUFFICES ASSUME NEW u \in Threads,
                          at'[u] \in {"complete?", "complete!", "reject?", "reject!"},
                          status'[vid'[u]] \in Open
                   PROVE  file'[vid'[u]] \notin {"empty", "partial"}
        OBVIOUS
      <3>1. CASE u = t
        BY <3>1 DEF GoesWell, Advances
      <3>2. CASE u # t
        <4>1. u = "hook" /\ ~Loose(u, vid[u])
          BY <3>2, PipelineAssumption DEF Advances, StatusFits, InPlace, Loose
        <4>2. vid[u] \in Videos /\ vid[u] # vid[t]
          BY <3>2, <4>1 DEF Advances, Busy, OneHolder, Ordered, TypeOK
        <4> QED
          BY <3>2, <4>2 DEF FileFits, Advances
      <3> QED
        BY <3>1, <3>2
    <2> QED
      BY <2>1, <2>2 DEF FileFits
  <1> QED
    BY <1>4, <1>5, <1>6, <1>7 DEF Ordered

-----------------------------------------------------------------------------
(* The shapes of such steps.                                               *)

LEMMA CheckAdvances ==
    ASSUME TypeOK, NEW t \in Threads, NEW from \in Points \ {"idle", "tell_processing"},
           NEW to, NEW valid \in Points \ {"tell_processing"},
           NEW invalid \in Points \ {"tell_processing"},
           Check(t, from, to, valid, invalid)
    PROVE  /\ Advances(t) /\ at[t] = from /\ status' = status /\ file' = file
           /\ at'[t] = IF IsValidTransition(status[vid[t]], to) THEN valid ELSE invalid
           /\ UNCHANGED told
  BY DEF Check, Goto, Advances, Busy, TypeOK, process, db, disk, scans, tus

LEMMA WriteAdvances ==
    ASSUME TypeOK, NEW t \in Threads, NEW from \in Points \ {"idle", "tell_processing"},
           NEW to \in Statuses, NEW next \in Points \ {"tell_processing"},
           Write(t, from, to, next)
    PROVE  /\ Advances(t) /\ at[t] = from /\ at'[t] = next
           /\ status' = [status EXCEPT ![vid[t]] = to] /\ status'[vid[t]] = to
           /\ file' = file /\ UNCHANGED told
  BY DEF Write, Goto, Advances, Busy, TypeOK, process, disk, scans, tus

LEMMA TellAdvances ==
    ASSUME TypeOK, NEW t \in Threads, NEW from \in Points \ {"idle", "tell_processing"},
           NEW event, Tell(t, from, event)
    PROVE  /\ Advances(t) /\ at[t] = from /\ at'[t] = "idle"
           /\ status' = status /\ file' = file
           /\ told' = [told EXCEPT ![vid[t]] = @ \cup {event}]
  BY DEF Tell, Goto, Advances, Busy, TypeOK, process, db, disk, scans, tus

\* Steps of a worker that write no status: where they go, and the file.
LEMMA WorkAdvances ==
    ASSUME TypeOK, NEW w \in Workers,
           \/ WorkerLoad(w) \/ WorkerEncode(w) \/ WorkerPublish(w) \/ WorkerStumble(w)
           \/ WorkerDescribe(w) \/ WorkerFinish(w) \/ WorkerCount(w)
    PROVE  /\ Advances(w) /\ status' = status
           /\ << at[w], at'[w] >> \in
                {<<"load", "encode">>, <<"load", "claim?">>, <<"encode", "publish">>,
                 <<"publish", "ready?">>, <<"encode", "count">>, <<"publish", "count">>,
                 <<"describe", "finish">>, <<"finish", "idle">>, <<"count", "fail?">>,
                 <<"count", "idle">>}
           /\ at'[w] = "claim?" => status[vid[w]] # "transcoding"
           /\ at[w] # "finish" => file' = file /\ told' = told
           /\ at'[w] = "publish" => file[vid[w]] # "none"
  <1> w \in Threads
    BY DEF Threads
  <1>1. CASE WorkerLoad(w)
    BY <1>1 DEF WorkerLoad, Advances, Busy, TypeOK, process, db, disk, scans, tus
  <1>2. CASE WorkerEncode(w) \/ WorkerPublish(w) \/ WorkerStumble(w)
    BY <1>2 DEF WorkerEncode, WorkerPublish, WorkerStumble, Goto, Advances, Busy, TypeOK,
                process, db, disk, scans, tus
  <1>3. CASE WorkerDescribe(w) \/ WorkerFinish(w)
    BY <1>3 DEF WorkerDescribe, WorkerFinish, Goto, Advances, Busy, TypeOK, process, db,
                disk, scans, tus
  <1>4. CASE WorkerCount(w)
    BY <1>4 DEF WorkerCount, Goto, Advances, Busy, TypeOK, process, disk, scans, tus
  <1> QED
    BY <1>1, <1>2, <1>3, <1>4

LEMMA DiscardAdvances ==
    ASSUME TypeOK, HookDiscard
    PROVE  /\ Advances("hook") /\ at["hook"] = "discard" /\ at'["hook"] = "tell_failed"
           /\ status' = status /\ file'[vid["hook"]] = "none" /\ told' = told
  BY DEF HookDiscard, Goto, Advances, Busy, TypeOK, Threads, process, db, scans, tus

-----------------------------------------------------------------------------
(* Steps that keep the order, one lemma per thread.                        *)

\* All but the hook have only to leave a fitting status, if they are not loose.
LEMMA OthersGoWell ==
    ASSUME Ordered, TypeOK', NEW t \in Threads \ {"hook"}, Advances(t),
           at'[t] # "idle" => InPlace(t, at'[t]),
           status'[vid[t]] = status[vid[t]] \/ status'[vid[t]] \notin Open,
           ~Loose(t, vid[t]) /\ at'[t] # "idle" => status'[vid[t]] \in StatusesAt(at'[t])
    PROVE  Ordered'
  <1>1. at[t] # "idle" /\ InPlace(t, at[t]) /\ FitsAt(t, vid[t], at[t], status[vid[t]])
    BY DEF Ordered, StatusFits, Advances, Busy
  <1>2. at[t] # "touch!"
        /\ at'[t] \notin {"complete?", "complete!", "reject?", "reject!"}
    BY <1>1 DEF InPlace
  <1>3. Loose(t, vid[t]) => status'[vid[t]] \notin Open
    BY <1>1 DEF FitsAt
  <1>4. GoesWell(t)
    BY <1>2, <1>3 DEF GoesWell, FitsAt
  <1> QED
    BY <1>4, AdvanceKeepsOrder

LEMMA HookOrdered ==
    ASSUME Ordered, TypeOK',
           \/ HookTouch \/ HookSetCompleteCheck \/ HookSetComplete
           \/ HookRejectCheck \/ HookReject \/ HookDiscard
    PROVE  Ordered'
  <1> "hook" \in Threads
    BY DEF Threads
  <1> TypeOK
    BY DEF Ordered
  <1> USE DEF Points, Statuses
  <1> \A v \in Videos : ~Loose("hook", v)
    BY PipelineAssumption DEF Loose
  <1>1. /\ at["hook"] # "idle" => status[vid["hook"]] \in StatusesAt(at["hook"])
        /\ at["hook"] \in {"complete?", "complete!", "reject?", "reject!"}
           /\ status[vid["hook"]] \in Open => file[vid["hook"]] \notin {"empty", "partial"}
        /\ at["hook"] # "idle" => vid["hook"] \in Videos
    BY DEF Ordered, StatusFits, FileFits, TypeOK, FitsAt
  <1>2. CASE HookTouch
    <2>1. /\ Advances("hook") /\ at["hook"] = "touch!" /\ at'["hook"] = "idle"
          /\ status'[vid["hook"]] = "uploading" /\ file' = file
      BY <1>2, WriteAdvances DEF HookTouch
    <2>2. GoesWell("hook")
      BY <2>1, <1>1 DEF GoesWell, FitsAt, Open
    <2> QED
      BY <2>1, <2>2, AdvanceKeepsOrder
  <1>3. CASE HookSetCompleteCheck
    <2>1. /\ Advances("hook") /\ at["hook"] = "complete?"
          /\ status' = status /\ file' = file
          /\ at'["hook"] = IF IsValidTransition(status[vid["hook"]], "upload_complete")
                           THEN "complete!" ELSE "reject?"
      BY <1>3, CheckAdvances DEF HookSetCompleteCheck
    <2>2. GoesWell("hook")
      BY <2>1, <1>1
      DEF GoesWell, FitsAt, Open, StatusesAt, InPlace, IsValidTransition, ValidTransitions
    <2> QED
      BY <2>1, <2>2, AdvanceKeepsOrder
  <1>4. CASE HookSetComplete
    <2>1. /\ Advances("hook") /\ at["hook"] = "complete!" /\ at'["hook"] = "enqueue?"
          /\ status'[vid["hook"]] = "upload_complete" /\ file' = file
      BY <1>4, WriteAdvances DEF HookSetComplete
    <2>2. GoesWell("hook")
      BY <2>1, <1>1 DEF GoesWell, FitsAt, Open, StatusesAt, InPlace
    <2> QED
      BY <2>1, <2>2, AdvanceKeepsOrder
  <1>5. CASE HookRejectCheck
    <2>1. /\ Advances("hook") /\ at["hook"] = "reject?"
          /\ status' = status /\ file' = file
          /\ at'["hook"] = IF IsValidTransition(status[vid["hook"]], "failed_upload")
                           THEN "reject!" ELSE "discard"
      BY <1>5, CheckAdvances DEF HookRejectCheck
    <2>2. GoesWell("hook")
      BY <2>1, <1>1
      DEF GoesWell, FitsAt, Open, StatusesAt, InPlace, IsValidTransition, ValidTransitions
    <2> QED
      BY <2>1, <2>2, AdvanceKeepsOrder
  <1>6. CASE HookReject
    <2>1. /\ Advances("hook") /\ at["hook"] = "reject!" /\ at'["hook"] = "discard"
          /\ status'[vid["hook"]] = "failed_upload" /\ file' = file
      BY <1>6, WriteAdvances DEF HookReject
    <2>2. GoesWell("hook")
      BY <2>1, <1>1 DEF GoesWell, FitsAt, Open, StatusesAt, InPlace
    <2> QED
      BY <2>1, <2>2, AdvanceKeepsOrder
  <1>7. CASE HookDiscard
    <2>1. GoesWell("hook")
      BY <1>7, <1>1, DiscardAdvances DEF GoesWell, FitsAt, Open, StatusesAt, InPlace
    <2> QED
      BY <1>7, <2>1, DiscardAdvances, AdvanceKeepsOrder
  <1> QED
    BY <1>2, <1>3, <1>4, <1>5, <1>6, <1>7

LEMMA EnqueueOrdered ==
    ASSUME Ordered, TypeOK', NEW t \in Enqueuers, EnqueueCheck(t) \/ EnqueueWrite(t)
    PROVE  Ordered'
  <1> t \in Threads
    BY DEF Threads, Enqueuers
  <1> TypeOK
    BY DEF Ordered
  <1> USE DEF Points, Statuses
  <1>1. at[t] # "idle" /\ ~Loose(t, vid[t]) => status[vid[t]] \in StatusesAt(at[t])
    BY DEF Ordered, StatusFits, FitsAt
  <1>2. AfterRefusal(t) \in Points \ {"tell_processing"}
    BY DEF AfterRefusal
  <1>3. CASE EnqueueCheck(t)
    <2>1. /\ Advances(t) /\ at[t] = "enqueue?" /\ status' = status /\ file' = file
          /\ at'[t] = IF IsValidTransition(status[vid[t]], "transcoding")
                      THEN "enqueue!" ELSE AfterRefusal(t)
      BY <1>2, <1>3, CheckAdvances DEF EnqueueCheck
    <2>2. ~Loose(t, vid[t]) => status[vid[t]] = "upload_complete" /\ at'[t] = "enqueue!"
      BY <2>1, <1>1 DEF StatusesAt, IsValidTransition, ValidTransitions
    <2>3. CASE t = "hook"
      <3>1. ~Loose(t, vid[t])
        BY <2>3, PipelineAssumption DEF Loose
      <3>2. GoesWell(t)
        BY <2>1, <2>2, <3>1 DEF GoesWell, FitsAt, StatusesAt, InPlace
      <3> QED
        BY <2>1, <3>2, AdvanceKeepsOrder
    <2>4. CASE t # "hook"
      <3>1. at'[t] # "idle" => InPlace(t, at'[t])
        BY <2>1, <2>4 DEF InPlace, AfterRefusal, Enqueuers
      <3>2. ~Loose(t, vid[t]) => status'[vid[t]] \in StatusesAt(at'[t])
        BY <2>1, <2>2 DEF StatusesAt
      <3> QED
        BY <2>1, <2>4, <3>1, <3>2, OthersGoWell
    <2> QED
      BY <2>3, <2>4
  <1>4. CASE EnqueueWrite(t)
    <2>1. /\ Advances(t) /\ at[t] = "enqueue!" /\ at'[t] = "send"
          /\ status'[vid[t]] = "transcoding" /\ file' = file
      BY <1>4, WriteAdvances DEF EnqueueWrite
    <2>2. GoesWell(t)
      BY <2>1 DEF GoesWell, FitsAt, Open, StatusesAt, InPlace
    <2> QED
      BY <2>1, <2>2, AdvanceKeepsOrder
  <1> QED
    BY <1>3, <1>4

LEMMA FailOrdered ==
    ASSUME Ordered, TypeOK', NEW t \in Threads, Fail(t)
    PROVE  Ordered'
  <1> TypeOK
    BY DEF Ordered
  <1> USE DEF Points, Statuses
  <1>1. /\ at[t] # "idle" => FitsAt(t, vid[t], at[t], status[vid[t]])
        /\ Loose(t, vid[t]) => t # "hook"
    BY PipelineAssumption DEF Ordered, StatusFits, Loose
  <1>2. CASE FailCheck(t)
    <2>1. /\ Advances(t) /\ at[t] = "fail?" /\ status' = status /\ file' = file
          /\ at'[t] = IF IsValidTransition(status[vid[t]], "failed_transcode")
                      THEN "fail!" ELSE IF t \in Workers THEN "tell_failed" ELSE "idle"
      BY <1>2, CheckAdvances DEF FailCheck
    <2>2. IF Loose(t, vid[t]) THEN status[vid[t]] \notin Open
          ELSE status[vid[t]] = "transcoding" /\ at'[t] = "fail!"
      BY <2>1, <1>1 DEF FitsAt, StatusesAt, IsValidTransition, ValidTransitions
    <2>3. GoesWell(t)
      BY <2>1, <2>2 DEF GoesWell, FitsAt, StatusesAt, InPlace
    <2> QED
      BY <2>1, <2>3, AdvanceKeepsOrder
  <1>3. CASE FailWrite(t)
    <2>1. /\ Advances(t) /\ at[t] = "fail!" /\ at'[t] = "tell_failed"
          /\ status'[vid[t]] = "failed_transcode" /\ file' = file
      BY <1>3, WriteAdvances DEF FailWrite
    <2>2. GoesWell(t)
      BY <2>1 DEF GoesWell, FitsAt, Open, StatusesAt, InPlace
    <2> QED
      BY <2>1, <2>2, AdvanceKeepsOrder
  <1>4. CASE TellFailed(t)
    <2>1. /\ Advances(t) /\ at[t] = "tell_failed" /\ at'[t] = "idle"
          /\ status' = status /\ file' = file
      BY <1>4, TellAdvances DEF TellFailed
    <2>2. GoesWell(t)
      BY <2>1 DEF GoesWell
    <2> QED
      BY <2>1, <2>2, AdvanceKeepsOrder
  <1> QED
    BY <1>2, <1>3, <1>4 DEF Fail

LEMMA RestorerOrdered ==
    ASSUME Ordered, TypeOK',
           \/ \E t \in {"requeue", "boot"} : RestoreCheck(t) \/ RestoreWrite(t)
           \/ RollbackCheck \/ RollbackWrite
    PROVE  Ordered'
  <1> {"requeue", "boot"} \subseteq Threads \ {"hook"}
    BY DEF Threads
  <1> TypeOK
    BY DEF Ordered
  <1> USE DEF Points, Statuses
  <1>1. \A t \in Threads : at[t] # "idle" /\ ~Loose(t, vid[t]) =>
           status[vid[t]] \in StatusesAt(at[t])
    BY DEF Ordered, StatusFits, FitsAt
  <1>2. ASSUME NEW t \in {"requeue", "boot"}, RestoreCheck(t)
        PROVE  Ordered'
    <2>1. /\ Advances(t) /\ at[t] = "restore?" /\ status' = status /\ file' = file
          /\ at'[t] = IF IsValidTransition(status[vid[t]], "upload_complete")
                      THEN "restore!" ELSE "idle"
      BY <1>2, CheckAdvances DEF RestoreCheck
    <2>2. ~Loose(t, vid[t]) => status[vid[t]] = "transcoding"
      BY <2>1, <1>1 DEF StatusesAt
    <2>3. ~Loose(t, vid[t]) /\ at'[t] # "idle" => status'[vid[t]] \in StatusesAt(at'[t])
      BY <2>1, <2>2 DEF StatusesAt
    <2> QED
      BY <2>1, <2>3, OthersGoWell DEF InPlace
  <1>3. ASSUME NEW t \in {"requeue", "boot"}, RestoreWrite(t)
        PROVE  Ordered'
    <2>1. /\ Advances(t) /\ at[t] = "restore!" /\ at'[t] = "enqueue?"
          /\ status'[vid[t]] = "upload_complete" /\ file' = file
      BY <1>3, WriteAdvances DEF RestoreWrite
    <2> QED
      BY <2>1, OthersGoWell DEF Open, StatusesAt, InPlace
  <1>4. CASE RollbackCheck
    <2>1. /\ Advances("requeue") /\ at["requeue"] = "rollback?"
          /\ status' = status /\ file' = file
          /\ at'["requeue"] \in {"rollback!", "idle"}
      BY <1>4, CheckAdvances DEF RollbackCheck
    <2>2. ~Loose("requeue", vid["requeue"]) => status[vid["requeue"]] = "transcoding"
      BY <2>1, <1>1 DEF StatusesAt
    <2> QED
      BY <2>1, <2>2, OthersGoWell DEF StatusesAt, InPlace
  <1>5. CASE RollbackWrite
    <2>1. /\ Advances("requeue") /\ at["requeue"] = "rollback!" /\ at'["requeue"] = "idle"
          /\ status'[vid["requeue"]] = "transcoding" /\ file' = file
      BY <1>5, WriteAdvances DEF RollbackWrite
    <2> QED
      BY <2>1, OthersGoWell DEF Open
  <1> QED
    BY <1>2, <1>3, <1>4, <1>5

LEMMA KillerOrdered ==
    ASSUME Ordered, TypeOK', KillerCheck \/ KillerFail
    PROVE  Ordered'
  <1> "killer" \in Threads \ {"hook"}
    BY DEF Threads
  <1> TypeOK
    BY DEF Ordered
  <1> USE DEF Points, Statuses
  <1>1. at["killer"] # "idle" => status[vid["killer"]] \in StatusesAt(at["killer"])
    BY PipelineAssumption DEF Ordered, StatusFits, FitsAt, Loose
  <1>2. CASE KillerCheck
    <2>1. /\ Advances("killer") /\ at["killer"] = "kill?"
          /\ status' = status /\ file' = file
          /\ at'["killer"] \in {"kill!", "idle"}
      BY <1>2, CheckAdvances DEF KillerCheck
    <2>2. at'["killer"] # "idle" => status'[vid["killer"]] \in StatusesAt(at'["killer"])
      BY <2>1, <1>1 DEF StatusesAt
    <2> QED
      BY <2>1, <2>2, OthersGoWell DEF InPlace
  <1>3. CASE KillerFail
    <2>1. /\ Advances("killer") /\ at["killer"] = "kill!" /\ at'["killer"] = "tell_failed"
          /\ status'[vid["killer"]] = "failed_upload" /\ file' = file
      BY <1>3, WriteAdvances DEF KillerFail
    <2> QED
      BY <2>1, OthersGoWell DEF Open, StatusesAt, InPlace
  <1> QED
    BY <1>2, <1>3

LEMMA WorkerOrdered ==
    ASSUME Ordered, TypeOK', NEW w \in Workers,
           \/ WorkerLoad(w) \/ WorkerEncode(w) \/ WorkerPublish(w) \/ WorkerStumble(w)
           \/ WorkerDescribe(w) \/ WorkerFinish(w) \/ WorkerCount(w)
           \/ WorkerClaimCheck(w) \/ WorkerClaim(w)
           \/ WorkerReadyCheck(w) \/ WorkerReady(w)
    PROVE  Ordered'
  <1> w \in Threads \ {"hook"}
    BY PipelineAssumption DEF Threads
  <1> TypeOK
    BY DEF Ordered
  <1> USE DEF Points, Statuses
  <1>1. at[w] # "idle" /\ ~Loose(w, vid[w]) => status[vid[w]] \in StatusesAt(at[w])
    BY DEF Ordered, StatusFits, FitsAt
  <1>2. CASE \/ WorkerLoad(w) \/ WorkerEncode(w) \/ WorkerPublish(w) \/ WorkerStumble(w)
             \/ WorkerDescribe(w) \/ WorkerFinish(w) \/ WorkerCount(w)
    <2>1. /\ Advances(w) /\ status' = status
          /\ << at[w], at'[w] >> \in
                {<<"load", "encode">>, <<"load", "claim?">>, <<"encode", "publish">>,
                 <<"publish", "ready?">>, <<"encode", "count">>, <<"publish", "count">>,
                 <<"describe", "finish">>, <<"finish", "idle">>, <<"count", "fail?">>,
                 <<"count", "idle">>}
          /\ at'[w] = "claim?" => status[vid[w]] # "transcoding"
      BY <1>2, WorkAdvances
    <2>2. ~Loose(w, vid[w]) /\ at'[w] # "idle" => status'[vid[w]] \in StatusesAt(at'[w])
      BY <2>1, <1>1 DEF StatusesAt
    <2>3. at'[w] # "idle" => InPlace(w, at'[w])
      BY <2>1 DEF InPlace
    <2> QED
      BY <2>1, <2>2, <2>3, OthersGoWell
  <1>3. CASE WorkerClaimCheck(w)
    <2>1. /\ Advances(w) /\ at[w] = "claim?" /\ status' = status
          /\ at'[w] \in {"claim!", "idle"}
      BY <1>3, CheckAdvances DEF WorkerClaimCheck
    <2>2. Loose(w, vid[w])
      BY <2>1, <1>1 DEF StatusesAt
    <2> QED
      BY <2>1, <2>2, OthersGoWell DEF InPlace
  <1>4. CASE WorkerClaim(w)
    <2>1. /\ Advances(w) /\ at'[w] = "encode" /\ status'[vid[w]] = "transcoding"
      BY <1>4, WriteAdvances DEF WorkerClaim
    <2> QED
      BY <2>1, OthersGoWell DEF StatusesAt, InPlace, Open
  <1>5. CASE WorkerReadyCheck(w)
    <2>1. /\ Advances(w) /\ at[w] = "ready?" /\ status' = status
          /\ at'[w] \in {"ready!", "count"}
      BY <1>5, CheckAdvances DEF WorkerReadyCheck
    <2>2. ~Loose(w, vid[w]) => status'[vid[w]] \in StatusesAt(at'[w])
      BY <2>1, <1>1 DEF StatusesAt
    <2> QED
      BY <2>1, <2>2, OthersGoWell DEF InPlace
  <1>6. CASE WorkerReady(w)
    <2>1. /\ Advances(w) /\ at'[w] = "describe" /\ status'[vid[w]] = "ready"
      BY <1>6, WriteAdvances DEF WorkerReady
    <2> QED
      BY <2>1, OthersGoWell DEF Open, StatusesAt, InPlace
  <1> QED
    BY <1>2, <1>3, <1>4, <1>5, <1>6

-----------------------------------------------------------------------------
(* Steps that take up a video or give it to another.                       *)

LEMMA ClientOrdered ==
    ASSUME Orderly, Ordered, TypeOK', NEW v \in Videos,
           TusCreate(v) \/ TusChunk(v) \/ TusFinish(v)
    PROVE  Ordered'
  <1> /\ UNCHANGED << phase, status, queue, rows, idleRows, at, vid >>
      /\ phase = "running" /\ ClientPresent(v)
      /\ \A x \in Videos \ {v} : file'[x] = file[x]
      /\ file \in [Videos -> Contents] /\ file' \in [Videos -> Contents]
      /\ progressEv' \subseteq progressEv \cup {v}
    BY DEF TusCreate, TusChunk, TusFinish, process, db, scans, Ordered, TypeOK
  <1> /\ status[v] \in Open /\ v \notin idleRows /\ vid["killer"] # v
      /\ {"hook", "killer", "requeue", "boot"} \subseteq Threads
    BY DEF ClientPresent, Open, Threads
  <1> /\ vid \in [Threads -> Videos \cup {NoVideo}] /\ at \in [Threads -> Points]
      /\ \A t \in Threads : at[t] # "idle" => vid[t] \in Videos
      /\ queue \in Seq(Videos) /\ rows \in [{"requeue", "boot"} -> SUBSET Row]
      /\ idleRows \subseteq Videos /\ completeEv \subseteq Videos /\ NoVideo \notin Videos
      /\ status \in [Videos -> Statuses]
    BY PipelineAssumption DEF Ordered, TypeOK
  <1> Phases /\ OneHolder /\ StatusFits /\ FileFits
    BY DEF Ordered
  <1>1. Phases'
    <2>1. \A t \in Threads : at'[t] = at[t] /\ vid'[t] = vid[t]
      OBVIOUS
    <2> QED
      BY <2>1 DEF Phases
  <1>2. \/ completeEv' = completeEv
        \/ /\ completeEv' = completeEv \cup {v}
           /\ file[v] \in {"empty", "partial"}
           /\ file'[v] \notin {"empty", "partial"}
    BY DEF TusCreate, TusChunk, TusFinish, Ordered, TypeOK
  <1>3. \/ file'[v] \notin {"empty", "partial"}
        \/ file[v] \in {"empty", "partial"}
        \/ ~Held(v)
    BY DEF TusCreate, TusChunk, TusFinish
  <1>4. \A t \in Threads : vid[t] = v =>
           at[t] \in {"touch!", "complete?", "complete!", "reject?", "reject!"} /\ t = "hook"
    <2> SUFFICES ASSUME NEW t \in Threads, vid[t] = v
                 PROVE  /\ at[t] \in {"touch!", "complete?", "complete!", "reject?", "reject!"}
                        /\ t = "hook"
      OBVIOUS
    <2>1. at[t] # "idle" /\ InPlace(t, at[t]) /\ status[v] \in StatusesAt(at[t])
      BY DEF Phases, StatusFits, FitsAt
    <2>2. at[t] \notin {"kill?", "kill!"}
      BY <2>1 DEF InPlace
    <2>3. at[t] \in {"touch!", "complete?", "complete!", "reject?", "reject!"}
      BY <2>1, <2>2 DEF StatusesAt, Open, Points
    <2> QED
      BY <2>1, <2>3 DEF InPlace
  <1>5. \A x \in Videos : /\ Held(x)' => Held(x) \/ x = v
                          /\ FirmlyHeld(x)' => FirmlyHeld(x) \/ x = v
    BY <1>2 DEF Held, FirmlyHeld
  <1>6. \A t \in {"requeue", "boot"} : \A r \in rows[t] : r.v # v /\ r.v \in Videos
    BY DEF StatusFits, Row
  <1>7. OneHolder'
    <2>1. \A x \in idleRows' : ~Held(x)'
      BY <1>5 DEF OneHolder
    <2>2. \A r \in rows'["boot"] : ~Held(r.v)'
      BY <1>5, <1>6 DEF OneHolder
    <2>3. \A r \in rows'["requeue"] : ~FirmlyHeld(r.v)' /\ vid'["requeue"] # r.v
      BY <1>5, <1>6 DEF OneHolder
    <2>4. \A x \in completeEv', t \in Threads : vid'[t] = x => at'[t] = "touch!"
      BY <1>2, <1>4 DEF OneHolder, FileFits
    <2>5. \A x \in progressEv' : vid'["killer"] # x
      BY DEF OneHolder
    <2> QED
      BY <2>1, <2>2, <2>3, <2>4, <2>5 DEF OneHolder, Busy, Loose
  <1>8. StatusFits'
    BY <1>2 DEF StatusFits, FitsAt, Loose
  <1>9. FileFits'
    <2>1. \A x \in completeEv' : file'[x] \notin {"empty", "partial"}
      <3>1. v \in completeEv => Held(v) /\ file[v] \notin {"empty", "partial"}
        BY DEF Held, FileFits
      <3> QED
        BY <1>2, <1>3, <3>1 DEF FileFits
    <2>2. \A t \in Threads :
             at[t] \in {"complete?", "complete!", "reject?", "reject!"}
             /\ status[vid[t]] \in Open => file'[vid[t]] \notin {"empty", "partial"}
      BY <1>3 DEF FileFits, Held
    <2> QED
      BY <2>1, <2>2 DEF FileFits
  <1> QED
    BY <1>1, <1>7, <1>8, <1>9 DEF Ordered

\* An idle thread that takes video v up at point p: from an event, the queue or
\* the rows of a scan.
TakesUp(t, v, p) ==
    /\ at[t] = "idle" /\ p \notin {"idle", "tell_processing"}
    /\ at' = [at EXCEPT ![t] = p] /\ vid' = [vid EXCEPT ![t] = v]
    /\ UNCHANGED << phase, status >>
    /\ phase = IF t = "boot" THEN "recovering" ELSE "running"
    /\ \A x \in Videos \ {v} : file'[x] = file[x]
    /\ Range(queue') \subseteq Range(queue)
    /\ \A i, j \in DOMAIN queue' : queue'[i] = queue'[j] => i = j \/ queue'[i] \notin Quick
    /\ \A u \in {"requeue", "boot"} : rows'[u] \subseteq rows[u]
    /\ idleRows' \subseteq idleRows
    /\ progressEv' \subseteq progressEv /\ completeEv' \subseteq completeEv

\* Nobody else holds the video, or all who do may share it, and it fits the point.
TakesFitly(t, v, p) ==
    /\ \A u \in Threads : Busy(u) /\ vid[u] = v => Loose(u, v) /\ Loose(t, v)
    /\ v \in Range(queue') => Loose(t, v)
    /\ v \notin idleRows'
    /\ \A r \in rows'["boot"] : r.v # v
    /\ \A r \in rows'["requeue"] : r.v = v => Loose(t, v) /\ t # "requeue"
    /\ v \in completeEv' =>
        file'[v] = file[v] /\ p = "touch!" /\ \A u \in Threads : vid[u] # v
    /\ v \in progressEv' => t # "killer"
    /\ InPlace(t, p) /\ FitsAt(t, v, p, status[v])
    /\ p \in {"complete?", "complete!", "reject?", "reject!"} =>
        file'[v] \notin {"empty", "partial"}

LEMMA TakingUpKeepsOrder ==
    ASSUME Ordered, TypeOK', NEW t \in Threads, NEW v \in Videos, NEW p \in Points,
           TakesUp(t, v, p), TakesFitly(t, v, p)
    PROVE  Ordered'
  <1> /\ at \in [Threads -> Points] /\ vid \in [Threads -> Videos \cup {NoVideo}]
      /\ \A u \in Threads : at[u] # "idle" => vid[u] \in Videos
      /\ rows \in [{"requeue", "boot"} -> SUBSET Row] /\ queue \in Seq(Videos)
      /\ rows' \in [{"requeue", "boot"} -> SUBSET Row] /\ queue' \in Seq(Videos)
      /\ idleRows \subseteq Videos /\ completeEv \subseteq Videos
      /\ progressEv \subseteq Videos
    BY DEF Ordered, TypeOK
  <1> {"hook", "killer", "requeue", "boot"} \subseteq Threads
    BY DEF Threads
  <1> Phases /\ OneHolder /\ StatusFits /\ FileFits
    BY DEF Ordered
  <1> USE DEF TakesUp, TakesFitly
  <1>1. \A x \in Videos : /\ Held(x)' => Held(x) \/ x = v
                          /\ FirmlyHeld(x)' => FirmlyHeld(x) \/ (x = v /\ ~Loose(t, v))
    BY DEF Held, FirmlyHeld, Loose
  <1>2. \A u \in Threads \ {t} : at'[u] = at[u] /\ vid'[u] = vid[u]
    OBVIOUS
  <1>3. at'[t] = p /\ vid'[t] = v
    OBVIOUS
  <1>4. \A j \in DOMAIN queue' : \E i \in DOMAIN queue : queue'[j] = queue[i]
    <2>1. \A j \in DOMAIN queue' : queue'[j] \in Range(queue)
      BY DEF Range
    <2> QED
      BY <2>1 DEF Range
  <1>5. Phases'
    <2>1. /\ phase' = phase /\ phase = IF t = "boot" THEN "recovering" ELSE "running"
          /\ p # "idle"
          /\ \A u \in {"requeue", "boot"} : rows[u] = {} => rows'[u] = {}
          /\ idleRows = {} => idleRows' = {}
          /\ progressEv = {} => progressEv' = {}
          /\ completeEv = {} => completeEv' = {}
      OBVIOUS
    <2>2. phase' # "running" =>
              /\ \A u \in Threads \ {"boot"} : at'[u] = "idle"
              /\ rows'["requeue"] = {} /\ idleRows' = {}
              /\ progressEv' = {} /\ completeEv' = {}
      BY <1>2, <2>1 DEF Phases
    <2>3. phase' # "recovering" => at'["boot"] = "idle" /\ rows'["boot"] = {}
      BY <1>2, <1>3, <2>1 DEF Phases
    <2>4. phase' # "down" /\ \A u \in Threads : at'[u] = "idle" => vid'[u] = NoVideo
      BY <1>2, <1>3, <2>1 DEF Phases
    <2> QED
      BY <2>2, <2>3, <2>4 DEF Phases
  <1>6. OneHolder'
    <2>1. \A u, x \in Threads : Busy(u)' /\ Busy(x)' /\ vid'[u] = vid'[x] =>
             u = x \/ (Loose(u, vid'[u]) /\ Loose(x, vid'[u]))
      BY <1>2, <1>3 DEF OneHolder, Busy
    <2>2. \A u \in Threads, i \in DOMAIN queue' : Busy(u)' /\ vid'[u] = queue'[i] =>
             Loose(u, vid'[u])
      BY <1>2, <1>3, <1>4 DEF OneHolder, Busy, Range
    <2>3. \A x \in idleRows' : ~Held(x)'
      BY <1>1 DEF OneHolder
    <2>4. \A r \in rows'["boot"] : ~Held(r.v)'
      BY <1>1 DEF OneHolder, Row
    <2>5. \A r \in rows'["requeue"] : ~FirmlyHeld(r.v)' /\ vid'["requeue"] # r.v
      BY <1>1, <1>2, <1>3 DEF OneHolder, Row
    <2>6. \A u \in {"requeue", "boot"} : \A q, r \in rows'[u] : q.v = r.v => q = r
      BY DEF OneHolder
    <2>7. \A x \in completeEv', u \in Threads : vid'[u] = x => at'[u] = "touch!"
      BY <1>2, <1>3 DEF OneHolder
    <2>8. \A x \in progressEv' : vid'["killer"] # x
      BY <1>2, <1>3 DEF OneHolder
    <2> QED
      BY <2>1, <2>2, <2>3, <2>4, <2>5, <2>6, <2>7, <2>8 DEF OneHolder, Loose
  <1>7. StatusFits'
    <2>1. \A u \in Threads : at'[u] # "idle" =>
             InPlace(u, at'[u]) /\ FitsAt(u, vid'[u], at'[u], status'[vid'[u]])
      BY <1>2, <1>3 DEF StatusFits
    <2>2. \A i \in DOMAIN queue' :
             /\ status'[queue'[i]] \notin Open
             /\ queue'[i] \in Quick => status'[queue'[i]] = "transcoding"
      BY <1>4 DEF StatusFits
    <2> QED
      BY <2>1, <2>2 DEF StatusFits, FitsAt, Loose
  <1>8. FileFits'
    <2>1. \A x \in completeEv' : file'[x] \notin {"empty", "partial"}
      BY DEF FileFits
    <2>2. \A u \in Threads :
             at'[u] \in {"complete?", "complete!", "reject?", "reject!"}
             /\ status'[vid'[u]] \in Open => file'[vid'[u]] \notin {"empty", "partial"}
      <3> SUFFICES ASSUME NEW u \in Threads \ {t},
                          at[u] \in {"complete?", "complete!", "reject?", "reject!"},
                          status[vid[u]] \in Open
                   PROVE  file'[vid[u]] \notin {"empty", "partial"}
        BY <1>2, <1>3
      <3>1. u = "hook" /\ ~Loose(u, vid[u])
        BY PipelineAssumption DEF StatusFits, InPlace, Loose
      <3>2. vid[u] \in Videos /\ vid[u] # v
        BY <3>1 DEF Busy
      <3> QED
        BY <3>2 DEF FileFits
    <2> QED
      BY <2>1, <2>2 DEF FileFits
  <1> QED
    BY <1>5, <1>6, <1>7, <1>8 DEF Ordered

\* A step that writes no status, at most removes files, lets threads and events go
\* and at most scans: for videos that nobody holds, or that only those hold whom a
\* timeout passes over.
Quiet ==
    /\ UNCHANGED status
    /\ \A v \in Videos : file'[v] \in {file[v], "none"}
    /\ \A t \in Threads : \/ at'[t] = at[t] /\ vid'[t] = vid[t]
                          \/ at'[t] = "idle" /\ vid'[t] = NoVideo
    /\ queue' \in {queue, << >>}
    /\ progressEv' \subseteq progressEv /\ completeEv' \subseteq completeEv
    /\ \A v \in idleRows' \ idleRows : ~Held(v) /\ status[v] \in Open
    /\ \A t \in {"requeue", "boot"} : \A r \in rows'[t] :
        \/ r \in rows[t]
        \/ /\ status[r.v] = r.s /\ r.a = attempts[r.v] /\ rows[t] = {}
           /\ ~FirmlyHeld(r.v) /\ vid["requeue"] # r.v
           /\ t = "boot" => ~Held(r.v)

LEMMA QuietKeepsOrder ==
    ASSUME Ordered, TypeOK', Phases', Quiet
    PROVE  Ordered'
  <1> /\ rows \in [{"requeue", "boot"} -> SUBSET Row] /\ queue \in Seq(Videos)
      /\ rows' \in [{"requeue", "boot"} -> SUBSET Row] /\ queue' \in Seq(Videos)
      /\ idleRows' \subseteq Videos /\ completeEv \subseteq Videos
      /\ progressEv \subseteq Videos /\ vid \in [Threads -> Videos \cup {NoVideo}]
      /\ \A t \in Threads : at[t] # "idle" => vid[t] \in Videos
    BY DEF Ordered, TypeOK
  <1> NoVideo \notin Videos /\ {"hook", "killer", "requeue", "boot"} \subseteq Threads
    BY PipelineAssumption DEF Threads
  <1> Phases /\ OneHolder /\ StatusFits /\ FileFits
    BY DEF Ordered
  <1> USE DEF Quiet
  <1>1. Range(queue') \subseteq Range(queue)
    BY DEF Range
  <1>2. \A x \in Videos : (Held(x)' => Held(x)) /\ (FirmlyHeld(x)' => FirmlyHeld(x))
    BY <1>1 DEF Held, FirmlyHeld, Loose
  <1>3. \A t \in Threads : at'[t] # "idle" => at'[t] = at[t] /\ vid'[t] = vid[t]
    OBVIOUS
  <1>4. OneHolder'
    <2>1. \A u, x \in Threads : Busy(u)' /\ Busy(x)' /\ vid'[u] = vid'[x] =>
             u = x \/ (Loose(u, vid'[u]) /\ Loose(x, vid'[u]))
      BY <1>3 DEF OneHolder, Busy
    <2>2. \A i, j \in DOMAIN queue' : queue'[i] = queue'[j] => i = j \/ queue'[i] \notin Quick
      BY DEF OneHolder
    <2>3. \A u \in Threads, i \in DOMAIN queue' : Busy(u)' /\ vid'[u] = queue'[i] =>
             Loose(u, vid'[u])
      BY <1>3 DEF OneHolder, Busy
    <2>4. \A x \in idleRows' : ~Held(x)'
      BY <1>2 DEF OneHolder
    <2>5. \A r \in rows'["boot"] : ~Held(r.v)'
      BY <1>2 DEF OneHolder, Row
    <2>6. \A r \in rows'["requeue"] : ~FirmlyHeld(r.v)' /\ vid'["requeue"] # r.v
      BY <1>2 DEF OneHolder, Row
    <2>7. \A u \in {"requeue", "boot"} : \A q, r \in rows'[u] : q.v = r.v => q = r
      BY DEF OneHolder, Row
    <2>8. \A x \in completeEv', u \in Threads : vid'[u] = x => at'[u] = "touch!"
      BY DEF OneHolder
    <2>9. \A x \in progressEv' : vid'["killer"] # x
      BY DEF OneHolder
    <2> QED
      BY <2>1, <2>2, <2>3, <2>4, <2>5, <2>6, <2>7, <2>8, <2>9 DEF OneHolder, Loose
  <1>5. StatusFits'
    <2>1. \A u \in Threads : at'[u] # "idle" =>
             InPlace(u, at'[u]) /\ FitsAt(u, vid'[u], at'[u], status'[vid'[u]])
      BY <1>3 DEF StatusFits
    <2>2. \A i \in DOMAIN queue' :
             /\ status'[queue'[i]] \notin Open
             /\ queue'[i] \in Quick => status'[queue'[i]] = "transcoding"
      BY DEF StatusFits
    <2>3. \A v \in idleRows' \cup completeEv' : status'[v] \in Open
      BY DEF StatusFits
    <2>4. \A u \in {"requeue", "boot"} : \A r \in rows'[u] :
             /\ status'[r.v] \notin Open
             /\ u = "boot" \/ r.v \in Quick => status'[r.v] = r.s
      BY DEF StatusFits, Open, Row
    <2> QED
      BY <2>1, <2>2, <2>3, <2>4 DEF StatusFits, FitsAt, Loose
  <1>6. FileFits'
    <2>1. \A v \in completeEv' : file'[v] \notin {"empty", "partial"}
      BY DEF FileFits
    <2>2. \A t \in Threads :
             at'[t] \in {"complete?", "complete!", "reject?", "reject!"}
             /\ status'[vid'[t]] \in Open => file'[vid'[t]] \notin {"empty", "partial"}
      BY <1>3 DEF FileFits
    <2> QED
      BY <2>1, <2>2 DEF FileFits
  <1> QED
    BY <1>4, <1>5, <1>6 DEF Ordered

LEMMA HookTakesOrdered ==
    ASSUME Ordered, TypeOK', NEW v \in Videos, HookProgress(v) \/ HookComplete(v)
    PROVE  Ordered'
  <1> {"hook", "killer", "requeue", "boot"} \subseteq Threads
    BY DEF Threads
  <1> /\ at \in [Threads -> Points] /\ vid \in [Threads -> Videos \cup {NoVideo}]
      /\ rows \in [{"requeue", "boot"} -> SUBSET Row] /\ queue \in Seq(Videos)
      /\ file \in [Videos -> Contents]
      /\ \A t \in Threads : at[t] # "idle" => vid[t] \in Videos
    BY DEF Ordered, TypeOK
  <1> NoVideo \notin Videos /\ ~Loose("hook", v)
    BY PipelineAssumption DEF Loose
  <1> Phases /\ OneHolder /\ StatusFits /\ FileFits
    BY DEF Ordered
  <1>1. /\ phase = "running" /\ at["hook"] = "idle" /\ v \in progressEv \cup completeEv
        /\ UNCHANGED << phase, status, file, queue, rows, idleRows >>
        /\ progressEv' \subseteq progressEv /\ completeEv' \subseteq completeEv
    BY DEF HookProgress, HookComplete, Idle, process, db, disk, scans
  <1>2. Held(v) /\ FirmlyHeld(v)
    BY <1>1 DEF Held, FirmlyHeld
  <1>3. /\ v \notin idleRows /\ \A u \in {"requeue", "boot"} : \A r \in rows[u] : r.v # v
    BY <1>2 DEF OneHolder
  <1>4. \A i, j \in DOMAIN queue : queue[i] = queue[j] => i = j \/ queue[i] \notin Quick
    BY DEF OneHolder
  <1>5. status[v] \in Open => v \notin Range(queue)
    BY DEF StatusFits, Range
  <1>6. CASE HookProgress(v) /\ status[v] = "pending_upload"
    <2>1. /\ at' = [at EXCEPT !["hook"] = "touch!"] /\ vid' = [vid EXCEPT !["hook"] = v]
          /\ v \in progressEv
      BY <1>6 DEF HookProgress, Begin
    <2>2. TakesUp("hook", v, "touch!")
      BY <1>1, <1>4, <2>1 DEF TakesUp
    <2>3. \A u \in Threads : vid[u] # v
      <3> SUFFICES ASSUME NEW u \in Threads, vid[u] = v
                   PROVE  FALSE
        OBVIOUS
      <3>1. at[u] # "idle" /\ u # "killer" /\ u # "hook"
        BY <1>1, <2>1 DEF Phases, OneHolder
      <3>2. InPlace(u, at[u]) /\ "pending_upload" \in StatusesAt(at[u])
        BY <1>6, <3>1 DEF StatusFits, FitsAt, Open
      <3> QED
        BY <3>1, <3>2 DEF InPlace, StatusesAt, Open, Points
    <2>4. TakesFitly("hook", v, "touch!")
      BY <1>1, <1>3, <1>5, <1>6, <2>3 DEF TakesFitly, InPlace, FitsAt, StatusesAt, Open
    <2> QED
      BY <2>2, <2>4, TakingUpKeepsOrder DEF Points
  <1>7. CASE HookProgress(v) /\ status[v] # "pending_upload"
    <2>1. UNCHANGED << at, vid >>
      BY <1>7 DEF HookProgress
    <2>2. Quiet
      BY <1>1, <2>1 DEF Quiet
    <2>3. Phases'
      BY <1>1, <2>1 DEF Phases
    <2> QED
      BY <2>2, <2>3, QuietKeepsOrder
  <1>8. CASE HookComplete(v)
    <2> DEFINE p == IF file[v] = "good" THEN "complete?" ELSE "reject?"
    <2>1. /\ at' = [at EXCEPT !["hook"] = p] /\ vid' = [vid EXCEPT !["hook"] = v]
          /\ v \in completeEv /\ v \notin completeEv'
      BY <1>8 DEF HookComplete, Begin
    <2>2. TakesUp("hook", v, p)
      BY <1>1, <1>4, <2>1 DEF TakesUp
    <2>3. status[v] \in Open /\ file[v] \notin {"empty", "partial"}
      BY <2>1 DEF StatusFits, FileFits
    <2>4. \A u \in Threads : Busy(u) => vid[u] # v
      <3> SUFFICES ASSUME NEW u \in Threads, Busy(u), vid[u] = v
                   PROVE  FALSE
        OBVIOUS
      <3>1. at[u] = "touch!" /\ u # "hook"
        BY <1>1, <2>1 DEF OneHolder, Busy
      <3> QED
        BY <3>1 DEF StatusFits, InPlace
    <2>5. TakesFitly("hook", v, p)
      BY <1>1, <1>3, <1>5, <2>1, <2>3, <2>4 DEF TakesFitly, InPlace, FitsAt, StatusesAt
    <2> QED
      BY <2>2, <2>5, TakingUpKeepsOrder DEF Points
  <1> QED
    BY <1>6, <1>7, <1>8

LEMMA KillerTakesOrdered ==
    ASSUME Ordered, TypeOK', NEW v \in Videos, KillerRemove(v)
    PROVE  Ordered'
  <1> {"hook", "killer", "requeue", "boot"} \subseteq Threads
    BY DEF Threads
  <1> /\ queue \in Seq(Videos) /\ file \in [Videos -> Contents]
      /\ rows \in [{"requeue", "boot"} -> SUBSET Row]
    BY DEF Ordered, TypeOK
  <1> Phases /\ OneHolder /\ StatusFits
    BY DEF Ordered
  <1>1. TakesUp("killer", v, "kill?")
    BY DEF KillerRemove, Idle, Begin, TakesUp, OneHolder, process, db, tus
  <1>2. ~Held(v) /\ status[v] \in Open /\ v \notin idleRows'
    BY DEF KillerRemove, OneHolder, StatusFits
  <1>3. \A u \in {"requeue", "boot"} : \A r \in rows'[u] : r.v # v
    BY <1>2 DEF KillerRemove, StatusFits
  <1>4. UNCHANGED << queue, progressEv, completeEv >>
    BY DEF KillerRemove, tus
  <1>5. TakesFitly("killer", v, "kill?")
    BY <1>2, <1>3, <1>4, PipelineAssumption
    DEF TakesFitly, Held, InPlace, FitsAt, StatusesAt, Loose
  <1> QED
    BY <1>1, <1>5, TakingUpKeepsOrder DEF Points

LEMMA RestorerTakesOrdered ==
    ASSUME Ordered, TypeOK', NEW t \in {"requeue", "boot"}, NEW r \in rows[t], Restore(t, r)
    PROVE  Ordered'
  <1> {"hook", "killer", "requeue", "boot"} \subseteq Threads
    BY DEF Threads
  <1> /\ queue \in Seq(Videos) /\ file \in [Videos -> Contents]
      /\ rows \in [{"requeue", "boot"} -> SUBSET Row] /\ r \in Row
      /\ rows' = [rows EXCEPT ![t] = @ \ {r}]
    BY DEF Ordered, TypeOK, Restore
  <1> r.v \in Videos /\ r.s \in {"upload_complete", "transcoding"}
    BY DEF Row
  <1> Phases /\ OneHolder /\ StatusFits
    BY DEF Ordered
  <1>1. PICK p \in {"enqueue?", "restore?", "fail?"} :
          /\ at' = [at EXCEPT ![t] = p] /\ vid' = [vid EXCEPT ![t] = r.v]
          /\ p = "enqueue?" <=> r.s = "upload_complete"
    BY DEF Restore, Begin
  <1>2. TakesUp(t, r.v, p)
    BY <1>1 DEF Restore, Idle, TakesUp, OneHolder, Phases, process, disk, tus
  <1>3. /\ status[r.v] \notin Open
        /\ IF Loose(t, r.v) THEN t = "requeue" ELSE status[r.v] = r.s
    BY PipelineAssumption DEF StatusFits, Loose
  <1>4. \A q \in rows'[t] : q.v # r.v
    BY DEF OneHolder
  <1>5. \A u \in {"requeue", "boot"} : u # t => rows'[u] = {}
    BY DEF Phases, Restore, Idle
  <1>6. UNCHANGED << queue, idleRows, progressEv, completeEv >>
    BY DEF Restore, tus
  <1>7. r.v \notin idleRows /\ r.v \notin completeEv
    BY <1>3 DEF StatusFits
  <1>8. ~FirmlyHeld(r.v)
    BY DEF OneHolder, FirmlyHeld, Held
  <1>9. /\ r.v \in Range(queue) => Loose(t, r.v)
        /\ \A u \in Threads : vid[u] = r.v => Loose(u, r.v) /\ Loose(t, r.v)
    <2>1. CASE t = "boot"
      BY <2>1 DEF OneHolder, Held
    <2>2. CASE t = "requeue"
      BY <1>8, <2>2 DEF FirmlyHeld, Loose
    <2> QED
      BY <2>1, <2>2
  <1>10. TakesFitly(t, r.v, p)
    BY <1>1, <1>3, <1>4, <1>5, <1>6, <1>7, <1>9 DEF TakesFitly, InPlace, FitsAt, StatusesAt
  <1> QED
    BY <1>2, <1>10, TakingUpKeepsOrder DEF Points

LEMMA WorkerTakesOrdered ==
    ASSUME Ordered, TypeOK', NEW w \in Workers, WorkerTake(w)
    PROVE  Ordered'
  <1> {"hook", "killer", "requeue", "boot"} \subseteq Threads /\ w \in Threads
    BY DEF Threads
  <1> w \notin {"boot", "hook", "killer", "requeue"}
    BY PipelineAssumption
  <1> DEFINE v == Head(queue)
  <1> /\ queue \in Seq(Videos) /\ queue # << >>
      /\ rows \in [{"requeue", "boot"} -> SUBSET Row]
    BY DEF Ordered, TypeOK, WorkerTake
  <1> Phases /\ OneHolder /\ StatusFits
    BY DEF Ordered
  <1>1. v \in Videos /\ 1 \in DOMAIN queue /\ v = queue[1]
    OBVIOUS
  <1>2. /\ queue' = Tail(queue)
        /\ \A i \in DOMAIN queue' : i + 1 \in DOMAIN queue /\ queue'[i] = queue[i + 1]
                                    /\ i \in Nat /\ i # 0
    BY DEF WorkerTake
  <1>3. /\ \A i, j \in DOMAIN queue' :
             queue'[i] = queue'[j] => i = j \/ queue'[i] \notin Quick
        /\ v \in Range(queue') => Loose(w, v)
        /\ Range(queue') \subseteq Range(queue)
    BY <1>1, <1>2 DEF OneHolder, Range, Loose
  <1>4. UNCHANGED << phase, status, file, rows, idleRows, progressEv, completeEv >>
    BY DEF WorkerTake, process, db, disk, scans, tus
  <1>5. TakesUp(w, v, "load")
    BY <1>3, <1>4 DEF WorkerTake, Idle, Begin, TakesUp
  <1>6. /\ Held(v)
        /\ v \in Quick => FirmlyHeld(v)
        /\ IF v \in Quick THEN status[v] = "transcoding" ELSE status[v] \notin Open
    BY <1>1 DEF Held, FirmlyHeld, Range, StatusFits
  <1>7. v \notin idleRows /\ v \notin completeEv
    BY <1>6 DEF StatusFits, Open
  <1>8. /\ \A r \in rows["boot"] : r.v # v
        /\ \A r \in rows["requeue"] : r.v = v => Loose(w, v)
    BY <1>6 DEF OneHolder, Loose, Phases, WorkerTake
  <1>9. \A u \in Threads : Busy(u) /\ vid[u] = v => Loose(u, v) /\ Loose(w, v)
    BY <1>1 DEF OneHolder, Loose
  <1>10. TakesFitly(w, v, "load")
    BY <1>3, <1>4, <1>6, <1>7, <1>8, <1>9 DEF TakesFitly, InPlace, FitsAt, StatusesAt, Loose
  <1> QED
    BY <1>1, <1>5, <1>10, TakingUpKeepsOrder DEF Points

\* What a job finds too old, nobody holds if it may still be uploaded or is quick;
\* otherwise only those whom timeouts pass over.
LEMMA TimedOutIsLoose ==
    ASSUME Orderly, Ordered, NEW v \in Videos, MayTimeOut(v)
    PROVE  /\ ~FirmlyHeld(v)
           /\ v \in Quick \/ status[v] \in Open => ~Held(v)
  <1> StatusFits /\ Phases
    BY DEF Ordered
  <1>1. CASE v \in Quick
    BY <1>1 DEF MayTimeOut, Held, FirmlyHeld
  <1>2. CASE v \notin Quick
    <2>1. v \notin progressEv \cup completeEv
      BY <1>2 DEF MayTimeOut, Passing
    <2>2. \A t \in Threads : vid[t] = v => Loose(t, v) /\ status[v] \notin Open
      <3> SUFFICES ASSUME NEW t \in Threads, vid[t] = v
                   PROVE  Loose(t, v) /\ status[v] \notin Open
        OBVIOUS
      <3>1. at[t] = "encode"
        BY <1>2 DEF MayTimeOut, Passing
      <3> QED
        BY <1>2, <3>1 DEF StatusFits, InPlace, FitsAt, Loose
    <2>3. v \in Range(queue) => status[v] \notin Open
      BY DEF StatusFits, Range
    <2> QED
      BY <1>2, <2>1, <2>2, <2>3 DEF Held, FirmlyHeld
  <1> QED
    BY <1>1, <1>2

LEMMA QuietOrdered ==
    ASSUME Orderly, Ordered, TypeOK',
           \/ HookTellProcessing \/ Scans \/ Crash \/ Boot \/ Serve \/ UNCHANGED vars
           \/ \E v \in Videos : TusTerminate(v)
    PROVE  Ordered'
  <1> {"hook", "killer", "requeue", "boot"} \subseteq Threads
    BY DEF Threads
  <1> /\ at \in [Threads -> Points] /\ vid \in [Threads -> Videos \cup {NoVideo}]
      /\ rows \in [{"requeue", "boot"} -> SUBSET Row] /\ file \in [Videos -> Contents]
    BY DEF Ordered, TypeOK
  <1> NoVideo \notin Videos
    BY PipelineAssumption
  <1> Phases
    BY DEF Ordered
  <1> SUFFICES Phases' /\ Quiet
    BY QuietKeepsOrder
  <1>1. CASE HookTellProcessing
    BY <1>1 DEF HookTellProcessing, Tell, Goto, Phases, Quiet, process, db, disk, scans, tus
  <1>2. CASE Scans
    <2>1. PICK S \in SUBSET Videos : KillerScan(S) \/ RequeueScan(S)
      BY <1>2 DEF Scans
    <2>2. \A v \in S : ~FirmlyHeld(v) /\ (v \in Quick \/ status[v] \in Open => ~Held(v))
      BY <2>1, TimedOutIsLoose DEF KillerScan, RequeueScan
    <2>3. CASE KillerScan(S)
      BY <2>2, <2>3 DEF KillerScan, Phases, Quiet, Open, process, db, disk, tus
    <2>4. CASE RequeueScan(S)
      <3>1. vid["requeue"] = NoVideo
        BY <2>4 DEF RequeueScan, Idle, Phases
      <3> QED
        BY <2>2, <2>4, <3>1 DEF RequeueScan, Snapshot, Phases, Quiet, process, db, disk, tus
    <2> QED
      BY <2>1, <2>3, <2>4
  <1>3. CASE Crash
    BY <1>3 DEF Crash, Phases, Quiet, db, disk
  <1>4. CASE Boot
    <2>1. \A v \in Videos : ~Held(v) /\ ~FirmlyHeld(v) /\ vid["requeue"] # v
      BY <1>4, PipelineAssumption DEF Boot, Phases, Held, FirmlyHeld, Range
    <2> QED
      BY <1>4, <2>1 DEF Boot, Snapshot, Phases, Quiet, db, disk, tus
  <1>5. CASE Serve
    BY <1>5 DEF Serve, Idle, Phases, Quiet, db, disk, scans, tus
  <1>6. CASE UNCHANGED vars
    BY <1>6 DEF vars, Phases, Quiet
  <1>7. CASE \E v \in Videos : TusTerminate(v)
    BY <1>7 DEF TusTerminate, Phases, Quiet, process, db, scans, tus
  <1> QED
    BY <1>1, <1>2, <1>3, <1>4, <1>5, <1>6, <1>7

LEMMA SendOrdered ==
    ASSUME Ordered, TypeOK', NEW t \in Enqueuers, EnqueueSend(t)
    PROVE  Ordered'
  <1> {"hook", "killer", "requeue", "boot"} \subseteq Threads /\ t \in Threads
    BY DEF Threads, Enqueuers
  <1> DEFINE v == vid[t]
  <1> /\ at \in [Threads -> Points] /\ vid \in [Threads -> Videos \cup {NoVideo}]
      /\ rows \in [{"requeue", "boot"} -> SUBSET Row] /\ queue \in Seq(Videos)
      /\ at[t] = "send" /\ v \in Videos /\ idleRows \subseteq Videos
      /\ completeEv \subseteq Videos /\ progressEv \subseteq Videos
      /\ \A u \in Threads : at[u] # "idle" => vid[u] \in Videos
    BY DEF Ordered, TypeOK, EnqueueSend
  <1> NoVideo \notin Videos
    BY PipelineAssumption
  <1> Phases /\ OneHolder /\ StatusFits /\ FileFits
    BY DEF Ordered
  <1>1. /\ Busy(t) /\ status[v] \notin Open
        /\ ~Loose(t, v) => status[v] = "transcoding"
    BY DEF Busy, StatusFits, FitsAt, StatusesAt, Open
  <1>2. /\ UNCHANGED << phase, status, file, rows, idleRows, progressEv, completeEv >>
        /\ \A u \in Threads \ {t} : at'[u] = at[u] /\ vid'[u] = vid[u]
        /\ vid'[t] = IF at'[t] = "idle" THEN NoVideo ELSE v
    BY DEF EnqueueSend, Goto, process, db, disk, scans, tus
  <1>3. CASE Len(queue) < QueueMaxSize
    <2>1. queue' = Append(queue, v) /\ at'[t] = AfterEnqueue(t)
      BY <1>3 DEF EnqueueSend, Goto
    <2>2. /\ at'[t] \in {"tell_processing", "idle"}
          /\ at'[t] = "tell_processing" => t = "hook"
          /\ vid'["requeue"] = IF t = "requeue" THEN NoVideo ELSE vid["requeue"]
      BY <1>2, <2>1 DEF AfterEnqueue
    <2>3. /\ DOMAIN queue = 1..Len(queue) /\ DOMAIN queue' = 1..(Len(queue) + 1)
          /\ Len(queue) \in Nat
          /\ \A i \in DOMAIN queue : queue'[i] = queue[i]
          /\ queue'[Len(queue) + 1] = v
      BY <2>1
    <2>4. \A x \in Videos : (Held(x)' => Held(x)) /\ (FirmlyHeld(x)' => FirmlyHeld(x))
      <3>1. \A x \in Range(queue') : x \in Range(queue) \/ x = v
        BY <2>3 DEF Range
      <3>2. v \in Quick => FirmlyHeld(v)
        BY DEF FirmlyHeld, Loose
      <3> QED
        BY <1>2, <3>1, <3>2 DEF Held, FirmlyHeld, Loose
    <2>5. \A u \in Threads : Busy(u)' =>
             /\ u # t /\ Busy(u) /\ vid'[u] = vid[u]
             /\ vid[u] = v => Loose(u, v)
      BY <1>1, <1>2, <2>2 DEF Busy, OneHolder
    <2>6. Phases'
      <3>1. phase = IF t = "boot" THEN "recovering" ELSE "running"
        BY <1>1 DEF Phases, Busy, TypeOK, Ordered
      <3>2. /\ phase' # "running" =>
                  /\ \A u \in Threads \ {"boot"} : at'[u] = "idle"
                  /\ rows'["requeue"] = {} /\ idleRows' = {}
                  /\ progressEv' = {} /\ completeEv' = {}
            /\ phase' # "recovering" => at'["boot"] = "idle" /\ rows'["boot"] = {}
        BY <1>2, <3>1 DEF Phases
      <3>3. phase' # "down" /\ \A u \in Threads : at'[u] = "idle" => vid'[u] = NoVideo
        BY <1>2, <3>1 DEF Phases
      <3> QED
        BY <3>2, <3>3 DEF Phases
    <2>7. OneHolder'
      <3>1. \A u, x \in Threads : Busy(u)' /\ Busy(x)' /\ vid'[u] = vid'[x] =>
               u = x \/ (Loose(u, vid'[u]) /\ Loose(x, vid'[u]))
        BY <2>5 DEF OneHolder
      <3>2. \A i, j \in DOMAIN queue' :
               queue'[i] = queue'[j] => i = j \/ queue'[i] \notin Quick
        BY <1>1, <2>3 DEF OneHolder, Loose
      <3>3. \A u \in Threads, i \in DOMAIN queue' : Busy(u)' /\ vid'[u] = queue'[i] =>
               Loose(u, vid'[u])
        BY <2>3, <2>5 DEF OneHolder
      <3>4. \A x \in idleRows' : ~Held(x)'
        BY <1>2, <2>4 DEF OneHolder
      <3>5. \A r \in rows'["boot"] : ~Held(r.v)'
        BY <1>2, <2>4 DEF OneHolder, Row
      <3>6. \A r \in rows'["requeue"] : ~FirmlyHeld(r.v)' /\ vid'["requeue"] # r.v
        BY <1>2, <2>2, <2>4 DEF OneHolder, Row
      <3>7. \A u \in {"requeue", "boot"} : \A q, r \in rows'[u] : q.v = r.v => q = r
        BY <1>2 DEF OneHolder
      <3>8. \A x \in completeEv', u \in Threads : vid'[u] = x => at'[u] = "touch!"
        BY <1>2 DEF OneHolder
      <3>9. \A x \in progressEv' : vid'["killer"] # x
        BY <1>2 DEF OneHolder
      <3> QED
        BY <3>1, <3>2, <3>3, <3>4, <3>5, <3>6, <3>7, <3>8, <3>9 DEF OneHolder, Loose
    <2>8. StatusFits'
      <3>1. \A u \in Threads : at'[u] # "idle" =>
               InPlace(u, at'[u]) /\ FitsAt(u, vid'[u], at'[u], status'[vid'[u]])
        <4>1. InPlace(t, "tell_processing") <=> t = "hook"
          BY DEF InPlace
        <4>2. FitsAt(t, v, "tell_processing", status[v])
          <5>1. status[v] \in Statuses
            BY DEF Ordered, TypeOK
          <5> QED
            BY <1>1, <5>1 DEF FitsAt, StatusesAt
        <4> QED
          BY <1>2, <2>2, <4>1, <4>2 DEF StatusFits
      <3>2. \A i \in DOMAIN queue' :
               /\ status'[queue'[i]] \notin Open
               /\ queue'[i] \in Quick => status'[queue'[i]] = "transcoding"
        BY <1>1, <1>2, <2>3 DEF StatusFits, Loose
      <3> QED
        BY <1>2, <3>1, <3>2 DEF StatusFits, FitsAt, Loose
    <2>9. FileFits'
      BY <1>2, <2>2 DEF FileFits
    <2> QED
      BY <2>6, <2>7, <2>8, <2>9 DEF Ordered
  <1>4. CASE ~(Len(queue) < QueueMaxSize)
    <2>1. at'[t] = AfterRefusal(t) /\ queue' = queue
      BY <1>4 DEF EnqueueSend, Goto
    <2>2. at'[t] \in {"reject?", "rollback?", "idle"} /\ (at'[t] = "reject?" => t = "hook")
      BY <2>1 DEF AfterRefusal
    <2>3. Advances(t)
      BY <1>1, <1>2, <2>1, <2>2 DEF Advances
    <2>4. GoesWell(t)
      BY <1>1, <1>2, <2>2 DEF GoesWell, InPlace, FitsAt, StatusesAt, Open
    <2> QED
      BY <2>3, <2>4, AdvanceKeepsOrder
  <1> QED
    BY <1>3, <1>4

-----------------------------------------------------------------------------
(* The invariant.                                                          *)

LEMMA InitOrdered ==
    ASSUME Init
    PROVE  Ordered
  <1>1. TypeOK
    BY InitType
  <1>2. Phases /\ OneHolder /\ StatusFits /\ FileFits
    BY PipelineAssumption
    DEF Init, Phases, OneHolder, StatusFits, FileFits, Busy, Held, Range, Threads
  <1> QED
    BY <1>1, <1>2 DEF Ordered

LEMMA StepOrdered ==
    ASSUME Orderly, Ordered, TypeOK', [Next]_vars
    PROVE  Ordered'
  <1> USE DEF Enqueuers, Threads
  <1>1. CASE Client
    BY <1>1, ClientOrdered, QuietOrdered DEF Client
  <1>2. CASE Hook
    <2>1. CASE HookTellProcessing
      BY <2>1, QuietOrdered
    <2>2. CASE Enqueue("hook")
      BY <2>2, EnqueueOrdered, SendOrdered DEF Enqueue
    <2>3. CASE TellFailed("hook")
      BY <2>3, FailOrdered DEF Fail
    <2> QED
      BY <1>2, <2>1, <2>2, <2>3, HookOrdered, HookTakesOrdered DEF Hook
  <1>3. ASSUME NEW w \in Workers, Worker(w)
        PROVE  Ordered'
    BY <1>3, WorkerOrdered, WorkerTakesOrdered, FailOrdered DEF Worker
  <1>4. CASE KillerStep
    BY <1>4, KillerOrdered, KillerTakesOrdered, FailOrdered DEF KillerStep, Fail
  <1>5. ASSUME NEW t \in {"requeue", "boot"}, RestorerStep(t)
        PROVE  Ordered'
    BY <1>5, RestorerOrdered, RestorerTakesOrdered, EnqueueOrdered, SendOrdered, FailOrdered
    DEF RestorerStep, Enqueue
  <1>6. CASE RollbackCheck \/ RollbackWrite
    BY <1>6, RestorerOrdered
  <1>7. CASE Scans \/ Crash \/ Boot \/ Serve \/ UNCHANGED vars
    BY <1>7, QuietOrdered
  <1> QED
    BY <1>1, <1>2, <1>3, <1>4, <1>5, <1>6, <1>7 DEF Next

LEMMA OrderIsKept ==
    ASSUME Orderly
    PROVE  Spec => []Ordered
  <1>1. Ordered /\ TypeOK' /\ [Next]_vars => Ordered'
    BY StepOrdered
  <1> QED
    BY <1>1, InitOrdered, TypeCorrect, PTL DEF Spec

-----------------------------------------------------------------------------
(* What follows from it.                                                   *)

\* A step that writes a status writes one the transition table allows, if the video
\* is quick, for what the thread read is still there.
LEMMA WriteMoves ==
    ASSUME Ordered, NEW t \in Threads, NEW from \in Points \ {"idle"}, NEW to \in Statuses,
           NEW next, Write(t, from, to, next),
           \A s \in StatusesAt(from) : IsValidTransition(s, to)
    PROVE  [Lifecycle!Next]_([v \in Quick |-> status[v]])
  <1>1. /\ status \in [Videos -> Statuses] /\ vid[t] \in Videos /\ Quick \subseteq Videos
        /\ status' = [status EXCEPT ![vid[t]] = to]
        /\ FitsAt(t, vid[t], from, status[vid[t]])
    BY PipelineAssumption DEF Write, Ordered, TypeOK, StatusFits
  <1>2. CASE vid[t] \in Quick
    <2>1. IsValidTransition(status[vid[t]], to)
      BY <1>1, <1>2 DEF FitsAt, Loose
    <2>2. [v \in Quick |-> status'[v]]
             = [[v \in Quick |-> status[v]] EXCEPT ![vid[t]] = to]
      BY <1>1, <1>2
    <2>3. Lifecycle!Move(vid[t], to)
      BY <1>2, <2>1, <2>2
      DEF Lifecycle!Move, Lifecycle!IsValidTransition, IsValidTransition,
          Lifecycle!ValidTransitions, ValidTransitions, Lifecycle!Statuses, Statuses
    <2> QED
      BY <1>2, <2>3 DEF Lifecycle!Next, Lifecycle!Statuses, Statuses
  <1>3. CASE vid[t] \notin Quick
    BY <1>1, <1>3
  <1> QED
    BY <1>2, <1>3

LEMMA StepMoves ==
    ASSUME Ordered, [Next]_vars
    PROVE  [Lifecycle!Next]_([v \in Quick |-> status[v]])
  <1> DEFINE Moves == [Lifecycle!Next]_([v \in Quick |-> status[v]])
  <1> {"hook", "killer", "requeue", "boot"} \subseteq Threads /\ Workers \subseteq Threads
    BY DEF Threads
  <1>1. HookTouch \/ HookSetComplete \/ HookReject => Moves
    BY WriteMoves DEF HookTouch, HookSetComplete, HookReject, Points, Statuses, StatusesAt,
                      Open, IsValidTransition, ValidTransitions
  <1>2. KillerFail \/ RollbackWrite => Moves
    BY WriteMoves DEF KillerFail, RollbackWrite, Points, Statuses, StatusesAt, Open,
                      IsValidTransition, ValidTransitions
  <1>3. ASSUME NEW t \in Threads, EnqueueWrite(t) \/ RestoreWrite(t) \/ FailWrite(t)
        PROVE  Moves
    BY <1>3, WriteMoves DEF EnqueueWrite, RestoreWrite, FailWrite, Points, Statuses,
                            StatusesAt, Open, IsValidTransition, ValidTransitions
  <1>4. ASSUME NEW w \in Workers, WorkerClaim(w) \/ WorkerReady(w)
        PROVE  Moves
    BY <1>4, WriteMoves DEF WorkerClaim, WorkerReady, Points, Statuses, StatusesAt, Open,
                            IsValidTransition, ValidTransitions
  <1>5. UNCHANGED status => Moves
    OBVIOUS
  <1> SUFFICES Moves
    OBVIOUS
  <1> HIDE DEF Moves
  <1>6. CASE Client \/ Scans \/ Crash \/ Boot \/ Serve \/ UNCHANGED vars
    BY <1>5, <1>6
    DEF Client, TusCreate, TusChunk, TusFinish, TusTerminate, Scans, KillerScan,
        RequeueScan, Crash, Boot, Serve, vars, db
  <1>7. CASE Hook
    <2>1. UNCHANGED status \/ HookTouch \/ HookSetComplete \/ HookReject \/ EnqueueWrite("hook")
      BY <1>7
      DEF Hook, HookProgress, HookComplete, HookSetCompleteCheck, HookTellProcessing,
          HookRejectCheck, HookDiscard, Enqueue, EnqueueCheck, EnqueueSend, TellFailed,
          Check, Tell, db
    <2> QED
      BY <1>1, <1>3, <1>5, <2>1
  <1>8. ASSUME NEW w \in Workers, Worker(w)
        PROVE  Moves
    <2>1. UNCHANGED status \/ WorkerClaim(w) \/ WorkerReady(w) \/ FailWrite(w)
      BY <1>8
      DEF Worker, WorkerTake, WorkerLoad, WorkerClaimCheck, WorkerEncode, WorkerPublish,
          WorkerStumble, WorkerReadyCheck, WorkerDescribe, WorkerFinish, WorkerCount,
          Fail, FailCheck, TellFailed, Check, Tell, db
    <2> QED
      BY <1>3, <1>4, <1>5, <2>1
  <1>9. CASE KillerStep
    <2>1. UNCHANGED status \/ KillerFail
      BY <1>9 DEF KillerStep, KillerRemove, KillerCheck, TellFailed, Check, Tell, db
    <2> QED
      BY <1>2, <1>5, <2>1
  <1>10. ASSUME NEW t \in {"requeue", "boot"}, RestorerStep(t)
         PROVE  Moves
    <2>1. UNCHANGED status \/ RestoreWrite(t) \/ EnqueueWrite(t) \/ FailWrite(t)
      BY <1>10
      DEF RestorerStep, Restore, RestoreCheck, Enqueue, EnqueueCheck, EnqueueSend,
          Fail, FailCheck, TellFailed, Check, Tell, db
    <2> QED
      BY <1>3, <1>5, <2>1
  <1>11. CASE RollbackCheck \/ RollbackWrite
    BY <1>2, <1>5, <1>11 DEF RollbackCheck, Check, db
  <1> QED
    BY <1>6, <1>7, <1>8, <1>9, <1>10, <1>11 DEF Next

\* So the status of a quick video stays or moves along the table.
LEMMA StatusStep ==
    ASSUME Ordered, [Next]_vars, NEW v \in Quick
    PROVE  /\ v \in Videos /\ status[v] \in Statuses
           /\ status'[v] = status[v] \/ IsValidTransition(status[v], status'[v])
  <1>1. v \in Videos /\ status[v] \in Statuses
    BY PipelineAssumption DEF Ordered, TypeOK
  <1>2. CASE [x \in Quick |-> status'[x]] = [x \in Quick |-> status[x]]
    BY <1>1, <1>2
  <1>3. CASE Lifecycle!Next
    <2> PICK x \in Quick, to \in Statuses : Lifecycle!Move(x, to)
      BY <1>3 DEF Lifecycle!Next, Lifecycle!Statuses, Statuses
    <2>1. /\ IsValidTransition(status[x], to)
          /\ [y \in Quick |-> status'[y]] = [[y \in Quick |-> status[y]] EXCEPT ![x] = to]
      BY DEF Lifecycle!Move, Lifecycle!IsValidTransition, IsValidTransition,
             Lifecycle!ValidTransitions, ValidTransitions, Lifecycle!Statuses, Statuses
    <2>2. status'[v] = [y \in Quick |-> status'[y]][v]
      OBVIOUS
    <2>3. status'[v] = IF v = x THEN to ELSE status[v]
      BY <2>1, <2>2
    <2> QED
      BY <1>1, <2>1, <2>3
  <1> QED
    BY <1>2, <1>3, StepMoves

\* With orderly timeouts and clients the pipeline implements VideoLifecycle for the
\* quick videos, whatever becomes of the others: the status keeps to the transition
\* table although UpdateStatus validates and writes in two statements.
THEOREM ImplementsLifecycle ==
    ASSUME Orderly
    PROVE  Spec => FollowsLifecycle
  <1>1. Init => Lifecycle!Init
    BY PipelineAssumption DEF Init, Lifecycle!Init
  <1>2. Ordered /\ [Next]_vars => [Lifecycle!Next]_([v \in Quick |-> status[v]])
    BY StepMoves
  <1> QED
    BY <1>1, <1>2, OrderIsKept, PTL DEF Spec, FollowsLifecycle, Lifecycle!Spec

\* What spec/pipeline.md says of the final statuses is true when no video waits or is
\* encoded longer than the timeout: the run that refutes it needs one that does.
THEOREM FinalsStay ==
    ASSUME Orderly, Quick = Videos
    PROVE  Spec => TerminalIsFinal
  <1>1. Ordered /\ [Next]_vars =>
          (\A v \in Videos : status[v] \in Terminal => status'[v] = status[v])
    BY StatusStep DEF Terminal, IsValidTransition
  <1> QED
    BY <1>1, OrderIsKept, PTL DEF Spec, TerminalIsFinal

-----------------------------------------------------------------------------
(* The queue and its workers implement WorkQueue.                          *)

LEMMA QueueWriters ==
    ASSUME [Next]_vars, queue' # queue
    PROVE  \/ \E w \in Workers : WorkerTake(w)
           \/ \E t \in Enqueuers : EnqueueSend(t)
           \/ Crash
  BY DEF Next, Client, TusCreate, TusChunk, TusFinish, TusTerminate, Hook, HookProgress,
         HookComplete, HookTouch, HookSetCompleteCheck, HookSetComplete,
         HookTellProcessing, HookRejectCheck, HookReject, HookDiscard, Enqueue,
         EnqueueCheck, EnqueueWrite, Worker, WorkerLoad, WorkerClaimCheck, WorkerClaim,
         WorkerEncode, WorkerPublish, WorkerStumble, WorkerReadyCheck, WorkerReady,
         WorkerDescribe, WorkerFinish, WorkerCount, Fail, FailCheck, FailWrite, TellFailed,
         KillerStep, KillerRemove, KillerCheck, KillerFail, RestorerStep, Restore,
         RestoreCheck, RestoreWrite, RollbackCheck, RollbackWrite, Scans, KillerScan,
         RequeueScan, Boot, Serve, Check, Write, Tell, vars, Enqueuers

LEMMA RowWriters ==
    ASSUME [Next]_vars, rows' # rows
    PROVE  \/ \E t \in {"requeue", "boot"} : \E r \in rows[t] : Restore(t, r)
           \/ \E S \in SUBSET Videos : RequeueScan(S)
           \/ Boot \/ Crash
  BY DEF Next, Client, TusCreate, TusChunk, TusFinish, TusTerminate, Hook, HookProgress,
         HookComplete, HookTouch, HookSetCompleteCheck, HookSetComplete,
         HookTellProcessing, HookRejectCheck, HookReject, HookDiscard, Enqueue,
         EnqueueCheck, EnqueueWrite, EnqueueSend, Worker, WorkerTake, WorkerLoad,
         WorkerClaimCheck, WorkerClaim, WorkerEncode, WorkerPublish, WorkerStumble,
         WorkerReadyCheck, WorkerReady, WorkerDescribe, WorkerFinish, WorkerCount, Fail,
         FailCheck, FailWrite, TellFailed, KillerStep, KillerRemove, KillerCheck,
         KillerFail, RestorerStep, RestoreCheck, RestoreWrite, RollbackCheck,
         RollbackWrite, Scans, KillerScan, Serve, Check, Write, Tell, vars, scans

\* A thread is moved by its own steps, and by a crash.
LEMMA OnlyItMoves ==
    ASSUME TypeOK, [Next]_vars, NEW t \in Threads, at'[t] # at[t] \/ vid'[t] # vid[t]
    PROVE  \/ Crash
           \/ t = "hook" /\ Hook
           \/ t \in Workers /\ Worker(t)
           \/ t = "killer" /\ KillerStep
           \/ t \in {"requeue", "boot"} /\ RestorerStep(t)
           \/ t = "requeue" /\ (RollbackCheck \/ RollbackWrite)
  <1> at \in [Threads -> Points] /\ vid \in [Threads -> Videos \cup {NoVideo}]
    BY DEF TypeOK
  <1>1. CASE Client \/ Scans \/ Boot \/ Serve \/ UNCHANGED vars
    BY <1>1 DEF Client, TusCreate, TusChunk, TusFinish, TusTerminate, Scans, KillerScan,
                RequeueScan, Boot, Serve, vars
  <1>2. CASE Hook
    BY <1>2
    DEF Hook, HookProgress, HookComplete, HookTouch, HookSetCompleteCheck, HookSetComplete,
        HookTellProcessing, HookRejectCheck, HookReject, HookDiscard, Enqueue,
        EnqueueCheck, EnqueueWrite, EnqueueSend, TellFailed, Check, Write, Tell, Begin, Goto
  <1>3. ASSUME NEW w \in Workers, Worker(w)
        PROVE  t = w
    <2>1. w \in Threads
      BY DEF Threads
    <2>2. CASE WorkerTake(w)
      BY <2>1, <2>2 DEF WorkerTake, Begin
    <2>3. CASE ~WorkerTake(w)
      BY <1>3, <2>1, <2>3
      DEF Worker, WorkerLoad, WorkerClaimCheck, WorkerClaim, WorkerEncode, WorkerPublish,
          WorkerStumble, WorkerReadyCheck, WorkerReady, WorkerDescribe, WorkerFinish,
          WorkerCount, Fail, FailCheck, FailWrite, TellFailed, Check, Write, Tell, Goto
    <2> QED
      BY <2>2, <2>3
  <1>4. CASE KillerStep
    BY <1>4
    DEF KillerStep, KillerRemove, KillerCheck, KillerFail, TellFailed, Check, Write, Tell,
        Begin, Goto
  <1>5. ASSUME NEW u \in {"requeue", "boot"}, RestorerStep(u)
        PROVE  t = u
    BY <1>5
    DEF RestorerStep, Restore, RestoreCheck, RestoreWrite, Enqueue, EnqueueCheck,
        EnqueueWrite, EnqueueSend, Fail, FailCheck, FailWrite, TellFailed, Check, Write,
        Tell, Begin, Goto
  <1>6. CASE RollbackCheck \/ RollbackWrite
    BY <1>6 DEF RollbackCheck, RollbackWrite, Check, Write, Goto
  <1> QED
    BY <1>1, <1>2, <1>3, <1>4, <1>5, <1>6 DEF Next

\* Apart from taking a video, a worker keeps its own or has done with it.
LEMMA WorkerGoesOn ==
    ASSUME TypeOK, NEW w \in Workers, Worker(w), ~WorkerTake(w)
    PROVE  /\ queue' = queue
           /\ \A u \in Workers \ {w} : vid'[u] = vid[u]
           /\ vid'[w] \in {vid[w], NoVideo}
           /\ rows' = rows /\ at'["requeue"] = at["requeue"] /\ vid'["requeue"] = vid["requeue"]
  <1> /\ w \in Threads /\ vid \in [Threads -> Videos \cup {NoVideo}]
      /\ at \in [Threads -> Points] /\ "requeue" \in Threads /\ w # "requeue"
    BY PipelineAssumption DEF Threads, TypeOK
  <1> QED
    BY DEF Worker, WorkerLoad, WorkerClaimCheck, WorkerClaim, WorkerEncode, WorkerPublish,
           WorkerStumble, WorkerReadyCheck, WorkerReady, WorkerDescribe, WorkerFinish,
           WorkerCount, Fail, FailCheck, FailWrite, TellFailed, Check, Write, Tell, Goto,
           Threads, scans

\* What the hook and the recovery send is known to the queue neither as a waiting
\* video nor as a worker's, nor is the requeue job about to put it back.
LEMMA SentIsUnknown ==
    ASSUME Ordered, NEW t \in {"hook", "boot"}, at[t] = "send"
    PROVE  vid[t] \in Videos /\ ~Work!Known(vid[t]) /\ vid[t] \notin Overdue
  <1> /\ t \in Threads /\ t \notin Workers /\ Workers \subseteq Threads
      /\ "requeue" \in Threads
    BY PipelineAssumption DEF Threads
  <1> NoVideo \notin Videos /\ TypeOK /\ Phases /\ OneHolder /\ StatusFits
    BY PipelineAssumption DEF Ordered
  <1>1. vid[t] \in Videos /\ Busy(t) /\ ~Loose(t, vid[t])
    BY DEF TypeOK, Busy, Loose
  <1>2. vid[t] \notin Range(queue)
    BY <1>1 DEF OneHolder, Range
  <1>3. ASSUME NEW u \in Threads \ {t}, vid[u] = vid[t]
        PROVE  at[u] = "tell_processing" /\ u = "hook"
    <2>1. at[u] # "idle"
      BY <1>1, <1>3 DEF Phases
    <2>2. ~Busy(u)
      BY <1>1, <1>3 DEF OneHolder
    <2> QED
      BY <2>1, <2>2 DEF Busy, StatusFits, InPlace
  <1>4. \A w \in Workers : vid[w] # vid[t]
    BY <1>3, PipelineAssumption
  <1>5. vid[t] \notin Overdue
    <2>1. \A r \in rows["requeue"] : r.v # vid[t]
      BY <1>1 DEF OneHolder, FirmlyHeld
    <2>2. vid["requeue"] # vid[t]
      BY <1>3
    <2> QED
      BY <2>1, <2>2 DEF Overdue
  <1> QED
    BY <1>1, <1>2, <1>4, <1>5 DEF Work!Known, Work!Range, Range

\* A step of the requeue job keeps what is overdue, forgoes one or puts one back.
LEMMA RequeueGoesOn ==
    ASSUME Ordered, RestorerStep("requeue") \/ RollbackCheck \/ RollbackWrite
    PROVE  \/ queue' = queue /\ Overdue' = Overdue
           \/ /\ queue' = queue
              /\ \E v \in Overdue \cap Videos : Overdue' = Overdue \ {v}
           \/ LET v == vid["requeue"] IN
              /\ v \in Overdue \cap Videos /\ Overdue' = Overdue \ {v}
              /\ Len(queue) < QueueMaxSize /\ queue' = Append(queue, v)
  <1> DEFINE v == vid["requeue"]
             Selected == {r.v : r \in rows["requeue"]}
  <1> /\ "requeue" \in Threads /\ TypeOK /\ OneHolder
      /\ at \in [Threads -> Points] /\ vid \in [Threads -> Videos \cup {NoVideo}]
      /\ rows \in [{"requeue", "boot"} -> SUBSET Row]
    BY DEF Threads, Ordered, TypeOK
  <1>1. at["requeue"] # "idle" => v \in Videos /\ v \notin Selected
    BY DEF TypeOK, OneHolder
  <1>2. ASSUME NEW r \in rows["requeue"], Restore("requeue", r)
        PROVE  /\ queue' = queue
               /\ \/ Overdue' = Overdue
                  \/ \E x \in Overdue \cap Videos : Overdue' = Overdue \ {x}
    <2>1. /\ rows'["requeue"] = rows["requeue"] \ {r} /\ at["requeue"] = "idle"
          /\ at'["requeue"] \in {"enqueue?", "restore?", "fail?"}
          /\ vid'["requeue"] = r.v /\ queue' = queue
      BY <1>2 DEF Restore, Idle, Begin
    <2>2. r.v \in Videos /\ Overdue = Selected /\ r.v \in Selected
      BY <2>1 DEF Overdue, Requeuing, Row
    <2>3. {q.v : q \in rows'["requeue"]} = Selected \ {r.v}
      BY <2>1 DEF OneHolder
    <2>4. CASE at'["requeue"] = "fail?"
      <3>1. Overdue' = Selected \ {r.v}
        BY <2>3, <2>4 DEF Overdue, Requeuing
      <3> QED
        BY <2>1, <2>2, <3>1
    <2>5. CASE at'["requeue"] # "fail?"
      <3>1. Overdue' = (Selected \ {r.v}) \cup {r.v}
        BY <2>1, <2>3, <2>5 DEF Overdue, Requeuing
      <3> QED
        BY <2>1, <2>2, <3>1
    <2> QED
      BY <2>4, <2>5
  <1>3. ASSUME rows' = rows, at["requeue"] # "idle",
               vid'["requeue"] = v \/ at'["requeue"] \notin Requeuing
        PROVE  \/ Overdue' = Overdue
               \/ /\ v \in Overdue \cap Videos /\ Overdue' = Overdue \ {v}
                  /\ at["requeue"] \in Requeuing
               \/ at["requeue"] \notin Requeuing /\ at'["requeue"] \in Requeuing
    BY <1>1, <1>3 DEF Overdue
  <1>4. CASE RestoreCheck("requeue") \/ RestoreWrite("requeue") \/ EnqueueCheck("requeue")
             \/ EnqueueWrite("requeue") \/ Fail("requeue") \/ RollbackCheck \/ RollbackWrite
    <2>1. /\ queue' = queue /\ rows' = rows /\ at["requeue"] # "idle"
          /\ vid'["requeue"] = v \/ at'["requeue"] = "idle"
          /\ at["requeue"] \notin Requeuing => at'["requeue"] \notin Requeuing
      BY <1>4 DEF RestoreCheck, RestoreWrite, EnqueueCheck, EnqueueWrite, Fail, FailCheck,
                  FailWrite, TellFailed, RollbackCheck, RollbackWrite, Check, Write, Tell,
                  Goto, AfterRefusal, scans, Requeuing
    <2> QED
      BY <1>3, <2>1 DEF Requeuing
  <1>5. CASE EnqueueSend("requeue")
    <2>1. /\ rows' = rows /\ at["requeue"] = "send" /\ at'["requeue"] \in {"idle", "rollback?"}
          /\ \/ queue' = queue
             \/ Len(queue) < QueueMaxSize /\ queue' = Append(queue, v)
      BY <1>5 DEF EnqueueSend, Goto, AfterEnqueue, AfterRefusal, scans
    <2>2. v \in Overdue \cap Videos /\ Overdue' = Overdue \ {v}
      BY <1>1, <2>1 DEF Overdue, Requeuing
    <2> QED
      BY <2>1, <2>2
  <1> QED
    BY <1>2, <1>4, <1>5 DEF RestorerStep, Enqueue

LEMMA QueueStep ==
    ASSUME Ordered, [Next]_vars
    PROVE  [Work!Next]_(Work!vars)
  <1> DEFINE serving == [w \in Workers |-> vid[w]]
  <1> /\ Workers \subseteq Threads /\ TypeOK /\ NoVideo \notin Videos
      /\ "requeue" \in Threads /\ "requeue" \notin Workers
      /\ rows \in [{"requeue", "boot"} -> SUBSET Row]
      /\ at \in [Threads -> Points] /\ vid \in [Threads -> Videos \cup {NoVideo}]
    BY PipelineAssumption DEF Threads, Ordered, TypeOK
  <1>1. CASE Crash
    <2>1. queue' = << >> /\ serving' = [w \in Workers |-> NoVideo] /\ Overdue' = {}
      BY <1>1 DEF Crash, Overdue, Requeuing
    <2> QED
      BY <2>1 DEF Work!Next, Work!Lose
  <1>2. ASSUME NEW w \in Workers, WorkerTake(w)
        PROVE  Work!Take(w)
    <2>1. vid[w] = NoVideo
      BY <1>2 DEF WorkerTake, Idle, Ordered, Phases
    <2>2. /\ queue # << >> /\ queue' = Tail(queue) /\ rows' = rows
          /\ vid' = [vid EXCEPT ![w] = Head(queue)] /\ at' = [at EXCEPT ![w] = "load"]
      BY <1>2 DEF WorkerTake, Begin, scans
    <2>3. serving' = [serving EXCEPT ![w] = Head(queue)]
      BY <2>2
    <2>4. Overdue' = Overdue
      BY <2>2 DEF Overdue
    <2> QED
      BY <2>1, <2>2, <2>3, <2>4 DEF Work!Take
  <1>3. ASSUME NEW w \in Workers, Worker(w), ~WorkerTake(w)
        PROVE  Work!Done(w) \/ UNCHANGED << queue, serving, Overdue >>
    <2>1. /\ queue' = queue /\ vid'[w] \in {vid[w], NoVideo}
          /\ \A u \in Workers \ {w} : vid'[u] = vid[u]
          /\ rows' = rows /\ at'["requeue"] = at["requeue"] /\ vid'["requeue"] = vid["requeue"]
      BY <1>3, WorkerGoesOn
    <2>2. Overdue' = Overdue
      BY <2>1 DEF Overdue
    <2>3. CASE vid'[w] = vid[w]
      BY <2>1, <2>2, <2>3
    <2>4. CASE vid'[w] # vid[w]
      <3>1. serving' = [serving EXCEPT ![w] = NoVideo]
        BY <2>1, <2>4
      <3> QED
        BY <2>1, <2>2, <2>4, <3>1 DEF Work!Done
    <2> QED
      BY <2>3, <2>4
  <1>4. ASSUME ~Crash, \A w \in Workers : ~Worker(w)
        PROVE  serving' = serving
    BY <1>4, OnlyItMoves, PipelineAssumption
  <1>5. ASSUME NEW S \in SUBSET Videos, RequeueScan(S)
        PROVE  Work!TimeOut(S)
    <2>1. /\ rows["requeue"] = {} /\ at["requeue"] = "idle" /\ UNCHANGED << queue, at, vid >>
          /\ rows'["requeue"] = {Snapshot(v) : v \in S}
      BY <1>5 DEF RequeueScan, Idle
    <2>2. \A v \in S : Snapshot(v).v = v
      BY DEF Snapshot
    <2> HIDE DEF Snapshot
    <2>3. Overdue = {}
      BY <2>1 DEF Overdue, Requeuing
    <2>4. {r.v : r \in {Snapshot(v) : v \in S}} = S
      BY <2>2
    <2>5. Overdue' = {r.v : r \in rows'["requeue"]}
      BY <2>1 DEF Overdue, Requeuing
    <2>6. Overdue' = S
      BY <2>1, <2>4, <2>5
    <2> QED
      BY <2>1, <2>3, <2>6 DEF Work!TimeOut
  <1>6. CASE /\ RestorerStep("requeue") \/ RollbackCheck \/ RollbackWrite
             /\ ~Crash /\ \A w \in Workers : ~Worker(w)
    <2>1. serving' = serving
      BY <1>4, <1>6
    <2>2. CASE queue' = queue /\ Overdue' = Overdue
      BY <2>1, <2>2 DEF Work!vars
    <2>3. CASE /\ queue' = queue
               /\ \E v \in Overdue \cap Videos : Overdue' = Overdue \ {v}
      BY <2>1, <2>3 DEF Work!Next, Work!Forgo
    <2>4. CASE LET v == vid["requeue"] IN
               /\ v \in Overdue \cap Videos /\ Overdue' = Overdue \ {v}
               /\ Len(queue) < QueueMaxSize /\ queue' = Append(queue, v)
      BY <2>1, <2>4 DEF Work!Next, Work!Put
    <2> QED
      BY <1>6, <2>2, <2>3, <2>4, RequeueGoesOn
  <1>7. CASE /\ ~Crash /\ \A w \in Workers : ~Worker(w)
             /\ \A S \in SUBSET Videos : ~RequeueScan(S)
             /\ ~(RestorerStep("requeue") \/ RollbackCheck \/ RollbackWrite)
    <2>1. serving' = serving
      BY <1>4, <1>7
    <2>2. at'["requeue"] = at["requeue"] /\ vid'["requeue"] = vid["requeue"]
      BY <1>7, OnlyItMoves, PipelineAssumption
    <2>3. rows'["requeue"] = rows["requeue"]
      BY <1>7, RowWriters DEF Restore, RestorerStep, Boot
    <2>4. Overdue' = Overdue
      BY <2>2, <2>3 DEF Overdue
    <2>5. CASE queue' = queue
      BY <2>1, <2>4, <2>5 DEF Work!vars
    <2>6. CASE queue' # queue
      <3>1. PICK t \in {"hook", "boot"} : EnqueueSend(t)
        BY <1>7, <2>6, QueueWriters DEF Worker, RestorerStep, Enqueue, Enqueuers
      <3>2. /\ at[t] = "send" /\ Len(queue) < QueueMaxSize
            /\ queue' = Append(queue, vid[t])
        BY <2>6, <3>1 DEF EnqueueSend
      <3>3. vid[t] \in Videos /\ ~Work!Known(vid[t]) /\ Overdue' = Overdue \ {vid[t]}
        BY <2>4, <3>2, SentIsUnknown
      <3> QED
        BY <2>1, <3>2, <3>3 DEF Work!Next, Work!Put
    <2> QED
      BY <2>5, <2>6
  <1> QED
    BY <1>1, <1>2, <1>3, <1>5, <1>6, <1>7 DEF Work!Next, Work!vars

LEMMA QueueInit == Init => Work!Init
  BY DEF Init, Work!Init, Threads, Overdue, Requeuing

\* When no timeout runs out between two statements, however long videos wait and are
\* encoded, the channel and its workers implement WorkQueue: the hook and the recovery
\* put there only what is nowhere in it, the requeue job puts a video once for each
\* timeout, and workers take the oldest (Queue.Enqueue, Queue.Start, runOnce).
THEOREM ImplementsWorkQueue ==
    ASSUME Orderly
    PROVE  Spec => QueuesPerTimeout
  <1>1. Ordered /\ [Next]_vars => [Work!Next]_(Work!vars)
    BY QueueStep
  <1> QED
    BY <1>1, QueueInit, OrderIsKept, PTL DEF Spec, QueuesPerTimeout, Work!Spec

-----------------------------------------------------------------------------
(* What was told of quick videos.                                          *)

\* The steps that write a file, tell something, or make a video ready.
LEMMA FileWriters ==
    ASSUME [Next]_vars, file' # file
    PROVE  \/ \E v \in Videos :
                  TusCreate(v) \/ TusChunk(v) \/ TusFinish(v) \/ TusTerminate(v) \/ KillerRemove(v)
           \/ \E w \in Workers : WorkerFinish(w)
           \/ HookDiscard
  BY DEF Next, Client, Hook, HookProgress, HookComplete, HookTouch, HookSetCompleteCheck,
         HookSetComplete, HookTellProcessing, HookRejectCheck, HookReject, Enqueue,
         EnqueueCheck, EnqueueWrite, EnqueueSend, Worker, WorkerTake, WorkerLoad,
         WorkerClaimCheck, WorkerClaim, WorkerEncode, WorkerPublish, WorkerStumble,
         WorkerReadyCheck, WorkerReady, WorkerDescribe, WorkerCount, Fail, FailCheck,
         FailWrite, TellFailed, KillerStep, KillerCheck, KillerFail, RestorerStep, Restore,
         RestoreCheck, RestoreWrite, RollbackCheck, RollbackWrite, Scans, KillerScan,
         RequeueScan, Crash, Boot, Serve, Check, Write, Tell, vars, disk

LEMMA Tellers ==
    ASSUME [Next]_vars, told' # told
    PROVE  \/ \E w \in Workers : WorkerFinish(w)
           \/ HookTellProcessing
           \/ \E t \in Threads : TellFailed(t)
  BY DEF Next, Client, TusCreate, TusChunk, TusFinish, TusTerminate, Hook, HookProgress,
         HookComplete,
         HookTouch, HookSetCompleteCheck, HookSetComplete, HookRejectCheck, HookReject,
         HookDiscard, Enqueue, EnqueueCheck, EnqueueWrite, EnqueueSend, Worker, WorkerTake,
         WorkerLoad, WorkerClaimCheck, WorkerClaim, WorkerEncode, WorkerPublish,
         WorkerStumble, WorkerReadyCheck, WorkerReady, WorkerDescribe, WorkerCount, Fail,
         FailCheck, FailWrite, KillerStep, KillerRemove, KillerCheck, KillerFail,
         RestorerStep, Restore, RestoreCheck, RestoreWrite, RollbackCheck, RollbackWrite,
         Scans, KillerScan, RequeueScan, Crash, Boot, Serve, Check, Write, vars, Threads

LEMMA ReadyWriters ==
    ASSUME TypeOK, [Next]_vars, NEW v \in Videos, status[v] # "ready", status'[v] = "ready"
    PROVE  \E w \in Workers : at[w] = "ready!" /\ vid[w] = v
  <1> status \in [Videos -> Statuses]
    BY DEF TypeOK
  <1> QED
    BY DEF Next, Client, TusCreate, TusChunk, TusFinish, TusTerminate, Hook, HookProgress,
           HookComplete,
           HookTouch, HookSetCompleteCheck, HookSetComplete, HookTellProcessing,
           HookRejectCheck, HookReject, HookDiscard, Enqueue, EnqueueCheck, EnqueueWrite,
           EnqueueSend, Worker, WorkerTake, WorkerLoad, WorkerClaimCheck, WorkerClaim,
           WorkerEncode, WorkerPublish, WorkerStumble, WorkerReadyCheck, WorkerReady,
           WorkerDescribe, WorkerFinish, WorkerCount, Fail, FailCheck, FailWrite,
           TellFailed, KillerStep, KillerRemove, KillerCheck, KillerFail, RestorerStep,
           Restore, RestoreCheck, RestoreWrite, RollbackCheck, RollbackWrite, Scans,
           KillerScan, RequeueScan, Crash, Boot, Serve, Check, Write, Tell, vars, db

\* How a thread comes to tell of a failure.
LEMMA TellsFailed ==
    ASSUME TypeOK, [Next]_vars, NEW t \in Threads, at'[t] = "tell_failed"
    PROVE  /\ vid'[t] = vid[t]
           /\ \/ at[t] = "tell_failed"
              \/ t = "hook" /\ HookDiscard
              \/ t = "killer" /\ KillerFail
              \/ FailWrite(t) \/ FailCheck(t)
  <1> at \in [Threads -> Points] /\ vid \in [Threads -> Videos \cup {NoVideo}]
    BY DEF TypeOK
  <1> QED
    BY PipelineAssumption
    DEF Next, Client, TusCreate, TusChunk, TusFinish, TusTerminate, Hook, HookProgress,
        HookComplete,
        HookTouch, HookSetCompleteCheck, HookSetComplete, HookTellProcessing,
        HookRejectCheck, HookReject, HookDiscard, Enqueue, EnqueueCheck, EnqueueWrite,
        EnqueueSend, AfterEnqueue, AfterRefusal, Worker, WorkerTake, WorkerLoad,
        WorkerClaimCheck, WorkerClaim, WorkerEncode, WorkerPublish, WorkerStumble,
        WorkerReadyCheck, WorkerReady, WorkerDescribe, WorkerFinish, WorkerCount, Fail,
        FailCheck, FailWrite, TellFailed, KillerStep, KillerRemove, KillerCheck, KillerFail,
        RestorerStep, Restore, RestoreCheck, RestoreWrite, RollbackCheck, RollbackWrite,
        Scans, KillerScan, RequeueScan, Crash, Boot, Serve, Check, Write, Tell, Begin,
        Goto, vars, Threads

\* How a worker comes to publish and to set ready.
LEMMA Publishes ==
    ASSUME TypeOK, [Next]_vars, NEW t \in Threads, at'[t] \in {"publish", "ready?", "ready!"}
    PROVE  /\ vid'[t] = vid[t] /\ at[t] # "idle"
           /\ at[t] \in {"publish", "ready?", "ready!"} \/ (at[t] = "encode" /\ WorkerEncode(t))
  <1> at \in [Threads -> Points] /\ vid \in [Threads -> Videos \cup {NoVideo}]
    BY DEF TypeOK
  <1> QED
    BY PipelineAssumption
    DEF Next, Client, TusCreate, TusChunk, TusFinish, TusTerminate, Hook, HookProgress,
        HookComplete,
        HookTouch, HookSetCompleteCheck, HookSetComplete, HookTellProcessing,
        HookRejectCheck, HookReject, HookDiscard, Enqueue, EnqueueCheck, EnqueueWrite,
        EnqueueSend, AfterEnqueue, AfterRefusal, Worker, WorkerTake, WorkerLoad,
        WorkerClaimCheck, WorkerClaim, WorkerEncode, WorkerPublish, WorkerStumble,
        WorkerReadyCheck, WorkerReady, WorkerDescribe, WorkerFinish, WorkerCount, Fail,
        FailCheck, FailWrite, TellFailed, KillerStep, KillerRemove, KillerCheck, KillerFail,
        RestorerStep, Restore, RestoreCheck, RestoreWrite, RollbackCheck, RollbackWrite,
        Scans, KillerScan, RequeueScan, Crash, Boot, Serve, Check, Write, Tell, Begin,
        Goto, vars, Threads

\* A failed quick video, or one that has lost its original, never becomes ready.
LEMMA GoneStays ==
    ASSUME Orderly, Ordered, TypeOK', [Next]_vars, NEW v \in Quick,
           status[v] \in Failed \/ Lost(v)
    PROVE  status'[v] \in Failed \/ Lost(v)'
  <1> /\ status \in [Videos -> Statuses] /\ file \in [Videos -> Contents]
      /\ v \in Videos /\ TypeOK /\ TypeOK'
    BY PipelineAssumption DEF Ordered, TypeOK
  <1>1. status'[v] = status[v] \/ IsValidTransition(status[v], status'[v])
    BY StatusStep
  <1>2. CASE status[v] \in Failed
    BY <1>1, <1>2 DEF Failed, IsValidTransition, ValidTransitions, Statuses
  <1>3. CASE Lost(v)
    <2>1. status'[v] # "ready"
      BY <1>3, ReadyWriters DEF Lost, Threads
    <2>2. status'[v] \in {"upload_complete", "transcoding", "failed_transcode"}
      BY <1>1, <1>3, <2>1 DEF Lost, IsValidTransition, ValidTransitions, Statuses
    <2>3. file'[v] = "none"
      <3>1. ASSUME NEW x \in Videos,
                   \/ TusCreate(x) \/ TusChunk(x) \/ TusFinish(x)
                   \/ TusTerminate(x) \/ KillerRemove(x)
            PROVE  file'[v] = "none"
        BY <1>3, <3>1
        DEF Lost, TusCreate, TusChunk, TusFinish, TusTerminate, KillerRemove, ClientPresent
      <3>2. ASSUME NEW w \in Workers, WorkerFinish(w)
            PROVE  file'[v] = "none"
        BY <1>3, <3>2 DEF Lost, WorkerFinish
      <3>3. CASE HookDiscard
        BY <1>3, <3>3 DEF Lost, HookDiscard
      <3> QED
        BY <1>3, <3>1, <3>2, <3>3, FileWriters DEF Lost
    <2>4. ASSUME NEW t \in Threads, vid'[t] = v
          PROVE  at'[t] \notin {"publish", "ready?", "ready!"}
      BY <1>3, <2>4, Publishes DEF Lost, WorkerEncode
    <2> QED
      BY <2>2, <2>3, <2>4 DEF Lost, Failed
  <1> QED
    BY <1>2, <1>3

LEMMA ToldStep ==
    ASSUME Orderly, Ordered, TypeOK', ToldFits, [Next]_vars
    PROVE  ToldFits'
  <1> /\ status \in [Videos -> Statuses] /\ file \in [Videos -> Contents]
      /\ told \in [Videos -> SUBSET {"processing", "ready", "failed"}]
      /\ \A t \in Threads : at[t] # "idle" => vid[t] \in Videos
      /\ StatusFits /\ OneHolder /\ TypeOK /\ Quick \subseteq Videos
      /\ "hook" \in Threads /\ "hook" \notin Workers \cup {"requeue"}
    BY PipelineAssumption DEF Ordered, TypeOK, Threads
  <1>1. \A v \in Quick : status'[v] = status[v] \/ IsValidTransition(status[v], status'[v])
    BY StatusStep
  <1>2. ASSUME NEW v \in Quick, "ready" \in told'[v]
        PROVE  status'[v] = "ready"
    <2>1. status[v] = "ready"
      <3>1. ASSUME NEW w \in Workers, WorkerFinish(w), "ready" \notin told[v]
            PROVE  status[v] = "ready"
        <4>1. vid[w] = v /\ at[w] = "finish" /\ w \in Threads
          BY <1>2, <3>1 DEF WorkerFinish, Threads
        <4>2. FitsAt(w, v, "finish", status[v])
          BY <4>1 DEF StatusFits
        <4> QED
          BY <4>2 DEF FitsAt, Loose, StatusesAt
      <3>2. CASE HookTellProcessing \/ \E t \in Threads : TellFailed(t)
        BY <1>2, <3>2 DEF HookTellProcessing, TellFailed, Tell, ToldFits
      <3> QED
        BY <1>2, <3>1, <3>2, Tellers DEF ToldFits
    <2> QED
      BY <1>1, <2>1 DEF IsValidTransition, ValidTransitions, Statuses
  <1>3. ASSUME NEW v \in Quick, "failed" \in told'[v]
        PROVE  status'[v] \in Failed \/ Lost(v)'
    <2>1. status[v] \in Failed \/ Lost(v)
      <3>1. CASE HookTellProcessing \/ \E w \in Workers : WorkerFinish(w)
        BY <1>3, <3>1 DEF HookTellProcessing, Tell, WorkerFinish, ToldFits
      <3>2. CASE \E t \in Threads : TellFailed(t)
        BY <1>3, <3>2 DEF TellFailed, Tell, ToldFits
      <3> QED
        BY <1>3, <3>1, <3>2, Tellers DEF ToldFits
    <2> QED
      BY <2>1, GoneStays
  <1>4. ASSUME NEW t \in Threads, at'[t] = "tell_failed", vid'[t] \in Quick
        PROVE  (status[vid[t]] \in Failed \/ Lost(vid[t]))'
    <2>1. vid'[t] = vid[t] /\ vid[t] \in Quick /\ ~Loose(t, vid[t])
      BY <1>4, TellsFailed DEF TypeOK, Loose
    <2>2. CASE at[t] = "tell_failed"
      BY <2>1, <2>2, GoneStays DEF ToldFits
    <2>3. CASE t = "hook" /\ HookDiscard
      <3>1. at["hook"] = "discard" /\ status' = status /\ file'[vid["hook"]] = "none"
        BY <2>1, <2>3 DEF HookDiscard, db
      <3>2. status[vid["hook"]] \in {"failed_upload", "transcoding"}
        BY <2>1, <2>3, <3>1 DEF StatusFits, FitsAt, StatusesAt
      <3>3. ASSUME NEW u \in Threads, vid'[u] = vid["hook"],
                   at'[u] \in {"publish", "ready?", "ready!"}
            PROVE  FALSE
        <4>1. vid[u] = vid["hook"] /\ u # "hook" /\ Busy(u)
          BY <2>3, <3>1, <3>3, Publishes DEF Busy, StatusFits, InPlace, WorkerEncode
        <4> QED
          BY <2>1, <2>3, <3>1, <4>1 DEF OneHolder, Busy
      <3> QED
        BY <2>1, <2>3, <3>1, <3>2, <3>3 DEF Lost, Failed
    <2>4. CASE KillerFail /\ t = "killer"
      BY <2>1, <2>4 DEF KillerFail, Write, Failed
    <2>5. CASE FailWrite(t)
      BY <2>1, <2>5 DEF FailWrite, Write, Failed
    <2>6. CASE FailCheck(t)
      <3>1. at[t] = "fail?" /\ status[vid[t]] = "transcoding"
        BY <2>1, <2>6 DEF FailCheck, Check, StatusFits, FitsAt, StatusesAt
      <3>2. at'[t] = "fail!"
        BY <2>6, <3>1 DEF FailCheck, Check, Goto, TypeOK, IsValidTransition,
                          ValidTransitions, Statuses
      <3> QED
        BY <1>4, <3>2
    <2> QED
      BY <1>4, <2>2, <2>3, <2>4, <2>5, <2>6, TellsFailed
  <1> QED
    BY <1>2, <1>3, <1>4 DEF ToldFits

LEMMA ToldInit == Init => ToldFits
  BY PipelineAssumption DEF Init, ToldFits, Threads

LEMMA ToldFitsAgrees == ToldFits => ToldAgrees
  BY DEF ToldFits, ToldAgrees, Failed, Lost

\* With orderly timeouts and clients "ready" is told of a quick video only when it is
\* and stays ready, and "failed" only when it never becomes so (notify.go's callers:
\* HandlePostFinish, Transcode, handleTranscodeFailure, the jobs).
THEOREM WhatIsToldAgrees ==
    ASSUME Orderly
    PROVE  Spec => []ToldAgrees
  <1>1. Init => ToldFits
    BY ToldInit
  <1>2. Ordered /\ ToldFits /\ TypeOK' /\ [Next]_vars => ToldFits'
    BY ToldStep
  <1>3. ToldFits => ToldAgrees
    BY ToldFitsAgrees
  <1> QED
    BY <1>1, <1>2, <1>3, OrderIsKept, TypeCorrect, PTL DEF Spec

\* A failure that is told of a quick video and not recorded is of one that has lost its
\* original, which no worker reads any more: such a video never becomes ready.
FailedIsRecordedOrLost ==
    \A v \in Quick : "failed" \in told[v] => status[v] \in Failed \/ Lost(v)

THEOREM ToldFailuresAreFinal ==
    ASSUME Orderly
    PROVE  Spec => []FailedIsRecordedOrLost
  <1>1. Ordered /\ ToldFits /\ TypeOK' /\ [Next]_vars => ToldFits'
    BY ToldStep
  <1>2. ToldFits => FailedIsRecordedOrLost
    BY DEF ToldFits, FailedIsRecordedOrLost
  <1> QED
    BY <1>1, <1>2, ToldInit, OrderIsKept, TypeCorrect, PTL DEF Spec

-----------------------------------------------------------------------------
(* The recovery, whatever the timeouts and the clients do.                 *)

\* Outside the running phase only the recovery and the process itself act.
LEMMA OnlyTheRecovery ==
    ASSUME TypeOK, Phases, [Next]_vars, phase # "running"
    PROVE  RestorerStep("boot") \/ Crash \/ Boot \/ Serve \/ UNCHANGED vars
  <1> /\ \A t \in Threads \ {"boot"} : at[t] = "idle"
      /\ rows["requeue"] = {} /\ idleRows = {} /\ progressEv = {} /\ completeEv = {}
    BY DEF Phases
  <1> {"hook", "killer", "requeue"} \cup Workers \subseteq Threads \ {"boot"}
    BY PipelineAssumption DEF Threads
  <1>1. ~Client /\ ~Scans
    BY DEF Client, TusCreate, TusChunk, TusFinish, TusTerminate, Scans, KillerScan, RequeueScan
  <1>2. ~Hook
    BY DEF Hook, HookProgress, HookComplete, HookTouch, HookSetCompleteCheck,
           HookSetComplete, HookTellProcessing, HookRejectCheck, HookReject, HookDiscard,
           Enqueue, EnqueueCheck, EnqueueWrite, EnqueueSend, TellFailed, Check, Write, Tell
  <1>3. \A w \in Workers : ~Worker(w)
    BY DEF Worker, WorkerTake, WorkerLoad, WorkerClaimCheck, WorkerClaim, WorkerEncode,
           WorkerPublish, WorkerStumble, WorkerReadyCheck, WorkerReady, WorkerDescribe,
           WorkerFinish, WorkerCount, Fail, FailCheck, FailWrite, TellFailed, Check,
           Write, Tell
  <1>4. ~KillerStep
    BY DEF KillerStep, KillerRemove, KillerCheck, KillerFail, TellFailed, Check, Write, Tell
  <1>5. ~RestorerStep("requeue") /\ ~RollbackCheck /\ ~RollbackWrite
    BY DEF RestorerStep, Restore, RestoreCheck, RestoreWrite, Enqueue, EnqueueCheck,
           EnqueueWrite, EnqueueSend, Fail, FailCheck, FailWrite, TellFailed,
           RollbackCheck, RollbackWrite, Check, Write, Tell
  <1> QED
    BY <1>1, <1>2, <1>3, <1>4, <1>5 DEF Next

\* A step of one thread that leaves the process in its phase.
LEMMA RunningStep ==
    ASSUME TypeOK, Phases, [Next]_vars, phase = "running"
    PROVE  Phases'
  <1> /\ at \in [Threads -> Points] /\ vid \in [Threads -> Videos \cup {NoVideo}]
      /\ rows \in [{"requeue", "boot"} -> SUBSET Row]
      /\ at["boot"] = "idle" /\ rows["boot"] = {}
      /\ \A t \in Threads : at[t] = "idle" => vid[t] = NoVideo
    BY DEF TypeOK, Phases
  <1> {"hook", "killer", "requeue", "boot"} \subseteq Threads /\ Workers \subseteq Threads
    BY DEF Threads
  <1> "boot" \notin Workers
    BY PipelineAssumption
  <1> SUFFICES /\ phase' \in {"running", "down"}
               /\ at'["boot"] = "idle" /\ rows'["boot"] = {}
               /\ \A t \in Threads : at'[t] = "idle" => vid'[t] = NoVideo
               /\ phase' = "down" =>
                    /\ \A t \in Threads : at'[t] = "idle"
                    /\ rows'["requeue"] = {} /\ idleRows' = {} /\ queue' = << >>
                    /\ progressEv' = {} /\ completeEv' = {}
    BY DEF Phases
  <1>1. CASE Client \/ Scans \/ Serve \/ Boot \/ UNCHANGED vars
    BY <1>1 DEF Client, TusCreate, TusChunk, TusFinish, TusTerminate, Scans, KillerScan,
                RequeueScan,
                Serve, Boot, vars, process, scans
  <1>2. CASE Crash
    BY <1>2 DEF Crash
  <1>3. CASE Hook
    BY <1>3
    DEF Hook, HookProgress, HookComplete, HookTouch, HookSetCompleteCheck,
        HookSetComplete, HookTellProcessing, HookRejectCheck, HookReject, HookDiscard,
        Enqueue, EnqueueCheck, EnqueueWrite, EnqueueSend, AfterEnqueue, AfterRefusal,
        TellFailed, Check, Write, Tell, Goto, Begin, process, scans
  <1>4. ASSUME NEW w \in Workers, Worker(w)
        PROVE  /\ phase' = "running" /\ at'["boot"] = "idle" /\ rows'["boot"] = {}
               /\ \A t \in Threads : at'[t] = "idle" => vid'[t] = NoVideo
    BY <1>4
    DEF Worker, WorkerTake, WorkerLoad, WorkerClaimCheck, WorkerClaim, WorkerEncode,
        WorkerPublish, WorkerStumble, WorkerReadyCheck, WorkerReady, WorkerDescribe,
        WorkerFinish, WorkerCount, Fail, FailCheck, FailWrite, TellFailed, Check,
        Write, Tell, Goto, Begin, process, scans
  <1>5. CASE KillerStep
    BY <1>5
    DEF KillerStep, KillerRemove, KillerCheck, KillerFail, TellFailed, Check, Write, Tell,
        Goto, Begin, process, scans
  <1>6. CASE RestorerStep("requeue") \/ RollbackCheck \/ RollbackWrite
    BY <1>6
    DEF RestorerStep, Restore, RestoreCheck, RestoreWrite, Enqueue, EnqueueCheck,
        EnqueueWrite, EnqueueSend, AfterEnqueue, AfterRefusal, Fail, FailCheck, FailWrite,
        TellFailed, RollbackCheck, RollbackWrite, Check, Write, Tell, Goto, Begin,
        process, scans
  <1>7. ~RestorerStep("boot")
    BY DEF RestorerStep, Restore, RestoreCheck, RestoreWrite, Enqueue, EnqueueCheck,
           EnqueueWrite, EnqueueSend, Fail, FailCheck, FailWrite, TellFailed,
           Check, Write, Tell
  <1> QED
    BY <1>1, <1>2, <1>3, <1>4, <1>5, <1>6, <1>7 DEF Next

\* The recovery goes on with its video, or leaves it where it need not look again.
LEMMA RecoveryAdvances ==
    ASSUME Recovering, TypeOK', phase = "recovering", Advances("boot"),
           at'["boot"] \in {"idle", "restore!", "enqueue?", "enqueue!", "send", "fail!",
                            "tell_failed"},
           at'["boot"] # "idle" => status'[vid["boot"]] \in StatusesAt(at'["boot"]),
           at'["boot"] = "tell_failed" => status'[vid["boot"]] = "failed_transcode",
           at'["boot"] = "idle" =>
               \/ status'[vid["boot"]] \notin {"upload_complete", "transcoding"}
               \/ Len(queue) = QueueMaxSize
    PROVE  Recovering'
  <1> /\ "boot" \in Threads /\ NoVideo \notin Videos
      /\ rows \in [{"requeue", "boot"} -> SUBSET Row] /\ TypeOK /\ Phases
      /\ vid["boot"] \in Videos /\ at["boot"] # "idle"
      /\ \A v \in Videos : status[v] \in {"upload_complete", "transcoding"} => InSight(v)
    BY PipelineAssumption DEF Threads, Recovering, TypeOK, Advances, Busy
  <1> /\ UNCHANGED << phase, queue, rows, idleRows, progressEv, completeEv >>
      /\ \A u \in Threads \ {"boot"} : at'[u] = at[u] /\ vid'[u] = vid[u]
      /\ vid'["boot"] = IF at'["boot"] = "idle" THEN NoVideo ELSE vid["boot"]
      /\ \A v \in Videos \ {vid["boot"]} : status'[v] = status[v]
    BY DEF Advances
  <1>1. Phases'
    BY DEF Phases
  <1>2. \A r \in rows["boot"] : r.v \in Videos /\ r.v # vid["boot"] /\ status[r.v] = r.s
    BY DEF Recovering, Row
  <1>3. \A r \in rows'["boot"] :
            /\ status'[r.v] = r.s /\ vid'["boot"] # r.v
            /\ \A q \in rows'["boot"] : q.v = r.v => q = r
    BY <1>2 DEF Recovering
  <1>4. \A v \in Videos : status'[v] \in {"upload_complete", "transcoding"} => InSight(v)'
    <2> SUFFICES ASSUME NEW v \in Videos, status'[v] \in {"upload_complete", "transcoding"}
                 PROVE  InSight(v)'
      OBVIOUS
    <2>1. CASE v # vid["boot"]
      BY <2>1 DEF InSight
    <2>2. CASE v = vid["boot"]
      BY <2>2 DEF InSight
    <2> QED
      BY <2>1, <2>2
  <1> QED
    BY <1>1, <1>3, <1>4 DEF Recovering

LEMMA RecoveryGoesOn ==
    ASSUME Recovering, TypeOK', phase = "recovering",
           RestoreCheck("boot") \/ RestoreWrite("boot") \/ EnqueueCheck("boot")
           \/ EnqueueWrite("boot") \/ Fail("boot")
    PROVE  Recovering'
  <1> "boot" \in Threads /\ "boot" \notin Workers /\ TypeOK
    BY PipelineAssumption DEF Threads, Recovering
  <1> USE DEF Points, Statuses
  <1>1. /\ at["boot"] # "idle" => status[vid["boot"]] \in StatusesAt(at["boot"])
        /\ at["boot"] = "tell_failed" => status[vid["boot"]] = "failed_transcode"
    BY DEF Recovering
  <1>2. CASE RestoreCheck("boot")
    <2>1. /\ Advances("boot") /\ at["boot"] = "restore?" /\ status' = status
          /\ at'["boot"] = IF IsValidTransition(status[vid["boot"]], "upload_complete")
                           THEN "restore!" ELSE "idle"
      BY <1>2, CheckAdvances DEF RestoreCheck
    <2>2. status[vid["boot"]] = "transcoding"
      BY <2>1, <1>1 DEF StatusesAt
    <2> QED
      BY <2>1, <2>2, RecoveryAdvances DEF IsValidTransition, ValidTransitions, StatusesAt
  <1>3. CASE RestoreWrite("boot")
    <2>1. /\ Advances("boot") /\ at'["boot"] = "enqueue?"
          /\ status'[vid["boot"]] = "upload_complete"
      BY <1>3, WriteAdvances DEF RestoreWrite
    <2> QED
      BY <2>1, RecoveryAdvances DEF StatusesAt
  <1>4. CASE EnqueueCheck("boot")
    <2>1. /\ Advances("boot") /\ at["boot"] = "enqueue?" /\ status' = status
          /\ at'["boot"] = IF IsValidTransition(status[vid["boot"]], "transcoding")
                           THEN "enqueue!" ELSE "idle"
      BY <1>4, CheckAdvances DEF EnqueueCheck, AfterRefusal
    <2>2. status[vid["boot"]] = "upload_complete"
      BY <2>1, <1>1 DEF StatusesAt
    <2> QED
      BY <2>1, <2>2, RecoveryAdvances DEF IsValidTransition, ValidTransitions, StatusesAt
  <1>5. CASE EnqueueWrite("boot")
    <2>1. /\ Advances("boot") /\ at'["boot"] = "send"
          /\ status'[vid["boot"]] = "transcoding"
      BY <1>5, WriteAdvances DEF EnqueueWrite
    <2> QED
      BY <2>1, RecoveryAdvances DEF StatusesAt
  <1>6. CASE FailCheck("boot")
    <2>1. /\ Advances("boot") /\ at["boot"] = "fail?" /\ status' = status
          /\ at'["boot"] = IF IsValidTransition(status[vid["boot"]], "failed_transcode")
                           THEN "fail!" ELSE "idle"
      BY <1>6, CheckAdvances DEF FailCheck
    <2>2. status[vid["boot"]] = "transcoding"
      BY <2>1, <1>1 DEF StatusesAt
    <2> QED
      BY <2>1, <2>2, RecoveryAdvances DEF IsValidTransition, ValidTransitions, StatusesAt
  <1>7. CASE FailWrite("boot")
    <2>1. /\ Advances("boot") /\ at'["boot"] = "tell_failed"
          /\ status'[vid["boot"]] = "failed_transcode"
      BY <1>7, WriteAdvances DEF FailWrite
    <2> QED
      BY <2>1, RecoveryAdvances DEF StatusesAt
  <1>8. CASE TellFailed("boot")
    <2>1. /\ Advances("boot") /\ at["boot"] = "tell_failed" /\ at'["boot"] = "idle"
          /\ status' = status
      BY <1>8, TellAdvances DEF TellFailed
    <2> QED
      BY <2>1, <1>1, RecoveryAdvances
  <1> QED
    BY <1>2, <1>3, <1>4, <1>5, <1>6, <1>7, <1>8 DEF Fail

LEMMA RecoverySends ==
    ASSUME Recovering, TypeOK', phase = "recovering", EnqueueSend("boot")
    PROVE  Recovering'
  <1> /\ "boot" \in Threads /\ NoVideo \notin Videos /\ QueueMaxSize \in Nat
      /\ rows \in [{"requeue", "boot"} -> SUBSET Row] /\ TypeOK /\ Phases
      /\ queue \in Seq(Videos) /\ Len(queue) <= QueueMaxSize
      /\ vid["boot"] \in Videos /\ at["boot"] = "send"
      /\ \A v \in Videos : status[v] \in {"upload_complete", "transcoding"} => InSight(v)
    BY PipelineAssumption DEF Threads, Recovering, TypeOK, EnqueueSend
  <1>1. /\ UNCHANGED << phase, status, file, rows, idleRows, progressEv, completeEv >>
        /\ \A u \in Threads \ {"boot"} : at'[u] = at[u] /\ vid'[u] = vid[u]
        /\ at'["boot"] = "idle" /\ vid'["boot"] = NoVideo
    BY DEF EnqueueSend, Goto, AfterEnqueue, AfterRefusal, process, db, disk, scans, tus,
           TypeOK
  <1>2. CASE Len(queue) < QueueMaxSize
    <2>1. queue' = Append(queue, vid["boot"])
      BY <1>2 DEF EnqueueSend
    <2>2. \A v \in Range(queue) \cup {vid["boot"]} : v \in Range(queue')
      <3>1. /\ DOMAIN queue = 1..Len(queue) /\ DOMAIN queue' = 1..(Len(queue) + 1)
            /\ Len(queue) \in Nat
            /\ \A i \in DOMAIN queue : queue'[i] = queue[i]
            /\ queue'[Len(queue) + 1] = vid["boot"]
        BY <2>1
      <3> QED
        BY <3>1 DEF Range
    <2>3. \A v \in Videos : InSight(v) => InSight(v)'
      BY <1>1, <1>2, <2>2 DEF InSight
    <2>4. Phases'
      BY <1>1 DEF Phases
    <2>5. \A r \in rows'["boot"] :
              /\ status'[r.v] = r.s /\ vid'["boot"] # r.v
              /\ \A q \in rows'["boot"] : q.v = r.v => q = r
      BY <1>1 DEF Recovering, Row
    <2> QED
      BY <1>1, <2>3, <2>4, <2>5 DEF Recovering
  <1>3. CASE ~(Len(queue) < QueueMaxSize)
    <2>1. Len(queue) = QueueMaxSize /\ queue' = queue
      BY <1>3 DEF EnqueueSend
    <2>2. Advances("boot")
      BY <1>1, <2>1 DEF Advances, Busy
    <2> QED
      BY <1>1, <2>1, <2>2, RecoveryAdvances
  <1> QED
    BY <1>2, <1>3

LEMMA RecoveryTakes ==
    ASSUME Recovering, TypeOK', phase = "recovering",
           NEW r \in rows["boot"], Restore("boot", r)
    PROVE  Recovering'
  <1> /\ "boot" \in Threads /\ TypeOK /\ Phases
      /\ rows \in [{"requeue", "boot"} -> SUBSET Row] /\ r \in Row
      /\ \A v \in Videos : status[v] \in {"upload_complete", "transcoding"} => InSight(v)
      /\ rows' = [rows EXCEPT !["boot"] = @ \ {r}]
    BY DEF Threads, Recovering, TypeOK, Restore
  <1> r.v \in Videos /\ \A q \in rows["boot"] : q.v \in Videos
    BY DEF Row
  <1>1. PICK p \in {"enqueue?", "restore?", "fail?"} :
          /\ at' = [at EXCEPT !["boot"] = p] /\ vid' = [vid EXCEPT !["boot"] = r.v]
          /\ p = "enqueue?" <=> r.s = "upload_complete"
    BY DEF Restore, Begin
  <1>2. /\ UNCHANGED << phase, status, queue, idleRows, progressEv, completeEv >>
        /\ r.s \in {"upload_complete", "transcoding"} /\ status[r.v] = r.s
        /\ at["boot"] = "idle" /\ vid["boot"] = NoVideo
    BY DEF Restore, Idle, Recovering, Phases, Row, process, disk, tus
  <1>3. /\ at'["boot"] = p /\ vid'["boot"] = r.v
        /\ \A u \in Threads \ {"boot"} : at'[u] = at[u] /\ vid'[u] = vid[u]
    BY <1>1 DEF TypeOK
  <1>4. Phases'
    BY <1>2, <1>3 DEF Phases
  <1>5. \A q \in rows'["boot"] :
            /\ status'[q.v] = q.s /\ vid'["boot"] # q.v
            /\ \A x \in rows'["boot"] : x.v = q.v => x = q
    BY <1>2, <1>3 DEF Recovering
  <1>6. \A v \in Videos : InSight(v) => InSight(v)'
    BY <1>2, <1>3, PipelineAssumption DEF InSight
  <1>7. status'[vid'["boot"]] \in StatusesAt(p)
    BY <1>1, <1>2, <1>3 DEF StatusesAt
  <1> QED
    BY <1>2, <1>3, <1>4, <1>5, <1>6, <1>7 DEF Recovering

LEMMA RecoveringStep ==
    ASSUME Recovering, TypeOK', [Next]_vars
    PROVE  Recovering'
  <1> /\ "boot" \in Threads /\ TypeOK /\ Phases
      /\ rows \in [{"requeue", "boot"} -> SUBSET Row]
      /\ status \in [Videos -> Statuses] /\ attempts \in [Videos -> Nat]
    BY DEF Threads, Recovering, TypeOK
  <1>1. CASE phase = "running"
    <2>1. Phases'
      BY <1>1, RunningStep
    <2>2. phase' # "recovering"
      <3>1. ~Boot /\ ~Serve
        BY <1>1 DEF Boot, Serve
      <3>2. CASE Crash
        BY <3>2 DEF Crash
      <3>3. CASE ~Crash
        <4>1. phase' = phase
          BY <3>1, <3>3
          DEF Next, Client, TusCreate, TusChunk, TusFinish, TusTerminate, Hook,
              HookProgress, HookComplete,
              HookTouch, HookSetCompleteCheck, HookSetComplete, HookTellProcessing,
              HookRejectCheck, HookReject, HookDiscard, Enqueue, EnqueueCheck, EnqueueWrite,
              EnqueueSend, Worker, WorkerTake, WorkerLoad, WorkerClaimCheck, WorkerClaim,
              WorkerEncode, WorkerPublish, WorkerStumble, WorkerReadyCheck, WorkerReady,
              WorkerDescribe, WorkerFinish, WorkerCount, Fail, FailCheck, FailWrite,
              TellFailed, KillerStep, KillerRemove, KillerCheck, KillerFail, RestorerStep,
              Restore, RestoreCheck, RestoreWrite, RollbackCheck, RollbackWrite, Scans,
              KillerScan, RequeueScan, Check, Write, Tell, vars, process
        <4> QED
          BY <1>1, <4>1
      <3> QED
        BY <3>2, <3>3
    <2> QED
      BY <2>1, <2>2 DEF Recovering
  <1>2. CASE phase # "running" /\ Crash
    BY <1>2 DEF Crash, Recovering, Phases
  <1>3. CASE phase # "running" /\ UNCHANGED vars
    BY <1>3 DEF vars, Recovering, Phases, InSight
  <1>4. CASE phase # "running" /\ Serve
    BY <1>4 DEF Serve, Idle, Recovering, Phases, db, disk, scans, tus
  <1>5. CASE phase # "running" /\ Boot
    <2>1. /\ \A t \in Threads : at[t] = "idle" /\ vid[t] = NoVideo
          /\ phase' = "recovering" /\ UNCHANGED << status, queue, idleRows, at, vid, tus >>
          /\ rows' = [rows EXCEPT !["boot"] =
                         {Snapshot(v) : v \in
                             {x \in Videos : status[x] \in {"upload_complete", "transcoding"}}}]
      BY <1>5 DEF Boot, Phases, db
    <2>2. Phases'
      BY <1>5, <2>1 DEF Boot, Phases, tus
    <2>3. \A r \in rows'["boot"] : \E v \in Videos :
             r.v = v /\ r.s = status[v] /\ r.a = attempts[v] /\ r = Snapshot(v)
      BY <2>1 DEF Snapshot
    <2>4. \A v \in Videos : status[v] \in {"upload_complete", "transcoding"} =>
             \E r \in rows'["boot"] : r.v = v
      <3> SUFFICES ASSUME NEW v \in Videos, status[v] \in {"upload_complete", "transcoding"}
                   PROVE  \E r \in rows'["boot"] : r.v = v
        OBVIOUS
      <3>1. Snapshot(v) \in rows'["boot"]
        BY <2>1
      <3>2. Snapshot(v).v = v
        BY DEF Snapshot
      <3> QED
        BY <3>1, <3>2
    <2>5. \A r \in rows'["boot"] :
              /\ status'[r.v] = r.s /\ vid'["boot"] # r.v
              /\ \A q \in rows'["boot"] : q.v = r.v => q = r
      BY <2>1, <2>3, PipelineAssumption
    <2>6. \A v \in Videos : status'[v] \in {"upload_complete", "transcoding"} => InSight(v)'
      BY <2>1, <2>4 DEF InSight
    <2>7. at'["boot"] = "idle"
      BY <2>1
    <2> QED
      BY <2>2, <2>5, <2>6, <2>7 DEF Recovering
  <1>6. CASE phase # "running" /\ RestorerStep("boot")
    <2>1. phase = "recovering"
      BY <1>6 DEF Phases, RestorerStep, Restore, RestoreCheck, RestoreWrite, Enqueue,
                  EnqueueCheck, EnqueueWrite, EnqueueSend, Fail, FailCheck, FailWrite,
                  TellFailed, Check, Write, Tell, TypeOK
    <2> QED
      BY <1>6, <2>1, RecoveryGoesOn, RecoverySends, RecoveryTakes DEF RestorerStep, Enqueue
  <1> QED
    BY <1>1, <1>2, <1>3, <1>4, <1>5, <1>6, OnlyTheRecovery

\* The step that ends the recovery, whatever else the process may do.
LEMMA HandsOver ==
    ASSUME Recovering, [Next]_vars, phase = "recovering", phase' = "running",
           NEW v \in Videos, status[v] \in {"upload_complete", "transcoding"}
    PROVE  v \in Range(queue) \/ Len(queue) = QueueMaxSize
  <1>1. Serve
    <2>1. ~Crash /\ ~Boot /\ ~UNCHANGED vars
      BY DEF Crash, Boot, vars
    <2>2. ~RestorerStep("boot")
      BY DEF RestorerStep, Restore, RestoreCheck, RestoreWrite, Enqueue, EnqueueCheck,
             EnqueueWrite, EnqueueSend, Fail, FailCheck, FailWrite, TellFailed, Check,
             Write, Tell, process
    <2> QED
      BY <2>1, <2>2, OnlyTheRecovery DEF Recovering
  <1> QED
    BY <1>1, PipelineAssumption DEF Serve, Idle, Recovering, InSight, Phases, Threads

\* When the recovery hands over to the workers every unfinished video is in the
\* queue, or the queue is full (RunStartupRecovery, main).
THEOREM RecoveryLeavesNothing == Spec => RecoveryIsComplete
  <1>1. Init => Recovering
    BY InitType, PipelineAssumption DEF Init, Recovering, Phases, Threads
  <1>2. Recovering /\ TypeOK' /\ [Next]_vars => Recovering'
    BY RecoveringStep
  <1>3. Recovering /\ [Next]_vars =>
          (phase = "recovering" /\ phase' = "running" =>
              \A v \in Videos : status[v] \in {"upload_complete", "transcoding"} =>
                  v \in Range(queue) \/ Len(queue) = QueueMaxSize)
    BY HandsOver
  <1> QED
    BY <1>1, <1>2, <1>3, TypeCorrect, PTL DEF Spec, RecoveryIsComplete
=============================================================================
