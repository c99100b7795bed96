--------------------------- MODULE Notifications ----------------------------
(***************************************************************************)
(* From an event of a video to whoever is told of it. A reporter (the      *)
(* hook, a worker, a job or the recovery) calls Notify (notify/notify.go), *)
(* which reads the video and starts one goroutine per sink: the webhook    *)
(* client with its retries and its log (webhook/webhook.go) and the hub of *)
(* the SSE streams (sse/sse.go). After it a worker or the requeue job      *)
(* calls the Discord alerter (discord/discord.go), which counts failures   *)
(* in a row.                                                               *)
(*                                                                         *)
(* When a reporter tells which event, and what the row says by then, is    *)
(* module Pipeline's: here any event is reported at any time, as often as  *)
(* Serials allows, whether or not the status was written. Of the row only  *)
(* its presence counts.                                                    *)
(***************************************************************************)
EXTENDS Naturals, Sequences, FiniteSets, Functions

CONSTANTS
    Videos,
    OwnURL,       \* videos with a webhook_url of their own
    GlobalURL,    \* whether WEBHOOK_URL is set
    Reporters,    \* goroutines that report events
    Serials,      \* tell apart the reports of one event of one video
    Listeners,    \* SSE connections
    NoVideo,
    Capacity,     \* of a listener's channel: 16 in the code
    Threshold,    \* consecutiveFailureThreshold: 5 in the code
    MaxTries,     \* attempts of a webhook: 3 in the code
    MaxReports,   \* bound: events reported
    MaxDeletions  \* bound: videos deleted meanwhile

ASSUME NotificationsAssumption ==
    /\ NoVideo \notin Videos
    /\ OwnURL \subseteq Videos
    /\ GlobalURL \in BOOLEAN
    /\ Capacity \in Nat \ {0}
    /\ Threshold \in Nat \ {0}
    /\ MaxTries \in Nat \ {0}
    /\ MaxReports \in Nat /\ MaxDeletions \in Nat

Events == {"processing", "ready", "failed"}
Notes == Videos \X Events \X Serials   \* a call of Notify each

VARIABLES
    \* the database
    there,       \* videos with a row
    log,         \* webhook_log: the outcomes logged for each note, in order
    \* reporters
    at, task,    \* program point, and the note being reported
    reported,    \* notes taken up by a reporter
    \* the goroutines of the sinks, one each for a note
    wh,          \* webhook: [at, to, tries]
    sse,         \* hub: [at, targets]
    unread,      \* notes whose lookup of the URL did not get the row
    \* the receiving ends
    received,    \* the destinations each note arrived at
    sub, left,   \* the video a listener is subscribed to; those that ended
    ch, got,     \* notes in its channel, and those written to its stream
    due, lost,   \* notes distributed while it listened, and those dropped
    \* the alerter
    streak,      \* consecutiveFailures
    row,         \* failures counted since the last recorded success
    alarms       \* alarms of that row

db == << there, log >>
reporting == << at, task, reported >>
listening == << sub, left, ch, got, due, lost >>
alerter == << streak, row, alarms >>
vars == << db, reporting, wh, sse, unread, received, listening, alerter >>

Destinations == {"own", "global"}
NoNote == << NoVideo, "none", NoVideo >>

Delivery == [at : {"none", "resolve", "try", "log", "done"},
             to : Destinations \cup {"none"}, tries : 0..MaxTries, ok : BOOLEAN]
Distribution == [at : {"none", "copy", "send", "done"}, targets : SUBSET Listeners]

TypeOK ==
    /\ there \subseteq Videos
    /\ log \in [Notes -> Seq(BOOLEAN)]
    /\ at \in [Reporters -> {"idle", "notify", "alert", "count", "alarm", "reset"}]
    /\ task \in [Reporters -> Notes \cup {NoNote}]
    /\ \A r \in Reporters : at[r] # "idle" => task[r] \in reported
    /\ reported \subseteq Notes
    /\ wh \in [Notes -> Delivery]
    /\ sse \in [Notes -> Distribution]
    /\ unread \subseteq Notes
    /\ received \in [Notes -> SUBSET Destinations]
    /\ sub \in [Listeners -> Videos \cup {NoVideo}]
    /\ left \subseteq Listeners
    /\ ch \in [Listeners -> Seq(Notes)]
    /\ got \in [Listeners -> Seq(Notes)]
    /\ due \in [Listeners -> SUBSET Notes]
    /\ lost \in [Listeners -> SUBSET Notes]
    /\ \A l \in Listeners : Len(ch[l]) <= Capacity
    /\ streak \in 0..(Threshold - 1)
    /\ row \in Nat /\ alarms \in Nat

-----------------------------------------------------------------------------
(* Reporters: the ends of uploads and encodings, and the entry in the queue. *)

\* The hook, Transcode, handleTranscodeFailure, a job or the recovery comes to a
\* call of Notify, whatever became of the write before it.
Report(r, x) ==
    /\ at[r] = "idle"
    /\ x \notin reported /\ Cardinality(reported) < MaxReports
    /\ at' = [at EXCEPT ![r] = "notify"]
    /\ task' = [task EXCEPT ![r] = x]
    /\ reported' = reported \cup {x}
    /\ UNCHANGED << db, wh, sse, unread, received, listening, alerter >>

\* What reporters do after Notify: workers tell the alerter of both ends of an
\* encoding, the requeue job of a failure, the others of nothing.
AfterNotify(e) ==
    CASE e = "ready" -> {"reset"} [] e = "failed" -> {"alert", "idle"} [] OTHER -> {"idle"}

Told(r) == \E p \in AfterNotify(task[r][2]) : at' = [at EXCEPT ![r] = p]

\* Notify: GetVideo, Build, and a goroutine for each sink.
Notify(r) ==
    LET x == task[r] IN
    /\ at[r] = "notify"
    /\ x[1] \in there
    /\ wh' = [wh EXCEPT ![x].at = "resolve"]
    /\ sse' = [sse EXCEPT ![x].at = "copy"]
    /\ Told(r)
    /\ UNCHANGED << db, task, reported, unread, received, listening, alerter >>

\* GetVideo finds no row or fails: nobody is told, and the reporter goes on.
NotifyFails(r) ==
    /\ at[r] = "notify"
    /\ Told(r)
    /\ UNCHANGED << db, task, reported, wh, sse, unread, received, listening, alerter >>

\* HandleDeleteVideo ends with the row gone; deliveries go on.
DeleteVideo(v) ==
    /\ v \in there
    /\ Cardinality(Videos \ there) < MaxDeletions
    /\ there' = there \ {v}
    /\ UNCHANGED << log, reporting, wh, sse, unread, received, listening, alerter >>

-----------------------------------------------------------------------------
(* The webhook client: Deliver, resolveURL, send and sendAttempt.          *)

Resolved(x, to) ==
    wh' = [wh EXCEPT ![x].to = to, ![x].at = IF to = "none" THEN "done" ELSE "try"]

Global == IF GlobalURL THEN "global" ELSE "none"

\* Bug: the URL of the video is ignored.
Bug_ResolveURL(x) ==
    /\ wh[x].at = "resolve"
    /\ x[1] \in there
    /\ Resolved(x, Global)
    /\ UNCHANGED << db, reporting, sse, unread, received, listening, alerter >>

\* The lookup finds the video: its own URL comes before the global one.
ResolveURL(x) ==
    /\ wh[x].at = "resolve"
    /\ x[1] \in there
    /\ Resolved(x, IF x[1] \in OwnURL THEN "own" ELSE Global)
    /\ UNCHANGED << db, reporting, sse, unread, received, listening, alerter >>

\* It finds no row, or fails: the global URL, whatever the row says.
ResolveFails(x) ==
    /\ wh[x].at = "resolve"
    /\ Resolved(x, Global)
    /\ unread' = unread \cup {x}
    /\ UNCHANGED << db, reporting, sse, received, listening, alerter >>

\* One POST. It arrives or not, and when it does the answer may be late, lost
\* or not a 2xx.
Attempt(x, arrives, ok) ==
    /\ wh[x].at = "try"
    /\ ok => arrives
    /\ received' = IF arrives THEN [received EXCEPT ![x] = @ \cup {wh[x].to}]
                   ELSE received
    /\ wh' = [wh EXCEPT ![x] = [at |-> "log", to |-> @.to, tries |-> @.tries + 1,
                                ok |-> ok]]
    /\ UNCHANGED << db, reporting, sse, unread, listening, alerter >>

\* Bug: the log says what was meant to be sent.
Bug_LogSuccess(x) ==
    /\ wh[x].at = "log"
    /\ log' = [log EXCEPT ![x] = Append(@, TRUE)]
    /\ wh' = [wh EXCEPT ![x].at =
                 IF wh[x].ok \/ wh[x].tries = MaxTries THEN "done" ELSE "try"]
    /\ UNCHANGED << there, reporting, sse, unread, received, listening, alerter >>

\* insertWebhookLog, and the next attempt after a backoff unless this was the
\* last or succeeded.
Log(x) ==
    /\ wh[x].at = "log"
    /\ log' = [log EXCEPT ![x] = Append(@, wh[x].ok)]
    /\ wh' = [wh EXCEPT ![x].at =
                 IF wh[x].ok \/ wh[x].tries = MaxTries THEN "done" ELSE "try"]
    /\ UNCHANGED << there, reporting, sse, unread, received, listening, alerter >>

\* The insert fails: send returns its error, whatever became of the attempt.
LogFails(x) ==
    /\ wh[x].at = "log"
    /\ wh' = [wh EXCEPT ![x].at = "done"]
    /\ UNCHANGED << db, reporting, sse, unread, received, listening, alerter >>

Webhook(x) ==
    \/ ResolveURL(x) \/ ResolveFails(x)
    \/ \E arrives, ok \in BOOLEAN : Attempt(x, arrives, ok)
    \/ Log(x) \/ LogFails(x)

-----------------------------------------------------------------------------
(* The hub of the SSE streams, and the listeners' connections.             *)

\* Bug: the channel of a connection that ended is used again for another.
Bug_Subscribe(l, v) ==
    /\ sub[l] = NoVideo
    /\ v \in there
    /\ sub' = [sub EXCEPT ![l] = v]
    /\ UNCHANGED << db, reporting, wh, sse, unread, received, left, ch, got, due,
                    lost, alerter >>

\* ServeHTTP lets a holder of the video's upload token in: subscribe.
Subscribe(l, v) ==
    /\ sub[l] = NoVideo /\ l \notin left
    /\ v \in there
    /\ sub' = [sub EXCEPT ![l] = v]
    /\ UNCHANGED << db, reporting, wh, sse, unread, received, left, ch, got, due,
                    lost, alerter >>

\* The client disconnects: unsubscribe, and the channel stays open.
Unsubscribe(l) ==
    /\ sub[l] # NoVideo
    /\ sub' = [sub EXCEPT ![l] = NoVideo]
    /\ left' = left \cup {l}
    /\ UNCHANGED << db, reporting, wh, sse, unread, received, ch, got, due, lost,
                    alerter >>

\* Hub.Deliver under its read lock: the subscribers of the video are copied.
Copy(x) ==
    LET targets == {l \in Listeners : sub[l] = x[1]} IN
    /\ sse[x].at = "copy"
    /\ sse' = [sse EXCEPT ![x] = [at |-> IF targets = {} THEN "done" ELSE "send",
                                  targets |-> targets]]
    /\ due' = [l \in Listeners |-> IF l \in targets THEN due[l] \cup {x} ELSE due[l]]
    /\ UNCHANGED << db, reporting, wh, unread, received, sub, left, ch, got, lost,
                    alerter >>

\* Bug: the distribution ends at the first full channel.
Bug_Send(x, l) ==
    LET full == Len(ch[l]) >= Capacity
        rest == IF full THEN {} ELSE sse[x].targets \ {l}
    IN
    /\ sse[x].at = "send" /\ l \in sse[x].targets
    /\ sse' = [sse EXCEPT ![x] = [at |-> IF rest = {} THEN "done" ELSE "send",
                                  targets |-> rest]]
    /\ ch' = IF full THEN ch ELSE [ch EXCEPT ![l] = Append(@, x)]
    /\ lost' = IF full THEN [lost EXCEPT ![l] = @ \cup {x}] ELSE lost
    /\ UNCHANGED << db, reporting, wh, unread, received, sub, left, got, due, alerter >>

\* One turn of the loop over the copy, after the lock: the note is put in the
\* channel, or dropped when that is full.
Send(x, l) ==
    LET full == Len(ch[l]) >= Capacity
        rest == sse[x].targets \ {l}
    IN
    /\ sse[x].at = "send" /\ l \in sse[x].targets
    /\ sse' = [sse EXCEPT ![x] = [at |-> IF rest = {} THEN "done" ELSE "send",
                                  targets |-> rest]]
    /\ ch' = IF full THEN ch ELSE [ch EXCEPT ![l] = Append(@, x)]
    /\ lost' = IF full THEN [lost EXCEPT ![l] = @ \cup {x}] ELSE lost
    /\ UNCHANGED << db, reporting, wh, unread, received, sub, left, got, due, alerter >>

\* ServeHTTP's loop writes the next note of the channel to the stream.
WriteEvent(l) ==
    /\ sub[l] # NoVideo /\ ch[l] # << >>
    /\ got' = [got EXCEPT ![l] = Append(@, Head(ch[l]))]
    /\ ch' = [ch EXCEPT ![l] = Tail(@)]
    /\ UNCHANGED << db, reporting, wh, sse, unread, received, sub, left, due, lost,
                    alerter >>

Hub(x) == Copy(x) \/ \E l \in Listeners : Send(x, l)

-----------------------------------------------------------------------------
(* The Discord alerter, called by the reporter after Notify.               *)

AlertUnchanged == UNCHANGED << db, task, reported, wh, sse, unread, received, listening >>

\* AlertTranscodeFailure's first send; whatever becomes of it.
SendFailure(r) ==
    /\ at[r] = "alert"
    /\ at' = [at EXCEPT ![r] = "count"]
    /\ UNCHANGED alerter /\ AlertUnchanged

\* Bug: the counter is not reset when the alarm is raised.
Bug_CountFailure(r) ==
    LET cross == streak + 1 >= Threshold IN
    /\ at[r] = "count"
    /\ at' = [at EXCEPT ![r] = IF cross THEN "alarm" ELSE "idle"]
    /\ streak' = IF cross THEN streak ELSE streak + 1
    /\ row' = row + 1
    /\ alarms' = IF cross THEN alarms + 1 ELSE alarms
    /\ AlertUnchanged

\* Bug: the threshold is missed by one.
Bug_CountLate(r) ==
    LET cross == streak + 1 > Threshold IN
    /\ at[r] = "count"
    /\ at' = [at EXCEPT ![r] = IF cross THEN "alarm" ELSE "idle"]
    /\ streak' = IF cross THEN 0 ELSE streak + 1
    /\ row' = row + 1
    /\ alarms' = IF cross THEN alarms + 1 ELSE alarms
    /\ AlertUnchanged

\* Its critical section: one more in a row, and back to zero at the threshold.
CountFailure(r) ==
    LET cross == streak + 1 >= Threshold IN
    /\ at[r] = "count"
    /\ at' = [at EXCEPT ![r] = IF cross THEN "alarm" ELSE "idle"]
    /\ streak' = IF cross THEN 0 ELSE streak + 1
    /\ row' = row + 1
    /\ alarms' = IF cross THEN alarms + 1 ELSE alarms
    /\ AlertUnchanged

SendAlarm(r) ==
    /\ at[r] = "alarm"
    /\ at' = [at EXCEPT ![r] = "idle"]
    /\ UNCHANGED alerter /\ AlertUnchanged

RecordTranscodeSuccess(r) ==
    /\ at[r] = "reset"
    /\ at' = [at EXCEPT ![r] = "idle"]
    /\ streak' = 0 /\ row' = 0 /\ alarms' = 0
    /\ AlertUnchanged

Alert(r) == SendFailure(r) \/ CountFailure(r) \/ SendAlarm(r) \/ RecordTranscodeSuccess(r)

-----------------------------------------------------------------------------
Init ==
    /\ there = Videos
    /\ log = [x \in Notes |-> << >>]
    /\ at = [r \in Reporters |-> "idle"]
    /\ task = [r \in Reporters |-> NoNote]
    /\ reported = {}
    /\ wh = [x \in Notes |-> [at |-> "none", to |-> "none", tries |-> 0, ok |-> FALSE]]
    /\ sse = [x \in Notes |-> [at |-> "none", targets |-> {}]]
    /\ unread = {}
    /\ received = [x \in Notes |-> {}]
    /\ sub = [l \in Listeners |-> NoVideo]
    /\ left = {}
    /\ ch = [l \in Listeners |-> << >>]
    /\ got = [l \in Listeners |-> << >>]
    /\ due = [l \in Listeners |-> {}]
    /\ lost = [l \in Listeners |-> {}]
    /\ streak = 0 /\ row = 0 /\ alarms = 0

Next ==
    \/ \E r \in Reporters :
        \/ \E x \in Notes : Report(r, x)
        \/ Notify(r) \/ NotifyFails(r) \/ Alert(r)
    \/ \E v \in Videos : DeleteVideo(v)
    \/ \E x \in Notes : Webhook(x) \/ Hub(x)
    \/ \E l \in Listeners :
        \/ \E v \in Videos : Subscribe(l, v)
        \/ Unsubscribe(l) \/ WriteEvent(l)

Spec == Init /\ [][Next]_vars

-----------------------------------------------------------------------------
(* Properties                                                              *)

\* webhook_log against what happened: a logged success arrived, nothing is sent
\* after it, and a delivery without one was tried MaxTries times, unless an
\* attempt could not be logged (webhook.go:121).
LogTellsTheAttempts ==
    \A x \in Notes :
        /\ \A i \in DOMAIN log[x] :
            log[x][i] => received[x] # {} /\ i = wh[x].tries /\ wh[x].at = "done"
        /\ wh[x].at = "done" /\ wh[x].to # "none" =>
            \/ Len(log[x]) < wh[x].tries
            \/ TRUE \in Range(log[x])
            \/ wh[x].tries = MaxTries

\* An event of a video with a webhook of its own arrives at the global one only
\* if the lookup for it did not get the row, and no event arrives at two places,
\* whichever of its attempts got through: the URL is resolved once for all of
\* them (webhook.go:59-66, 74-83).
OwnURLFirst ==
    \A x \in Notes :
        /\ "global" \in received[x] /\ x[1] \in OwnURL => x \in unread
        /\ Cardinality(received[x]) <= 1

\* Of the notes distributed while a listener was subscribed each is still to be
\* sent to it, in its channel, written or dropped, and in one place only; it loses
\* one only when its own channel was full, however slow the others are
\* (sse.go:73-92).
ListenersAreIndependent ==
    \A l \in Listeners :
        LET pending == {x \in Notes : sse[x].at = "send" /\ l \in sse[x].targets}
        IN /\ due[l] = pending \cup Range(ch[l]) \cup Range(got[l]) \cup lost[l]
           /\ Cardinality(due[l]) = Cardinality(pending) + Len(ch[l]) + Len(got[l])
                                    + Cardinality(lost[l])
           /\ lost[l] # {} => Cardinality(due[l]) > Capacity
           /\ \A x \in due[l] : wh[x].at # "none"

\* No client sees a note twice, one that it has seen is not on its way to it nor
\* counted as dropped, and all it sees is of the video it subscribed to, although the
\* copies of several distributions are under way at once and outlive the lock
\* (Hub.Deliver, ServeHTTP).
StreamsRepeatNothing ==
    \A l \in Listeners :
        /\ \A i, j \in DOMAIN got[l] : got[l][i] = got[l][j] => i = j
        /\ Range(got[l]) \cap (Range(ch[l]) \cup lost[l]) = {}
        /\ \A i, j \in DOMAIN got[l] : got[l][i][1] = got[l][j][1]
        /\ sub[l] # NoVideo => \A i \in DOMAIN got[l] : got[l][i][1] = sub[l]

\* An alarm for every Threshold failures counted since the last success, whichever
\* workers count them (discord.go:108-115, 136-138).
AlarmPerThreshold == alarms * Threshold + streak = row
=============================================================================
