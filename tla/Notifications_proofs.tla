------------------------- MODULE Notifications_proofs ------------------------
(***************************************************************************)
(* Proofs about module Notifications, for every number of videos,          *)
(* reporters and listeners, and every threshold and number of tries.       *)
(***************************************************************************)
EXTENDS Notifications, FiniteSetTheorems, TLAPS

-----------------------------------------------------------------------------
(* The alerter.                                                            *)

\* The inductive invariant: the counter stays below the threshold.
Counted ==
    /\ streak \in 0..(Threshold - 1) /\ row \in Nat /\ alarms \in Nat
    /\ AlarmPerThreshold

LEMMA OneMoreAlarm ==
    ASSUME NEW a \in Nat, NEW t \in Nat
    PROVE  (a + 1) * t = a * t + t /\ a * t \in Nat /\ 0 * t = 0
  OBVIOUS

LEMMA CountingOn ==
    ASSUME Counted, [Next]_vars
    PROVE  Counted'
  <1>0. Threshold \in Nat /\ Threshold >= 1
    BY NotificationsAssumption
  <1>1. ASSUME NEW r \in Reporters, CountFailure(r)
        PROVE  Counted'
    <2>1. CASE streak + 1 >= Threshold
      <3>1. streak' = 0 /\ row' = row + 1 /\ alarms' = alarms + 1 /\ streak + 1 = Threshold
        BY <1>0, <1>1, <2>1 DEF CountFailure, Counted
      <3>2. alarms' * Threshold = alarms * Threshold + Threshold
        BY <1>0, <3>1, OneMoreAlarm DEF Counted
      <3> QED
        BY <1>0, <3>1, <3>2, OneMoreAlarm DEF Counted, AlarmPerThreshold
    <2>2. CASE ~(streak + 1 >= Threshold)
      <3>1. streak' = streak + 1 /\ row' = row + 1 /\ alarms' = alarms
        BY <1>1, <2>2 DEF CountFailure
      <3> QED
        BY <1>0, <2>2, <3>1, OneMoreAlarm DEF Counted, AlarmPerThreshold
    <2> QED
      BY <2>1, <2>2
  <1>2. ASSUME NEW r \in Reporters, RecordTranscodeSuccess(r)
        PROVE  Counted'
    BY <1>0, <1>2, OneMoreAlarm DEF RecordTranscodeSuccess, Counted, AlarmPerThreshold
  <1>3. CASE UNCHANGED alerter
    BY <1>3 DEF alerter, Counted, AlarmPerThreshold
  <1>4. ASSUME NEW r \in Reporters, Alert(r)
        PROVE  Counted'
    BY <1>1, <1>2, <1>3, <1>4 DEF Alert, SendFailure, SendAlarm
  <1>5. CASE \/ \E r \in Reporters :
                  \/ \E x \in Notes : Report(r, x)
                  \/ Notify(r) \/ NotifyFails(r)
             \/ \E v \in Videos : DeleteVideo(v)
             \/ \E x \in Notes : Webhook(x) \/ Hub(x)
             \/ \E l \in Listeners :
                  \/ \E v \in Videos : Subscribe(l, v)
                  \/ Unsubscribe(l) \/ WriteEvent(l)
             \/ UNCHANGED vars
    <2>1. UNCHANGED alerter
      BY <1>5
      DEF Report, Notify, NotifyFails, DeleteVideo, Webhook, ResolveURL, ResolveFails,
          Attempt, Log, LogFails, Hub, Copy, Send, Subscribe, Unsubscribe, WriteEvent, vars
    <2> QED
      BY <1>3, <2>1
  <1> QED
    BY <1>4, <1>5 DEF Next

\* An alarm is raised for every Threshold failures since the last success, for every
\* threshold and every number of workers (discord.go).
THEOREM AlarmsKeepCount == Spec => []AlarmPerThreshold
  <1>1. Init => Counted
    BY NotificationsAssumption, OneMoreAlarm DEF Init, Counted, AlarmPerThreshold
  <1> QED
    BY <1>1, CountingOn, PTL DEF Spec, Counted

-----------------------------------------------------------------------------
(* Reporters, and what a step leaves of them.                              *)

\* A reporter that is not idle has a note that it took up.
Reporting ==
    /\ there \subseteq Videos
    /\ at \in [Reporters -> {"idle", "notify", "alert", "count", "alarm", "reset"}]
    /\ task \in [Reporters -> Notes \cup {NoNote}]
    /\ \A r \in Reporters : at[r] # "idle" => task[r] \in reported
    /\ reported \subseteq Notes

\* What follows Notify does not call it again.
LEMMA ToldGoesOn ==
    ASSUME NEW r \in Reporters, Reporting, Told(r), at[r] = "notify"
    PROVE  /\ at' \in [Reporters -> {"idle", "notify", "alert", "count", "alarm", "reset"}]
           /\ at'[r] # "notify"
           /\ \A p \in Reporters \ {r} : at'[p] = at[p]
           /\ \A p \in Reporters : at'[p] # "idle" => task[p] \in reported
  <1>1. PICK q \in AfterNotify(task[r][2]) : at' = [at EXCEPT ![r] = q]
    BY DEF Told
  <1>2. q \in {"idle", "alert", "reset"}
    BY <1>1 DEF AfterNotify
  <1> QED
    BY <1>1, <1>2 DEF Reporting

LEMMA ReportingStays ==
    ASSUME Reporting, [Next]_vars
    PROVE  Reporting'
  <1>1. ASSUME NEW r \in Reporters, NEW x \in Notes, Report(r, x)
        PROVE  Reporting'
    BY <1>1 DEF Report, Reporting, db
  <1>2. ASSUME NEW r \in Reporters, Notify(r) \/ NotifyFails(r)
        PROVE  Reporting'
    <2>1. Told(r) /\ at[r] = "notify" /\ UNCHANGED << there, task, reported >>
      BY <1>2 DEF Notify, NotifyFails, db
    <2> QED
      BY <2>1, ToldGoesOn DEF Reporting
  <1>3. ASSUME NEW v \in Videos, DeleteVideo(v)
        PROVE  Reporting'
    BY <1>3 DEF DeleteVideo, Reporting, reporting
  <1>4. ASSUME NEW r \in Reporters, Alert(r)
        PROVE  Reporting'
    BY <1>4 DEF Alert, SendFailure, CountFailure, SendAlarm, RecordTranscodeSuccess,
                AlertUnchanged, db, Reporting
  <1>5. CASE \/ \E x \in Notes : Webhook(x) \/ Hub(x)
             \/ \E l \in Listeners :
                  \/ \E v \in Videos : Subscribe(l, v)
                  \/ Unsubscribe(l) \/ WriteEvent(l)
             \/ UNCHANGED vars
    <2>1. UNCHANGED << there, at, task, reported >>
      BY <1>5
      DEF Webhook, ResolveURL, ResolveFails, Attempt, Log, LogFails, Hub, Copy, Send,
          Subscribe, Unsubscribe, WriteEvent, vars, db, reporting
    <2> QED
      BY <2>1 DEF Reporting
  <1> QED
    BY <1>1, <1>2, <1>3, <1>4, <1>5 DEF Next

-----------------------------------------------------------------------------
(* Deliveries to webhooks.                                                 *)

NoneSucceeded(x) == \A i \in DOMAIN log[x] : ~log[x][i]

\* The delivery of note x at each of its program points: what it has sent, where,
\* and what the log says of it.
Accounted(x) ==
    /\ received[x] \subseteq {wh[x].to}
    /\ wh[x].at \in {"none", "resolve"} =>
         log[x] = << >> /\ wh[x].tries = 0 /\ received[x] = {}
    /\ wh[x].at \notin {"none", "resolve"} /\ wh[x].to = "global" /\ x[1] \in OwnURL =>
         x \in unread
    /\ wh[x].at \in {"try", "log"} => wh[x].to # "none"
    /\ wh[x].at = "try" =>
         wh[x].tries < MaxTries /\ Len(log[x]) = wh[x].tries /\ NoneSucceeded(x)
    /\ wh[x].at = "log" =>
         /\ Len(log[x]) = wh[x].tries - 1 /\ NoneSucceeded(x)
         /\ wh[x].ok => received[x] # {}
    /\ wh[x].at = "done" =>
         /\ \A i \in DOMAIN log[x] : log[x][i] => received[x] # {} /\ i = wh[x].tries
         /\ wh[x].to # "none" =>
              Len(log[x]) < wh[x].tries \/ TRUE \in Range(log[x]) \/ wh[x].tries = MaxTries

DeliveryTypes ==
    /\ unread \subseteq Notes
    /\ wh \in [Notes -> Delivery]
    /\ log \in [Notes -> Seq(BOOLEAN)]
    /\ received \in [Notes -> SUBSET Destinations]

\* No two reporters have the same note, and a delivery is begun once.
BegunOnce ==
    /\ \A r \in Reporters : at[r] = "notify" => wh[task[r]].at = "none"
    /\ \A r, q \in Reporters :
         at[r] = "notify" /\ at[q] = "notify" /\ task[r] = task[q] => r = q
    /\ \A x \in Notes : wh[x].at # "none" => x \in reported

\* The inductive invariant.
DeliveriesAccounted ==
    /\ Reporting
    /\ DeliveryTypes
    /\ BegunOnce
    /\ \A x \in Notes : Accounted(x)

\* The delivery of a note is as accounted for while nothing of it changes.
LEMMA AccountedFrame ==
    ASSUME NEW x \in Notes, Accounted(x), wh'[x] = wh[x], log'[x] = log[x],
           received'[x] = received[x], x \in unread => x \in unread'
    PROVE  Accounted(x)'
  <1>1. NoneSucceeded(x) => NoneSucceeded(x)'
    BY DEF NoneSucceeded
  <1>2. Range(log'[x]) = Range(log[x])
    OBVIOUS
  <1>3. CASE wh[x].at = "done"
    <2>1. /\ \A i \in DOMAIN log'[x] : log'[x][i] => received'[x] # {} /\ i = wh'[x].tries
          /\ wh'[x].to # "none" =>
               Len(log'[x]) < wh'[x].tries \/ TRUE \in Range(log'[x]) \/ wh'[x].tries = MaxTries
      BY <1>2, <1>3 DEF Accounted
    <2> QED
      BY <1>3, <2>1 DEF Accounted
  <1>4. CASE wh[x].at # "done"
    BY <1>1, <1>4 DEF Accounted
  <1> QED
    BY <1>3, <1>4

LEMMA WebhookStays ==
    ASSUME DeliveriesAccounted, NEW x \in Notes, Webhook(x)
    PROVE  /\ DeliveryTypes' /\ Accounted(x)'
           /\ wh'[x].at # "none" /\ wh[x].at # "none"
           /\ \A y \in Notes \ {x} : /\ wh'[y] = wh[y] /\ log'[y] = log[y]
                                     /\ received'[y] = received[y]
           /\ unread \subseteq unread' /\ UNCHANGED reporting
  <1>0. /\ wh \in [Notes -> Delivery] /\ log \in [Notes -> Seq(BOOLEAN)]
        /\ received \in [Notes -> SUBSET Destinations]
        /\ wh[x] \in Delivery /\ log[x] \in Seq(BOOLEAN) /\ received[x] \subseteq Destinations
        /\ Accounted(x) /\ unread \subseteq Notes
    BY DEF DeliveriesAccounted, DeliveryTypes
  <1>1. CASE ResolveURL(x) \/ ResolveFails(x)
    <2>0. PICK to \in {"own", "global", "none"} :
            /\ wh' = [wh EXCEPT ![x].to = to,
                                ![x].at = IF to = "none" THEN "done" ELSE "try"]
            /\ to = "global" /\ x[1] \in OwnURL => x \in unread'
      BY <1>1 DEF ResolveURL, ResolveFails, Resolved, Global
    <2> DEFINE w == [wh[x] EXCEPT !.to = to, !.at = IF to = "none" THEN "done" ELSE "try"]
    <2>1. /\ wh' = [wh EXCEPT ![x] = w] /\ UNCHANGED << log, received, reporting >>
          /\ unread \subseteq unread' /\ unread' \subseteq Notes
      BY <1>0, <1>1, <2>0 DEF ResolveURL, ResolveFails, db
    <2>2. /\ to \in {"own", "global", "none"}
          /\ to = "global" /\ x[1] \in OwnURL => x \in unread'
      BY <2>0
    <2>3. /\ w \in Delivery /\ w.to = to /\ w.tries = wh[x].tries
          /\ w.at = IF to = "none" THEN "done" ELSE "try"
      BY <1>0, <2>2 DEF Delivery, Destinations
    <2> HIDE DEF w
    <2>4. /\ wh'[x] = w /\ wh' \in [Notes -> Delivery]
          /\ \A y \in Notes \ {x} : wh'[y] = wh[y]
      BY <1>0, <2>1, <2>3
    <2>5. wh[x].at = "resolve" /\ log[x] = << >> /\ wh[x].tries = 0 /\ received[x] = {}
      BY <1>0, <1>1 DEF ResolveURL, ResolveFails, Accounted
    <2>6. Accounted(x)'
      <3>1. /\ log'[x] = << >> /\ Len(log'[x]) = 0 /\ DOMAIN log'[x] = {}
            /\ received'[x] = {} /\ wh'[x].tries = 0 /\ 0 < MaxTries
            /\ wh'[x].to = to
        BY <2>1, <2>3, <2>4, <2>5, NotificationsAssumption
      <3>2. CASE to = "none"
        <4>1. wh'[x].at = "done"
          BY <2>3, <2>4, <3>2
        <4> QED
          BY <3>1, <3>2, <4>1 DEF Accounted
      <3>3. CASE to # "none"
        <4>1. wh'[x].at = "try"
          BY <2>3, <2>4, <3>3
        <4> QED
          BY <2>2, <3>1, <3>3, <4>1 DEF Accounted, NoneSucceeded
      <3> QED
        BY <3>2, <3>3
    <2> QED
      BY <1>0, <2>1, <2>3, <2>4, <2>5, <2>6 DEF DeliveryTypes
  <1>2. ASSUME NEW arrives \in BOOLEAN, NEW ok \in BOOLEAN, Attempt(x, arrives, ok)
        PROVE  /\ DeliveryTypes' /\ Accounted(x)'
               /\ wh'[x].at # "none" /\ wh[x].at # "none"
               /\ \A y \in Notes \ {x} : /\ wh'[y] = wh[y] /\ log'[y] = log[y]
                                         /\ received'[y] = received[y]
               /\ unread' = unread /\ UNCHANGED reporting
    <2> DEFINE w == [at |-> "log", to |-> wh[x].to, tries |-> wh[x].tries + 1, ok |-> ok]
    <2>1. /\ wh' = [wh EXCEPT ![x] = w] /\ UNCHANGED << log, reporting, unread >>
          /\ wh[x].at = "try"
      BY <1>0, <1>2 DEF Attempt, db
    <2>2. wh[x].tries < MaxTries /\ wh[x].tries \in Nat /\ MaxTries \in Nat
      BY <1>0, <2>1, NotificationsAssumption DEF Accounted, Delivery
    <2>3. /\ w \in Delivery /\ w.to = wh[x].to /\ w.tries = wh[x].tries + 1
          /\ w.at = "log" /\ w.ok = ok
      <3>1. wh[x].tries + 1 \in 0..MaxTries
        BY <2>2
      <3> QED
        BY <1>0, <3>1 DEF Delivery
    <2> HIDE DEF w
    <2>4. /\ wh'[x] = w /\ wh' \in [Notes -> Delivery]
          /\ \A y \in Notes \ {x} : wh'[y] = wh[y]
      BY <1>0, <2>1, <2>3
    <2>5. /\ received[x] \subseteq received'[x]
          /\ received'[x] \subseteq received[x] \cup {wh[x].to}
          /\ ok => received'[x] # {}
          /\ \A y \in Notes \ {x} : received'[y] = received[y]
      BY <1>0, <1>2 DEF Attempt
    <2>6. Accounted(x)'
      <3>1. /\ received[x] \subseteq {wh[x].to} /\ wh[x].to # "none"
            /\ wh[x].to = "global" /\ x[1] \in OwnURL => x \in unread
            /\ Len(log[x]) = wh[x].tries /\ NoneSucceeded(x)
        BY <1>0, <2>1 DEF Accounted
      <3>2. /\ wh'[x].to = wh[x].to /\ wh'[x].at = "log" /\ wh'[x].ok = ok
            /\ Len(log'[x]) = wh'[x].tries - 1 /\ NoneSucceeded(x)'
            /\ unread' = unread
        BY <2>1, <2>2, <2>3, <2>4, <3>1 DEF NoneSucceeded
      <3> QED
        BY <2>5, <3>1, <3>2 DEF Accounted
    <2>7. received'[x] \subseteq Destinations
      <3>1. wh[x].to \in Destinations
        BY <1>0, <2>1 DEF Accounted, Delivery
      <3> QED
        BY <1>0, <2>5, <3>1
    <2>8. received' \in [Notes -> SUBSET Destinations]
      BY <1>0, <1>2, <2>5, <2>7 DEF Attempt
    <2> QED
      BY <1>0, <2>1, <2>3, <2>4, <2>5, <2>6, <2>8 DEF DeliveryTypes
  <1>3. CASE Log(x) \/ LogFails(x)
    <2>0. PICK a \in {"done", "try"} :
            /\ wh' = [wh EXCEPT ![x].at = a]
            /\ a = "try" => ~wh[x].ok /\ wh[x].tries # MaxTries /\ Log(x)
            /\ a = "done" => wh[x].ok \/ wh[x].tries = MaxTries \/ UNCHANGED log
      BY <1>3 DEF Log, LogFails, db
    <2> DEFINE w == [wh[x] EXCEPT !.at = a]
    <2>1. /\ wh' = [wh EXCEPT ![x] = w] /\ UNCHANGED << received, reporting, unread >>
          /\ wh[x].at = "log"
      BY <1>0, <1>3, <2>0 DEF Log, LogFails, db
    <2>2. /\ w \in Delivery /\ w.to = wh[x].to /\ w.tries = wh[x].tries
          /\ w.at = a /\ w.ok = wh[x].ok
      BY <1>0 DEF Delivery
    <2> HIDE DEF w
    <2>3. /\ wh'[x] = w /\ wh' \in [Notes -> Delivery]
          /\ \A y \in Notes \ {x} : wh'[y] = wh[y]
      BY <1>0, <2>1, <2>2
    <2>4. /\ Len(log[x]) = wh[x].tries - 1 /\ NoneSucceeded(x)
          /\ wh[x].ok => received[x] # {}
          /\ received[x] \subseteq {wh[x].to} /\ wh[x].to # "none"
          /\ wh[x].to = "global" /\ x[1] \in OwnURL => x \in unread
          /\ wh[x].tries \in 0..MaxTries /\ wh[x].ok \in BOOLEAN /\ MaxTries \in Nat
      BY <1>0, <2>1, NotificationsAssumption DEF Accounted, Delivery
    <2>5. CASE UNCHANGED log
      <3>1. a = "done"
        <4>1. CASE Log(x)
          <5>1. log'[x] = Append(log[x], wh[x].ok)
            BY <1>0, <4>1 DEF Log
          <5>2. Len(log'[x]) = Len(log[x]) + 1
            BY <1>0, <2>4, <5>1
          <5> QED
            BY <1>0, <2>5, <5>2
        <4> QED
          BY <2>0, <4>1
      <3>2. Accounted(x)'
        <4>1. /\ wh'[x].at = "done" /\ wh'[x].to = wh[x].to /\ wh'[x].tries = wh[x].tries
              /\ log'[x] = log[x] /\ received'[x] = received[x] /\ unread' = unread
          BY <2>1, <2>2, <2>3, <2>5, <3>1
        <4>2. Len(log[x]) < wh[x].tries
          BY <2>4
        <4> QED
          BY <2>4, <4>1, <4>2 DEF Accounted, NoneSucceeded
      <3> QED
        BY <1>0, <2>1, <2>2, <2>3, <2>5, <3>1, <3>2 DEF DeliveryTypes
    <2>6. CASE ~UNCHANGED log
      <3>1. log' = [log EXCEPT ![x] = Append(log[x], wh[x].ok)]
        BY <1>3, <2>6 DEF Log, LogFails, db
      <3>2. /\ log'[x] = Append(log[x], wh[x].ok) /\ log'[x] \in Seq(BOOLEAN)
            /\ Len(log'[x]) = wh[x].tries
            /\ DOMAIN log'[x] = 1..wh[x].tries
            /\ log'[x][wh[x].tries] = wh[x].ok
            /\ \A i \in 1..wh[x].tries : i # wh[x].tries => log'[x][i] = FALSE
        <4>1. log'[x] = Append(log[x], wh[x].ok) /\ log[x] \in Seq(BOOLEAN)
          BY <1>0, <3>1
        <4>2. \A i \in 1..Len(log[x]) : log[x][i] = FALSE
          BY <1>0, <2>4 DEF NoneSucceeded
        <4>3. /\ log'[x] \in Seq(BOOLEAN) /\ Len(log'[x]) = Len(log[x]) + 1
              /\ DOMAIN log'[x] = 1..(Len(log[x]) + 1)
              /\ log'[x][Len(log[x]) + 1] = wh[x].ok
              /\ \A i \in 1..Len(log[x]) : log'[x][i] = log[x][i]
          BY <2>4, <4>1
        <4>4. Len(log[x]) + 1 = wh[x].tries
          BY <1>0, <2>4
        <4> QED
          BY <2>4, <4>1, <4>2, <4>3, <4>4
      <3>3. CASE a = "try"
        <4>1. ~wh[x].ok /\ wh[x].tries < MaxTries
          BY <2>0, <2>4, <3>3
        <4>2. NoneSucceeded(x)'
          BY <3>2, <4>1 DEF NoneSucceeded
        <4> QED
          BY <1>0, <2>1, <2>2, <2>3, <2>4, <3>1, <3>2, <3>3, <4>1, <4>2
          DEF Accounted, DeliveryTypes
      <3>4. CASE a = "done"
        <4>1. wh[x].ok \/ wh[x].tries = MaxTries
          BY <2>0, <2>6, <3>4
        <4>2. wh[x].ok => TRUE \in Range(log'[x])
          <5>1. wh[x].tries \in DOMAIN log'[x]
            BY <1>0, <2>4, <3>2
          <5> QED
            BY <2>4, <3>2, <5>1 DEF Range
        <4>3. \A i \in DOMAIN log'[x] : log'[x][i] => received'[x] # {} /\ i = wh'[x].tries
          BY <2>1, <2>2, <2>3, <2>4, <3>2
        <4>4. Accounted(x)'
          BY <2>1, <2>2, <2>3, <2>4, <3>4, <4>1, <4>2, <4>3 DEF Accounted
        <4> QED
          BY <1>0, <2>1, <2>2, <2>3, <3>1, <3>2, <3>4, <4>4 DEF DeliveryTypes
      <3> QED
        BY <3>3, <3>4
    <2> QED
      BY <2>5, <2>6
  <1> QED
    BY <1>1, <1>2, <1>3 DEF Webhook

LEMMA DeliveriesStay ==
    ASSUME DeliveriesAccounted, [Next]_vars
    PROVE  DeliveriesAccounted'
  <1>0. /\ Reporting /\ Reporting' /\ DeliveryTypes /\ BegunOnce
        /\ \A x \in Notes : Accounted(x)
        /\ \A r \in Reporters : at[r] # "idle" => task[r] \in reported /\ task[r] \in Notes
        /\ at \in [Reporters -> {"idle", "notify", "alert", "count", "alarm", "reset"}]
        /\ task \in [Reporters -> Notes \cup {NoNote}] /\ reported \subseteq Notes
    BY ReportingStays DEF DeliveriesAccounted, Reporting
  \* Steps that touch no delivery.
  <1>1. ASSUME UNCHANGED << wh, log, received, unread >>
        PROVE  DeliveryTypes' /\ \A x \in Notes : Accounted(x)'
    BY <1>0, <1>1, AccountedFrame DEF DeliveryTypes
  <1>2. ASSUME NEW r \in Reporters, NEW x \in Notes, Report(r, x)
        PROVE  DeliveriesAccounted'
    <2>1. UNCHANGED << wh, log, received, unread >>
      BY <1>2 DEF Report, db
    <2>2. /\ x \notin reported
          /\ task'[r] = x /\ at'[r] = "notify" /\ reported' = reported \cup {x}
          /\ \A p \in Reporters \ {r} : at'[p] = at[p] /\ task'[p] = task[p]
      BY <1>0, <1>2 DEF Report
    <2>3. BegunOnce'
      <3>1. wh[x].at = "none"
        BY <1>0, <2>2 DEF BegunOnce
      <3>2. \A p \in Reporters \ {r} : at'[p] = "notify" => task'[p] \in reported
        BY <1>0, <2>2
      <3> QED
        BY <1>0, <2>1, <2>2, <3>1, <3>2 DEF BegunOnce
    <2> QED
      BY <1>0, <1>1, <2>1, <2>3 DEF DeliveriesAccounted
  <1>3. ASSUME NEW r \in Reporters, Notify(r) \/ NotifyFails(r)
        PROVE  DeliveriesAccounted'
    <2>0. PICK x \in Notes : task[r] = x /\ at[r] = "notify" /\ wh[x].at = "none" /\ x \in reported
      BY <1>0, <1>3 DEF Notify, NotifyFails, BegunOnce
    <2>1. /\ \A p \in Reporters \ {r} : at'[p] = at[p]
          /\ at'[r] # "notify" /\ UNCHANGED << unread, log, task, reported, received >>
      <3>1. Told(r) /\ UNCHANGED << unread, log, task, reported, received >>
        BY <1>3 DEF Notify, NotifyFails, db
      <3> QED
        BY <1>0, <2>0, <3>1, ToldGoesOn
    <2>2. CASE UNCHANGED wh
      <3>1. BegunOnce'
        BY <1>0, <2>1, <2>2 DEF BegunOnce
      <3> QED
        BY <1>0, <1>1, <2>1, <2>2, <3>1 DEF DeliveriesAccounted, DeliveryTypes
    <2>3. CASE wh' = [wh EXCEPT ![x].at = "resolve"]
      <3> DEFINE w == [wh[x] EXCEPT !.at = "resolve"]
      <3>1. /\ w \in Delivery /\ w.at = "resolve" /\ w.to = wh[x].to
            /\ w.tries = wh[x].tries /\ wh' = [wh EXCEPT ![x] = w]
        BY <1>0, <2>3 DEF DeliveryTypes, Delivery
      <3> HIDE DEF w
      <3>2. /\ wh' \in [Notes -> Delivery] /\ wh'[x] = w
            /\ \A y \in Notes \ {x} : wh'[y] = wh[y]
        BY <1>0, <3>1 DEF DeliveryTypes
      <3>3. Accounted(x)'
        BY <1>0, <2>0, <2>1, <3>1, <3>2 DEF Accounted
      <3>4. \A y \in Notes : Accounted(y)'
        BY <1>0, <2>1, <3>2, <3>3, AccountedFrame
      <3>5. BegunOnce'
        BY <1>0, <2>0, <2>1, <3>2 DEF BegunOnce
      <3> QED
        BY <1>0, <2>1, <3>2, <3>4, <3>5 DEF DeliveriesAccounted, DeliveryTypes
    <2> QED
      BY <1>3, <2>0, <2>2, <2>3 DEF Notify, NotifyFails
  <1>4. ASSUME NEW v \in Videos, DeleteVideo(v)
        PROVE  DeliveriesAccounted'
    <2>1. UNCHANGED << wh, log, received, unread, at, task, reported >>
      BY <1>4 DEF DeleteVideo, reporting
    <2>2. BegunOnce'
      BY <1>0, <2>1 DEF BegunOnce
    <2> QED
      BY <1>0, <1>1, <2>1, <2>2 DEF DeliveriesAccounted
  <1>5. ASSUME NEW r \in Reporters, Alert(r)
        PROVE  DeliveriesAccounted'
    <2>1. /\ \A p \in Reporters : at'[p] = "notify" => at[p] = "notify"
          /\ UNCHANGED << unread, log, wh, received, task, reported >>
      BY <1>0, <1>5
      DEF Alert, SendFailure, CountFailure, SendAlarm, RecordTranscodeSuccess,
          AlertUnchanged, db
    <2>2. BegunOnce'
      BY <1>0, <2>1 DEF BegunOnce
    <2> QED
      BY <1>0, <1>1, <2>1, <2>2 DEF DeliveriesAccounted, DeliveryTypes
  <1>6. ASSUME NEW x \in Notes, Webhook(x)
        PROVE  DeliveriesAccounted'
    <2>1. /\ DeliveryTypes' /\ Accounted(x)' /\ wh'[x].at # "none" /\ wh[x].at # "none"
          /\ \A y \in Notes \ {x} : /\ wh'[y] = wh[y] /\ log'[y] = log[y]
                                    /\ received'[y] = received[y]
          /\ unread \subseteq unread' /\ UNCHANGED << at, task, reported >>
      <3>1. /\ DeliveryTypes' /\ Accounted(x)' /\ wh'[x].at # "none" /\ wh[x].at # "none"
            /\ \A y \in Notes \ {x} : /\ wh'[y] = wh[y] /\ log'[y] = log[y]
                                      /\ received'[y] = received[y]
            /\ unread \subseteq unread' /\ UNCHANGED reporting
        BY <1>6, WebhookStays
      <3> QED
        BY <3>1 DEF reporting
    <2>2. \A y \in Notes : Accounted(y)'
      BY <1>0, <2>1, AccountedFrame
    <2>3. BegunOnce'
      <3>1. \A y \in Notes : wh'[y].at = "none" <=> wh[y].at = "none"
        BY <2>1
      <3>2. \A p \in Reporters : at'[p] = "notify" => task'[p] \in Notes
        BY <1>0, <2>1
      <3> QED
        BY <1>0, <2>1, <3>1, <3>2 DEF BegunOnce
    <2> QED
      BY <1>0, <2>1, <2>2, <2>3 DEF DeliveriesAccounted
  <1>7. CASE \/ \E x \in Notes : Hub(x)
             \/ \E l \in Listeners :
                  \/ \E v \in Videos : Subscribe(l, v)
                  \/ Unsubscribe(l) \/ WriteEvent(l)
             \/ UNCHANGED vars
    <2>1. UNCHANGED << unread, log, wh, received, at, task, reported >>
      BY <1>7
      DEF Hub, Copy, Send, Subscribe, Unsubscribe, WriteEvent, vars, db, reporting
    <2>2. BegunOnce'
      BY <1>0, <2>1 DEF BegunOnce
    <2> QED
      BY <1>0, <1>1, <2>1, <2>2 DEF DeliveriesAccounted, DeliveryTypes
  <1> QED
    BY <1>2, <1>3, <1>4, <1>5, <1>6, <1>7 DEF Next

LEMMA InitDeliveries == Init => DeliveriesAccounted
  <1> SUFFICES ASSUME Init PROVE DeliveriesAccounted
    OBVIOUS
  <1>1. Reporting
    BY DEF Init, Reporting
  <1>2. DeliveryTypes
    BY NotificationsAssumption DEF Init, DeliveryTypes, Delivery, Destinations
  <1>3. BegunOnce /\ \A x \in Notes : Accounted(x)
    BY DEF Init, BegunOnce, Accounted, NoneSucceeded
  <1> QED
    BY <1>1, <1>2, <1>3 DEF DeliveriesAccounted

\* The log of a webhook tells its attempts, for every number of tries and of
\* deliveries side by side (webhook.go).
THEOREM LogsTellTheAttempts == Spec => []LogTellsTheAttempts
  <1>1. DeliveriesAccounted => LogTellsTheAttempts
    <2> SUFFICES ASSUME DeliveriesAccounted, NEW x \in Notes
                 PROVE  /\ \A i \in DOMAIN log[x] : log[x][i] =>
                             received[x] # {} /\ i = wh[x].tries /\ wh[x].at = "done"
                        /\ wh[x].at = "done" /\ wh[x].to # "none" =>
                             \/ Len(log[x]) < wh[x].tries
                             \/ TRUE \in Range(log[x])
                             \/ wh[x].tries = MaxTries
      BY DEF LogTellsTheAttempts
    <2>1. Accounted(x) /\ wh[x].at \in {"none", "resolve", "try", "log", "done"}
      BY DEF DeliveriesAccounted, DeliveryTypes, Delivery
    <2>2. CASE wh[x].at \in {"none", "resolve"}
      <3>1. DOMAIN log[x] = {}
        BY <2>1, <2>2 DEF Accounted
      <3> QED
        BY <2>2, <3>1
    <2>3. CASE wh[x].at \in {"try", "log"}
      BY <2>1, <2>3 DEF Accounted, NoneSucceeded
    <2>4. CASE wh[x].at = "done"
      BY <2>1, <2>4 DEF Accounted
    <2> QED
      BY <2>1, <2>2, <2>3, <2>4
  <1> QED
    BY <1>1, InitDeliveries, DeliveriesStay, PTL DEF Spec

\* An event of a video with a URL of its own reaches the global one only when the
\* lookup for it did not get the row, and every event one destination at the most,
\* for every number of attempts and deliveries side by side (webhook.go).
THEOREM OwnURLComesFirst == Spec => []OwnURLFirst
  <1>1. DeliveriesAccounted => OwnURLFirst
    <2> SUFFICES ASSUME DeliveriesAccounted, NEW x \in Notes
                 PROVE  /\ "global" \in received[x] /\ x[1] \in OwnURL => x \in unread
                        /\ Cardinality(received[x]) <= 1
      BY DEF OwnURLFirst
    <2>1. Accounted(x)
      BY DEF DeliveriesAccounted
    <2>2. received[x] = {} \/ received[x] = {wh[x].to}
      BY <2>1 DEF Accounted
    <2>3. Cardinality(received[x]) <= 1
      <3>1. Cardinality({}) = 0
        BY FS_EmptySet
      <3>2. Cardinality({wh[x].to}) = 1
        BY FS_Singleton
      <3> QED
        BY <2>2, <3>1, <3>2
    <2> QED
      BY <2>1, <2>3 DEF Accounted
  <1> QED
    BY <1>1, InitDeliveries, DeliveriesStay, PTL DEF Spec

-----------------------------------------------------------------------------
(* Distributions to listeners.                                             *)

ListeningTypes ==
    /\ sse \in [Notes -> Distribution]
    /\ sub \in [Listeners -> Videos \cup {NoVideo}] /\ left \subseteq Listeners
    /\ ch \in [Listeners -> Seq(Notes)] /\ got \in [Listeners -> Seq(Notes)]
    /\ due \in [Listeners -> SUBSET Notes] /\ lost \in [Listeners -> SUBSET Notes]
    /\ \A l \in Listeners : Len(ch[l]) <= Capacity

\* A distribution is begun with the delivery of the same note.
BegunTogether ==
    \A x \in Notes : wh[x].at = "none" => sse[x].at = "none"

Pending(l) == {x \in Notes : sse[x].at = "send" /\ l \in sse[x].targets}

\* What ListenersAreIndependent says of one listener. A note that is pending was
\* not dropped, and one that is due has been copied.
Shared(l) ==
    /\ IsFiniteSet(due[l])
    /\ due[l] = Pending(l) \cup Range(ch[l]) \cup Range(got[l]) \cup lost[l]
    /\ Cardinality(due[l]) = Cardinality(Pending(l)) + Len(ch[l]) + Len(got[l])
                             + Cardinality(lost[l])
    /\ lost[l] # {} => Cardinality(due[l]) > Capacity
    /\ Pending(l) \cap lost[l] = {}
    /\ \A x \in due[l] : sse[x].at \in {"send", "done"}

\* The inductive invariant.
DistributionsAccounted ==
    /\ DeliveriesAccounted
    /\ ListeningTypes
    /\ BegunTogether
    /\ \A l \in Listeners : Shared(l)

LEMMA SharedFrame ==
    ASSUME NEW l \in Listeners, Shared(l), Pending(l)' = Pending(l), ch'[l] = ch[l],
           got'[l] = got[l], due'[l] = due[l], lost'[l] = lost[l],
           \A x \in due[l] : sse'[x].at \in {"send", "done"}
    PROVE  Shared(l)'
  BY DEF Shared

\* Everything but a notification, a distribution and a stream.
LEMMA OthersShare ==
    ASSUME DistributionsAccounted, [Next]_vars, UNCHANGED << sse, ch, got, due, lost >>,
           \A x \in Notes : wh[x].at # "none" => wh'[x].at # "none"
    PROVE  /\ BegunTogether' /\ \A l \in Listeners : Shared(l)'
  <1>1. BegunTogether'
    BY DEF DistributionsAccounted, BegunTogether
  <1>2. \A l \in Listeners : Pending(l)' = Pending(l)
    BY DEF Pending
  <1>3. \A l \in Listeners : \A x \in due[l] : sse'[x].at \in {"send", "done"}
    BY DEF DistributionsAccounted, Shared
  <1> QED
    BY <1>1, <1>2, <1>3, SharedFrame DEF DistributionsAccounted

LEMMA NotifyShares ==
    ASSUME DistributionsAccounted, NEW r \in Reporters, Notify(r)
    PROVE  ListeningTypes' /\ BegunTogether' /\ \A l \in Listeners : Shared(l)'
  <1> DEFINE x == task[r]
  <1>0. /\ x \in Notes /\ wh[x].at = "none" /\ sse[x].at = "none"
        /\ sse \in [Notes -> Distribution] /\ wh \in [Notes -> Delivery]
        /\ UNCHANGED << sub, left, ch, got, due, lost >>
    BY DEF DistributionsAccounted, DeliveriesAccounted, DeliveryTypes, Reporting,
           BegunOnce, BegunTogether, ListeningTypes, Notify, listening
  <1>1. /\ wh' = [wh EXCEPT ![x].at = "resolve"]
        /\ sse' = [sse EXCEPT ![x].at = "copy"]
    BY DEF Notify
  <1>2. /\ sse'[x].at = "copy" /\ wh'[x].at = "resolve"
        /\ sse'[x] \in Distribution
        /\ \A y \in Notes \ {x} : sse'[y] = sse[y] /\ wh'[y] = wh[y]
    BY <1>0, <1>1 DEF Distribution, Delivery
  <1>3. \A l \in Listeners : Pending(l)' = Pending(l)
    BY <1>0, <1>2 DEF Pending
  <1>4. \A l \in Listeners : \A y \in due[l] : y # x /\ sse'[y].at \in {"send", "done"}
    BY <1>0, <1>2 DEF DistributionsAccounted, Shared, ListeningTypes
  <1>5. BegunTogether'
    BY <1>2 DEF DistributionsAccounted, BegunTogether
  <1>6. sse' \in [Notes -> Distribution]
    BY <1>0, <1>1, <1>2
  <1> QED
    BY <1>0, <1>3, <1>4, <1>5, <1>6, SharedFrame DEF DistributionsAccounted, ListeningTypes

LEMMA CopyShares ==
    ASSUME DistributionsAccounted, NEW x \in Notes, Copy(x)
    PROVE  ListeningTypes' /\ BegunTogether' /\ \A l \in Listeners : Shared(l)'
  <1> DEFINE targets == {l \in Listeners : sub[l] = x[1]}
             d == [at |-> IF targets = {} THEN "done" ELSE "send", targets |-> targets]
  <1>0. /\ ListeningTypes /\ sse[x].at = "copy" /\ sse' = [sse EXCEPT ![x] = d]
        /\ due' = [l \in Listeners |-> IF l \in targets THEN due[l] \cup {x} ELSE due[l]]
        /\ UNCHANGED << wh, sub, left, ch, got, lost >>
    BY DEF DistributionsAccounted, Copy
  <1>1. d \in Distribution /\ d.targets = targets /\ d.at \in {"send", "done"}
        /\ (targets # {} => d.at = "send")
    BY DEF Distribution
  <1> HIDE DEF d
  <1>2. sse'[x] = d /\ \A y \in Notes \ {x} : sse'[y] = sse[y]
    BY <1>0 DEF ListeningTypes
  <1>3. ListeningTypes'
    BY <1>0, <1>1 DEF ListeningTypes
  <1>4. BegunTogether'
    BY <1>0, <1>2 DEF DistributionsAccounted, BegunTogether
  <1>5. ASSUME NEW l \in Listeners
        PROVE  Shared(l)'
    <2>1. /\ Shared(l) /\ x \notin due[l] /\ due[l] \subseteq Notes
          /\ x \notin Pending(l)
      BY <1>0 DEF DistributionsAccounted, Shared, ListeningTypes, Pending
    <2>2. CASE l \notin targets
      <3>1. Pending(l)' = Pending(l)
        BY <1>0, <1>1, <1>2, <2>2 DEF Pending
      <3>2. \A y \in due[l] : sse'[y].at \in {"send", "done"}
        BY <1>2, <2>1 DEF Shared
      <3> QED
        BY <1>0, <2>1, <2>2, <3>1, <3>2, SharedFrame
    <2>3. CASE l \in targets
      <3>1. due'[l] = due[l] \cup {x} /\ sse'[x].at = "send" /\ l \in sse'[x].targets
        BY <1>0, <1>1, <1>2, <2>3
      <3>2. Pending(l)' = Pending(l) \cup {x}
        BY <1>2, <3>1 DEF Pending
      <3>3. IsFiniteSet(due[l]) /\ IsFiniteSet(Pending(l)) /\ IsFiniteSet(lost[l])
        BY <2>1, FS_Subset DEF Shared
      <3>4. /\ IsFiniteSet(due'[l])
            /\ Cardinality(due'[l]) = Cardinality(due[l]) + 1
            /\ Cardinality(Pending(l)') = Cardinality(Pending(l)) + 1
        <4>1. IsFiniteSet(due[l] \cup {x}) /\ Cardinality(due[l] \cup {x}) = Cardinality(due[l]) + 1
          BY <2>1, <3>3, FS_AddElement
        <4>2. Cardinality(Pending(l) \cup {x}) = Cardinality(Pending(l)) + 1
          BY <2>1, <3>3, FS_AddElement
        <4> QED
          BY <3>1, <3>2, <4>1, <4>2
      <3>5. /\ Cardinality(due[l]) \in Nat /\ Cardinality(Pending(l)) \in Nat
            /\ Cardinality(lost[l]) \in Nat
            /\ Len(ch[l]) \in Nat /\ Len(got[l]) \in Nat
        BY <1>0, <3>3, FS_CardinalityType DEF ListeningTypes
      <3>6. due'[l] = Pending(l)' \cup Range(ch'[l]) \cup Range(got'[l]) \cup lost'[l]
        BY <1>0, <2>1, <3>1, <3>2 DEF Shared
      <3>7. /\ Cardinality(due'[l]) = Cardinality(Pending(l)') + Len(ch'[l]) + Len(got'[l])
                                      + Cardinality(lost'[l])
            /\ lost'[l] # {} => Cardinality(due'[l]) > Capacity
        <4>1. ch'[l] = ch[l] /\ got'[l] = got[l] /\ lost'[l] = lost[l]
          BY <1>0
        <4>2. /\ Cardinality(due[l]) = Cardinality(Pending(l)) + Len(ch[l]) + Len(got[l])
                                       + Cardinality(lost[l])
              /\ lost[l] # {} => Cardinality(due[l]) > Capacity
          BY <2>1 DEF Shared
        <4>3. Cardinality(due'[l]) = Cardinality(Pending(l)') + Len(ch'[l]) + Len(got'[l])
                                     + Cardinality(lost'[l])
          BY <3>4, <3>5, <4>1, <4>2
        <4>4. lost'[l] # {} => Cardinality(due'[l]) > Capacity
          BY <3>4, <3>5, <4>1, <4>2, NotificationsAssumption
        <4> QED
          BY <4>3, <4>4
      <3>8. Pending(l)' \cap lost'[l] = {}
        BY <1>0, <2>1, <3>2 DEF Shared
      <3>9. \A y \in due'[l] : sse'[y].at \in {"send", "done"}
        BY <1>2, <2>1, <3>1 DEF Shared
      <3> QED
        BY <3>4, <3>6, <3>7, <3>8, <3>9 DEF Shared
    <2> QED
      BY <2>2, <2>3
  <1> QED
    BY <1>3, <1>4, <1>5

\* A note that leaves one place for another leaves the sum as it was.
LEMMA OneMoves ==
    ASSUME NEW p \in Nat, NEW c \in Nat, NEW g \in Nat, NEW n \in Nat
    PROVE  /\ p + c + g + n = (p - 1) + c + g + (n + 1)
           /\ p + c + g + n = (p - 1) + (c + 1) + g + n
           /\ p + c + g + n = p + (c - 1) + (g + 1) + n
  OBVIOUS

LEMMA SendShares ==
    ASSUME DistributionsAccounted, NEW x \in Notes, NEW l \in Listeners, Send(x, l)
    PROVE  ListeningTypes' /\ BegunTogether' /\ \A k \in Listeners : Shared(k)'
  <1> DEFINE full == Len(ch[l]) >= Capacity
             rest == sse[x].targets \ {l}
             d == [at |-> IF rest = {} THEN "done" ELSE "send", targets |-> rest]
  <1>0. /\ ListeningTypes /\ sse[x].at = "send" /\ l \in sse[x].targets
        /\ sse' = [sse EXCEPT ![x] = d]
        /\ ch' = IF full THEN ch ELSE [ch EXCEPT ![l] = Append(@, x)]
        /\ lost' = IF full THEN [lost EXCEPT ![l] = @ \cup {x}] ELSE lost
        /\ UNCHANGED << wh, sub, left, got, due >>
    BY DEF DistributionsAccounted, Send
  <1>1. /\ rest \subseteq Listeners /\ d \in Distribution /\ d.targets = rest
        /\ d.at \in {"send", "done"} /\ (rest # {} => d.at = "send")
    BY <1>0 DEF Distribution, ListeningTypes
  <1> HIDE DEF d
  <1>2. sse'[x] = d /\ \A y \in Notes \ {x} : sse'[y] = sse[y]
    BY <1>0 DEF ListeningTypes
  <1>3. /\ ch[l] \in Seq(Notes) /\ Len(ch[l]) \in Nat /\ Len(got[l]) \in Nat
        /\ Capacity \in Nat /\ Len(ch[l]) <= Capacity
    BY <1>0, NotificationsAssumption DEF ListeningTypes
  <1>4. ListeningTypes'
    <2>1. /\ ch' \in [Listeners -> Seq(Notes)]
          /\ \A k \in Listeners : Len(ch'[k]) <= Capacity
      BY <1>0, <1>3 DEF ListeningTypes
    <2> QED
      BY <1>0, <1>1, <2>1 DEF ListeningTypes
  <1>5. BegunTogether'
    BY <1>0, <1>2 DEF DistributionsAccounted, BegunTogether
  <1>6. \A k \in Listeners : \A y \in due[k] : sse'[y].at \in {"send", "done"}
    BY <1>0, <1>1, <1>2 DEF DistributionsAccounted, Shared
  <1>7. ASSUME NEW k \in Listeners \ {l}
        PROVE  Shared(k)'
    <2>1. Pending(k)' = Pending(k)
      BY <1>0, <1>1, <1>2 DEF Pending
    <2>2. ch'[k] = ch[k] /\ lost'[k] = lost[k]
      BY <1>0 DEF ListeningTypes
    <2> QED
      BY <1>0, <1>6, <2>1, <2>2, SharedFrame DEF DistributionsAccounted
  <1>8. Shared(l)'
    <2>1. Shared(l) /\ x \in Pending(l) /\ x \in due[l] /\ x \notin lost[l]
      BY <1>0 DEF DistributionsAccounted, Shared, Pending
    <2>2. Pending(l)' = Pending(l) \ {x}
      BY <1>0, <1>1, <1>2 DEF Pending
    <2>3. IsFiniteSet(due[l]) /\ IsFiniteSet(Pending(l)) /\ IsFiniteSet(lost[l])
      BY <2>1, FS_Subset DEF Shared
    <2>4. /\ Cardinality(due[l]) \in Nat /\ Cardinality(Pending(l)) \in Nat
          /\ Cardinality(lost[l]) \in Nat
      BY <2>3, FS_CardinalityType
    <2>5. Cardinality(Pending(l)') = Cardinality(Pending(l)) - 1
      <3>1. Cardinality(Pending(l) \ {x}) = Cardinality(Pending(l)) - 1
        BY <2>1, <2>3, FS_RemoveElement
      <3> QED
        BY <2>2, <3>1
    <2>6. Cardinality(Pending(l)) >= 1
      <3>1. Cardinality(Pending(l) \ {x}) \in Nat
        BY <2>3, FS_RemoveElement, FS_CardinalityType
      <3> QED
        BY <2>2, <2>4, <2>5, <3>1
    <2>7. /\ Cardinality(due[l]) = Cardinality(Pending(l)) + Len(ch[l]) + Len(got[l])
                                   + Cardinality(lost[l])
          /\ due'[l] = due[l] /\ got'[l] = got[l]
      BY <1>0, <2>1 DEF Shared
    <2>8. CASE full
      <3>1. ch'[l] = ch[l] /\ lost'[l] = lost[l] \cup {x}
        BY <1>0, <2>8 DEF ListeningTypes
      <3>2. Cardinality(lost'[l]) = Cardinality(lost[l]) + 1
        <4>1. Cardinality(lost[l] \cup {x}) = Cardinality(lost[l]) + 1
          BY <2>1, <2>3, FS_AddElement
        <4> QED
          BY <3>1, <4>1
      <3>3. due'[l] = Pending(l)' \cup Range(ch'[l]) \cup Range(got'[l]) \cup lost'[l]
        BY <2>1, <2>2, <2>7, <3>1 DEF Shared
      <3>4. Cardinality(due'[l]) = Cardinality(Pending(l)') + Len(ch'[l]) + Len(got'[l])
                                   + Cardinality(lost'[l])
        <4>1. Len(ch'[l]) = Len(ch[l]) /\ Len(got'[l]) = Len(got[l])
          BY <2>7, <3>1
        <4>2. Cardinality(due'[l]) = Cardinality(due[l])
          BY <2>7
        <4>3. Cardinality(due[l]) = Cardinality(Pending(l)) + Len(ch[l]) + Len(got[l])
                                    + Cardinality(lost[l])
          BY <2>7
        <4>4. Cardinality(due[l]) = (Cardinality(Pending(l)) - 1) + Len(ch[l]) + Len(got[l])
                                    + (Cardinality(lost[l]) + 1)
          <5> DEFINE p == Cardinality(Pending(l))
                     c == Len(ch[l])
                     g == Len(got[l])
                     n == Cardinality(lost[l])
          <5>1. p \in Nat /\ c \in Nat /\ g \in Nat /\ n \in Nat
            BY <1>3, <2>4
          <5>2. Cardinality(due[l]) = p + c + g + n
            BY <4>3
          <5> HIDE DEF p, c, g, n
          <5>3. Cardinality(due[l]) = (p - 1) + c + g + (n + 1)
            BY <5>1, <5>2, OneMoves
          <5> QED
            BY <5>3 DEF p, c, g, n
        <4>5. Cardinality(due'[l]) = Cardinality(Pending(l)') + Len(ch[l]) + Len(got[l])
                                     + Cardinality(lost'[l])
          BY <2>5, <3>2, <4>2, <4>4
        <4> QED
          BY <4>1, <4>5
      <3>5. Cardinality(due'[l]) > Capacity
        BY <1>3, <2>4, <2>6, <2>7, <2>8
      <3>6. Pending(l)' \cap lost'[l] = {}
        BY <2>1, <2>2, <3>1 DEF Shared
      <3> QED
        BY <1>6, <2>3, <2>7, <3>3, <3>4, <3>5, <3>6 DEF Shared
    <2>9. CASE ~full
      <3>1. ch'[l] = Append(ch[l], x) /\ lost'[l] = lost[l]
        BY <1>0, <2>9 DEF ListeningTypes
      <3>2. Len(ch'[l]) = Len(ch[l]) + 1 /\ Range(ch'[l]) = Range(ch[l]) \cup {x}
        <4>1. /\ Len(ch'[l]) = Len(ch[l]) + 1 /\ DOMAIN ch'[l] = 1..(Len(ch[l]) + 1)
              /\ DOMAIN ch[l] = 1..Len(ch[l])
              /\ \A i \in DOMAIN ch[l] : ch'[l][i] = ch[l][i]
              /\ ch'[l][Len(ch[l]) + 1] = x
          BY <1>3, <3>1
        <4> QED
          BY <1>3, <4>1 DEF Range
      <3>3. due'[l] = Pending(l)' \cup Range(ch'[l]) \cup Range(got'[l]) \cup lost'[l]
        BY <2>1, <2>2, <2>7, <3>1, <3>2 DEF Shared
      <3>4. Cardinality(due'[l]) = Cardinality(Pending(l)') + Len(ch'[l]) + Len(got'[l])
                                   + Cardinality(lost'[l])
        BY <1>3, <2>4, <2>5, <2>7, <3>1, <3>2
      <3>5. /\ lost'[l] # {} => Cardinality(due'[l]) > Capacity
            /\ Pending(l)' \cap lost'[l] = {}
        BY <2>1, <2>2, <2>7, <3>1 DEF Shared
      <3> QED
        BY <1>6, <2>3, <2>7, <3>3, <3>4, <3>5 DEF Shared
    <2> QED
      BY <2>8, <2>9
  <1> QED
    BY <1>4, <1>5, <1>7, <1>8

LEMMA WriteShares ==
    ASSUME DistributionsAccounted, NEW l \in Listeners, WriteEvent(l)
    PROVE  ListeningTypes' /\ BegunTogether' /\ \A k \in Listeners : Shared(k)'
  <1>0. /\ ListeningTypes /\ ch[l] # << >>
        /\ got' = [got EXCEPT ![l] = Append(@, Head(ch[l]))]
        /\ ch' = [ch EXCEPT ![l] = Tail(@)]
        /\ UNCHANGED << wh, sse, sub, left, due, lost >>
    BY DEF DistributionsAccounted, WriteEvent
  <1>1. /\ ch[l] \in Seq(Notes) /\ got[l] \in Seq(Notes) /\ Len(ch[l]) \in Nat
        /\ Len(got[l]) \in Nat /\ Len(ch[l]) <= Capacity /\ Capacity \in Nat
        /\ Head(ch[l]) \in Notes /\ Tail(ch[l]) \in Seq(Notes)
        /\ Len(Tail(ch[l])) = Len(ch[l]) - 1
    BY <1>0, NotificationsAssumption DEF ListeningTypes
  <1>2. ListeningTypes'
    <2>1. /\ ch' \in [Listeners -> Seq(Notes)] /\ got' \in [Listeners -> Seq(Notes)]
          /\ \A k \in Listeners : Len(ch'[k]) <= Capacity
      BY <1>0, <1>1 DEF ListeningTypes
    <2> QED
      BY <1>0, <2>1 DEF ListeningTypes
  <1>3. BegunTogether'
    BY <1>0 DEF DistributionsAccounted, BegunTogether
  <1>4. \A k \in Listeners : /\ Pending(k)' = Pending(k)
                             /\ \A y \in due[k] : sse'[y].at \in {"send", "done"}
    BY <1>0 DEF Pending, DistributionsAccounted, Shared
  <1>5. ASSUME NEW k \in Listeners \ {l}
        PROVE  Shared(k)'
    <2>1. ch'[k] = ch[k] /\ got'[k] = got[k]
      BY <1>0 DEF ListeningTypes
    <2> QED
      BY <1>0, <1>4, <2>1, SharedFrame DEF DistributionsAccounted
  <1>6. Shared(l)'
    <2>1. ch'[l] = Tail(ch[l]) /\ got'[l] = Append(got[l], Head(ch[l]))
      BY <1>0 DEF ListeningTypes
    <2>2. /\ Len(ch'[l]) = Len(ch[l]) - 1
          /\ Len(got'[l]) = Len(got[l]) + 1
      BY <1>1, <2>1
    <2>3. Range(ch[l]) = Range(ch'[l]) \cup {Head(ch[l])}
      <3>1. /\ DOMAIN ch[l] = 1..Len(ch[l]) /\ DOMAIN ch'[l] = 1..(Len(ch[l]) - 1)
            /\ Head(ch[l]) = ch[l][1] /\ Len(ch[l]) >= 1
            /\ \A i \in DOMAIN ch'[l] : ch'[l][i] = ch[l][i + 1]
        <4>1. Len(ch[l]) >= 1 /\ DOMAIN ch[l] = 1..Len(ch[l]) /\ Head(ch[l]) = ch[l][1]
          BY <1>0, <1>1
        <4>2. DOMAIN Tail(ch[l]) = 1..(Len(ch[l]) - 1)
          BY <1>1
        <4>3. \A i \in 1..(Len(ch[l]) - 1) : Tail(ch[l])[i] = ch[l][i + 1]
          BY <1>0, <1>1, <4>1
        <4> QED
          BY <2>1, <4>1, <4>2, <4>3
      <3>2. ASSUME NEW y \in Range(ch[l])
            PROVE  y \in Range(ch'[l]) \cup {Head(ch[l])}
        <4>1. PICK i \in 1..Len(ch[l]) : y = ch[l][i]
          BY <3>1 DEF Range
        <4>2. CASE i = 1
          BY <3>1, <4>1, <4>2
        <4>3. CASE i # 1
          <5>1. i - 1 \in 1..(Len(ch[l]) - 1) /\ (i - 1) + 1 = i
            BY <1>1, <4>1, <4>3
          <5>2. i - 1 \in DOMAIN ch'[l] /\ ch'[l][i - 1] = y
            BY <3>1, <4>1, <5>1
          <5> QED
            BY <5>2 DEF Range
        <4> QED
          BY <4>2, <4>3
      <3>3. ASSUME NEW y \in Range(ch'[l]) \cup {Head(ch[l])}
            PROVE  y \in Range(ch[l])
        <4>1. CASE y = Head(ch[l])
          BY <1>1, <3>1, <4>1 DEF Range
        <4>2. CASE y \in Range(ch'[l])
          <5>1. PICK i \in 1..(Len(ch[l]) - 1) : y = ch[l][i + 1]
            BY <3>1, <4>2 DEF Range
          <5>2. i + 1 \in DOMAIN ch[l]
            BY <1>1, <3>1, <5>1
          <5> QED
            BY <5>1, <5>2 DEF Range
        <4> QED
          BY <4>1, <4>2
      <3> QED
        BY <3>2, <3>3
    <2>4. Range(got'[l]) = Range(got[l]) \cup {Head(ch[l])}
      <3>1. /\ DOMAIN got[l] = 1..Len(got[l]) /\ DOMAIN got'[l] = 1..(Len(got[l]) + 1)
            /\ \A i \in DOMAIN got[l] : got'[l][i] = got[l][i]
            /\ got'[l][Len(got[l]) + 1] = Head(ch[l])
        BY <1>1, <2>1
      <3> QED
        BY <1>1, <3>1 DEF Range
    <2>5. /\ Shared(l) /\ due'[l] = due[l] /\ lost'[l] = lost[l]
      BY <1>0 DEF DistributionsAccounted
    <2>6. due'[l] = Pending(l)' \cup Range(ch'[l]) \cup Range(got'[l]) \cup lost'[l]
      BY <1>4, <2>3, <2>4, <2>5 DEF Shared
    <2>7. IsFiniteSet(due[l]) /\ IsFiniteSet(Pending(l)) /\ IsFiniteSet(lost[l])
      BY <2>5, FS_Subset DEF Shared
    <2>8. Cardinality(Pending(l)) \in Nat /\ Cardinality(lost[l]) \in Nat
      BY <2>7, FS_CardinalityType
    <2>9. Cardinality(due'[l]) = Cardinality(Pending(l)') + Len(ch'[l]) + Len(got'[l])
                                 + Cardinality(lost'[l])
      <3>1. Cardinality(due[l]) = Cardinality(Pending(l)) + Len(ch[l]) + Len(got[l])
                                  + Cardinality(lost[l])
        BY <2>5 DEF Shared
      <3>2. Cardinality(Pending(l)') = Cardinality(Pending(l))
        BY <1>4
      <3>3. Cardinality(due[l]) = Cardinality(Pending(l)) + (Len(ch[l]) - 1)
                                  + (Len(got[l]) + 1) + Cardinality(lost[l])
        <4> DEFINE p == Cardinality(Pending(l))
                   c == Len(ch[l])
                   g == Len(got[l])
                   n == Cardinality(lost[l])
        <4>1. p \in Nat /\ c \in Nat /\ g \in Nat /\ n \in Nat
          BY <1>1, <2>8
        <4>2. Cardinality(due[l]) = p + c + g + n
          BY <3>1
        <4> HIDE DEF p, c, g, n
        <4>3. Cardinality(due[l]) = p + (c - 1) + (g + 1) + n
          BY <4>1, <4>2, OneMoves
        <4> QED
          BY <4>3 DEF p, c, g, n
      <3>4. /\ Cardinality(due'[l]) = Cardinality(due[l])
            /\ Cardinality(lost'[l]) = Cardinality(lost[l])
        BY <2>5
      <3>5. Cardinality(due'[l]) = Cardinality(Pending(l)') + (Len(ch[l]) - 1)
                                   + (Len(got[l]) + 1) + Cardinality(lost'[l])
        BY <3>2, <3>3, <3>4
      <3> QED
        BY <2>2, <3>5
    <2> QED
      BY <1>4, <2>5, <2>6, <2>9 DEF Shared
  <1> QED
    BY <1>2, <1>3, <1>5, <1>6

LEMMA DistributionsStay ==
    ASSUME DistributionsAccounted, [Next]_vars
    PROVE  DistributionsAccounted'
  <1>0. DeliveriesAccounted' /\ DeliveriesAccounted /\ ListeningTypes
    BY DeliveriesStay DEF DistributionsAccounted
  <1> SUFFICES ListeningTypes' /\ BegunTogether' /\ \A l \in Listeners : Shared(l)'
    BY <1>0 DEF DistributionsAccounted
  <1>1. CASE \E r \in Reporters : Notify(r)
    BY <1>1, NotifyShares
  <1>2. CASE \E x \in Notes : Hub(x)
    BY <1>2, CopyShares, SendShares DEF Hub
  <1>3. CASE \E l \in Listeners : WriteEvent(l)
    BY <1>3, WriteShares
  <1>4. CASE \/ \E r \in Reporters :
                  (\E x \in Notes : Report(r, x)) \/ NotifyFails(r) \/ Alert(r)
             \/ \E v \in Videos : DeleteVideo(v)
             \/ UNCHANGED vars
    <2>1. UNCHANGED << wh, sse, sub, left, ch, got, due, lost >>
      BY <1>4 DEF Report, NotifyFails, Alert, SendFailure, CountFailure, SendAlarm,
                  RecordTranscodeSuccess, AlertUnchanged, DeleteVideo, vars, listening
    <2>2. ListeningTypes'
      BY <1>0, <2>1 DEF ListeningTypes
    <2> QED
      BY <2>1, <2>2, OthersShare
  <1>5. CASE \E x \in Notes : Webhook(x)
    <2>1. PICK x \in Notes : Webhook(x)
      BY <1>5
    <2>2. UNCHANGED << sse, sub, left, ch, got, due, lost >>
      BY <2>1 DEF Webhook, ResolveURL, ResolveFails, Attempt, Log, LogFails, listening
    <2>3. \A y \in Notes : wh[y].at # "none" => wh'[y].at # "none"
      BY <1>0, <2>1, WebhookStays
    <2>4. ListeningTypes'
      BY <1>0, <2>2 DEF ListeningTypes
    <2> QED
      BY <2>2, <2>3, <2>4, OthersShare
  <1>6. CASE \E l \in Listeners : (\E v \in Videos : Subscribe(l, v)) \/ Unsubscribe(l)
    <2>1. /\ UNCHANGED << wh, sse, ch, got, due, lost >>
          /\ sub' \in [Listeners -> Videos \cup {NoVideo}] /\ left' \subseteq Listeners
      BY <1>0, <1>6 DEF Subscribe, Unsubscribe, ListeningTypes
    <2>2. ListeningTypes'
      BY <1>0, <2>1 DEF ListeningTypes
    <2> QED
      BY <2>1, <2>2, OthersShare
  <1> QED
    BY <1>1, <1>2, <1>3, <1>4, <1>5, <1>6 DEF Next

LEMMA InitDistributions == Init => DistributionsAccounted
  <1> SUFFICES ASSUME Init PROVE DistributionsAccounted
    OBVIOUS
  <1>1. ListeningTypes /\ BegunTogether
    BY NotificationsAssumption DEF Init, ListeningTypes, BegunTogether, Distribution
  <1>2. ASSUME NEW l \in Listeners
        PROVE  Shared(l)
    <2>1. Pending(l) = {} /\ due[l] = {} /\ lost[l] = {} /\ ch[l] = << >> /\ got[l] = << >>
      BY DEF Init, Pending
    <2>2. Range(ch[l]) = {} /\ Range(got[l]) = {} /\ Len(ch[l]) = 0 /\ Len(got[l]) = 0
      BY <2>1 DEF Range
    <2>3. IsFiniteSet({}) /\ Cardinality({}) = 0
      BY FS_EmptySet
    <2> QED
      BY <2>1, <2>2, <2>3 DEF Shared
  <1> QED
    BY <1>1, <1>2, InitDeliveries DEF DistributionsAccounted

\* Every note distributed while a listener was subscribed is accounted for, in one
\* place, and lost only to its own full channel, for every number of listeners and
\* every capacity (sse.go).
THEOREM ListenersShareNothing == Spec => []ListenersAreIndependent
  <1>1. DistributionsAccounted => ListenersAreIndependent
    <2> SUFFICES ASSUME DistributionsAccounted, NEW l \in Listeners
                 PROVE  /\ due[l] = Pending(l) \cup Range(ch[l]) \cup Range(got[l]) \cup lost[l]
                        /\ Cardinality(due[l]) = Cardinality(Pending(l)) + Len(ch[l])
                                                 + Len(got[l]) + Cardinality(lost[l])
                        /\ lost[l] # {} => Cardinality(due[l]) > Capacity
                        /\ \A x \in due[l] : wh[x].at # "none"
      BY DEF ListenersAreIndependent, Pending
    <2>1. \A x \in due[l] : x \in Notes /\ sse[x].at # "none"
      BY DEF DistributionsAccounted, Shared, ListeningTypes
    <2>2. \A x \in due[l] : wh[x].at # "none"
      BY <2>1 DEF DistributionsAccounted, BegunTogether
    <2> QED
      BY <2>2 DEF DistributionsAccounted, Shared
  <1> QED
    BY <1>1, InitDistributions, DistributionsStay, PTL DEF Spec

-----------------------------------------------------------------------------
(* What a stream shows.                                                    *)

\* A listener is due what is told of one video while it is subscribed.
DueOfOneVideo ==
    \A l \in Listeners :
        /\ \A x, y \in due[l] : x[1] = y[1]
        /\ sub[l] # NoVideo => \A x \in due[l] : x[1] = sub[l]
        /\ sub[l] = NoVideo /\ l \notin left => due[l] = {}

LEMMA DueStaysOfOneVideo ==
    ASSUME DueOfOneVideo, ListeningTypes, [Next]_vars
    PROVE  DueOfOneVideo'
  <1> USE DEF DueOfOneVideo, ListeningTypes
  <1>1. CASE \E x \in Notes : Copy(x)
    <2>1. PICK x \in Notes : Copy(x)
      BY <1>1
    <2>2. /\ UNCHANGED << sub, left >>
          /\ \A l \in Listeners :
                due'[l] = IF sub[l] = x[1] THEN due[l] \cup {x} ELSE due[l]
      BY <2>1 DEF Copy
    <2>3. x[1] # NoVideo
      BY NotificationsAssumption DEF Notes
    <2>4. ASSUME NEW l \in Listeners
          PROVE  /\ \A y, z \in due'[l] : y[1] = z[1]
                 /\ sub'[l] # NoVideo => \A y \in due'[l] : y[1] = sub'[l]
                 /\ sub'[l] = NoVideo /\ l \notin left' => due'[l] = {}
      <3>1. CASE sub[l] = x[1]
        <4>1. due'[l] = due[l] \cup {x} /\ sub'[l] = x[1]
          BY <2>2, <3>1
        <4>2. \A y \in due'[l] : y[1] = x[1]
          BY <2>3, <3>1, <4>1
        <4>3. sub'[l] # NoVideo
          BY <2>3, <4>1
        <4> QED
          BY <4>1, <4>2, <4>3
      <3>2. CASE sub[l] # x[1]
        <4>1. due'[l] = due[l] /\ sub'[l] = sub[l] /\ left' = left
          BY <2>2, <3>2
        <4> QED
          BY <4>1
      <3> QED
        BY <3>1, <3>2
    <2> QED
      BY <2>4
  <1>2. CASE \E l \in Listeners : (\E v \in Videos : Subscribe(l, v)) \/ Unsubscribe(l)
    <2>1. PICK l \in Listeners : (\E v \in Videos : Subscribe(l, v)) \/ Unsubscribe(l)
      BY <1>2
    <2>2. CASE \E v \in Videos : Subscribe(l, v)
      BY <2>1, <2>2, NotificationsAssumption DEF Subscribe
    <2>3. CASE Unsubscribe(l)
      BY <2>1, <2>3 DEF Unsubscribe
    <2> QED
      BY <2>1, <2>2, <2>3
  <1>3. CASE \/ \E r \in Reporters :
                  \/ \E x \in Notes : Report(r, x)
                  \/ Notify(r) \/ NotifyFails(r) \/ Alert(r)
             \/ \E v \in Videos : DeleteVideo(v)
             \/ \E x \in Notes : Webhook(x) \/ \E l \in Listeners : Send(x, l)
             \/ \E l \in Listeners : WriteEvent(l)
             \/ UNCHANGED vars
    <2>1. UNCHANGED << sub, left, due >>
      BY <1>3 DEF Report, Notify, NotifyFails, Alert, SendFailure, CountFailure, SendAlarm,
                  RecordTranscodeSuccess, AlertUnchanged, DeleteVideo, Webhook, ResolveURL,
                  ResolveFails, Attempt, Log, LogFails, Send, WriteEvent, vars, listening
    <2> QED
      BY <2>1
  <1> QED
    BY <1>1, <1>2, <1>3 DEF Next, Hub

\* A sequence has no more elements than places, and as many only when it repeats
\* none.
LEMMA PlacesOfElements ==
    ASSUME NEW S, NEW s \in Seq(S)
    PROVE  /\ IsFiniteSet(Range(s))
           /\ Cardinality(Range(s)) \in Nat /\ Cardinality(Range(s)) <= Len(s)
           /\ Cardinality(Range(s)) = Len(s) =>
                \A i, j \in DOMAIN s : s[i] = s[j] => i = j
  <1>1. Len(s) \in Nat /\ DOMAIN s = 1..Len(s) /\ s \in [1..Len(s) -> S]
    OBVIOUS
  <1>2. IsFiniteSet(1..Len(s)) /\ Cardinality(1..Len(s)) = Len(s)
    BY <1>1, FS_Interval
  <1>3. s \in Surjection(1..Len(s), Range(s))
    BY <1>1 DEF Surjection, Range
  <1>4. /\ IsFiniteSet(Range(s))
        /\ Cardinality(Range(s)) <= Cardinality(1..Len(s))
        /\ Cardinality(Range(s)) = Cardinality(1..Len(s)) <=>
             s \in Injection(1..Len(s), Range(s))
    BY <1>2, <1>3, FS_Surjection
  <1>5. s \in Injection(1..Len(s), Range(s)) =>
          \A i, j \in DOMAIN s : s[i] = s[j] => i = j
    BY <1>1 DEF Injection, IsInjective
  <1> QED
    BY <1>2, <1>4, <1>5, FS_CardinalityType

\* Sets that together have as many elements as all of them have none in common.
LEMMA Apart ==
    ASSUME NEW A, NEW B, IsFiniteSet(A), IsFiniteSet(B)
    PROVE  /\ IsFiniteSet(A \cup B) /\ Cardinality(A \cup B) \in Nat
           /\ Cardinality(A) \in Nat /\ Cardinality(B) \in Nat
           /\ Cardinality(A \cup B) <= Cardinality(A) + Cardinality(B)
           /\ Cardinality(A \cup B) = Cardinality(A) + Cardinality(B) => A \cap B = {}
  <1>1. /\ IsFiniteSet(A \cup B)
        /\ Cardinality(A \cup B) = Cardinality(A) + Cardinality(B) - Cardinality(A \cap B)
    BY FS_Union
  <1>2. IsFiniteSet(A \cap B)
    BY FS_Subset
  <1>3. /\ Cardinality(A) \in Nat /\ Cardinality(B) \in Nat
        /\ Cardinality(A \cap B) \in Nat /\ Cardinality(A \cup B) \in Nat
    BY <1>1, <1>2, FS_CardinalityType
  <1>4. Cardinality(A \cap B) = 0 => A \cap B = {}
    BY <1>2, FS_EmptySet
  <1> QED
    BY <1>1, <1>3, <1>4

LEMMA NoRoom ==
    ASSUME NEW p \in Nat, NEW c \in Nat, NEW g \in Nat, NEW n \in Nat,
           NEW cs \in Nat, NEW gs \in Nat, NEW cn \in Nat, NEW gcn \in Nat,
           cs <= c, gs <= g, cn <= cs + n, gcn <= gs + cn, p + c + g + n <= gcn + p
    PROVE  gs = g /\ gcn = gs + cn
  OBVIOUS

\* The count that ListenersAreIndependent keeps leaves no room for a repetition.
LEMMA EachInOnePlace ==
    ASSUME NEW l \in Listeners, Shared(l), ListeningTypes
    PROVE  /\ \A i, j \in DOMAIN got[l] : got[l][i] = got[l][j] => i = j
           /\ Range(got[l]) \cap (Range(ch[l]) \cup lost[l]) = {}
  <1> DEFINE P == Pending(l)
             C == Range(ch[l])
             G == Range(got[l])
             L == lost[l]
  <1>1. /\ IsFiniteSet(C) /\ Cardinality(C) \in Nat /\ Cardinality(C) <= Len(ch[l])
        /\ IsFiniteSet(G) /\ Cardinality(G) \in Nat /\ Cardinality(G) <= Len(got[l])
        /\ Cardinality(G) = Len(got[l]) =>
             \A i, j \in DOMAIN got[l] : got[l][i] = got[l][j] => i = j
        /\ Len(ch[l]) \in Nat /\ Len(got[l]) \in Nat
    <2>1. ch[l] \in Seq(Notes) /\ got[l] \in Seq(Notes)
      BY DEF ListeningTypes
    <2> QED
      BY <2>1, PlacesOfElements
  <1>2. IsFiniteSet(P) /\ IsFiniteSet(L)
    BY FS_Subset DEF Shared
  <1>3. /\ due[l] = (G \cup (C \cup L)) \cup P
        /\ Cardinality(due[l]) = Cardinality(P) + Len(ch[l]) + Len(got[l]) + Cardinality(L)
    BY DEF Shared
  <1> HIDE DEF P, C, G, L
  <1>4. /\ IsFiniteSet(C \cup L) /\ Cardinality(C \cup L) \in Nat
        /\ Cardinality(C \cup L) <= Cardinality(C) + Cardinality(L)
        /\ Cardinality(L) \in Nat
    BY <1>1, <1>2, Apart
  <1>5. /\ IsFiniteSet(G \cup (C \cup L)) /\ Cardinality(G \cup (C \cup L)) \in Nat
        /\ Cardinality(G \cup (C \cup L)) <= Cardinality(G) + Cardinality(C \cup L)
        /\ Cardinality(G \cup (C \cup L)) = Cardinality(G) + Cardinality(C \cup L)
             => G \cap (C \cup L) = {}
    BY <1>1, <1>4, Apart
  <1>6. /\ Cardinality((G \cup (C \cup L)) \cup P)
             <= Cardinality(G \cup (C \cup L)) + Cardinality(P)
        /\ Cardinality(P) \in Nat /\ Cardinality((G \cup (C \cup L)) \cup P) \in Nat
    BY <1>2, <1>5, Apart
  <1>7. /\ Cardinality(G) = Len(got[l])
        /\ Cardinality(G \cup (C \cup L)) = Cardinality(G) + Cardinality(C \cup L)
    <2> DEFINE p == Cardinality(P)
               c == Len(ch[l])
               g == Len(got[l])
               n == Cardinality(L)
               cs == Cardinality(C)
               gs == Cardinality(G)
               cn == Cardinality(C \cup L)
               gcn == Cardinality(G \cup (C \cup L))
    <2>1. /\ p \in Nat /\ c \in Nat /\ g \in Nat /\ n \in Nat
          /\ cs \in Nat /\ gs \in Nat /\ cn \in Nat /\ gcn \in Nat
      BY <1>1, <1>4, <1>5, <1>6
    <2>2. cs <= c /\ gs <= g /\ cn <= cs + n /\ gcn <= gs + cn
      BY <1>1, <1>4, <1>5
    <2>3. p + c + g + n <= gcn + p
      <3>1. Cardinality((G \cup (C \cup L)) \cup P) = p + c + g + n
        BY <1>3
      <3> QED
        BY <1>6, <3>1
    <2> HIDE DEF p, c, g, n, cs, gs, cn, gcn
    <2>4. gs = g /\ gcn = gs + cn
      BY <2>1, <2>2, <2>3, NoRoom
    <2> QED
      BY <2>4 DEF g, gs, cn, gcn
  <1> QED
    BY <1>1, <1>5, <1>7 DEF C, G, L

\* A client is shown no note twice and none of another video, for every number of
\* listeners and every capacity (sse.go).
THEOREM StreamsTellOnce == Spec => []StreamsRepeatNothing
  <1>1. Init => DueOfOneVideo
    BY DEF Init, DueOfOneVideo
  <1>2. DistributionsAccounted => ListeningTypes
    BY DEF DistributionsAccounted
  <1>3. DistributionsAccounted /\ DueOfOneVideo => StreamsRepeatNothing
    <2> SUFFICES ASSUME DistributionsAccounted, DueOfOneVideo, NEW l \in Listeners
                 PROVE  /\ \A i, j \in DOMAIN got[l] : got[l][i] = got[l][j] => i = j
                        /\ Range(got[l]) \cap (Range(ch[l]) \cup lost[l]) = {}
                        /\ \A i, j \in DOMAIN got[l] : got[l][i][1] = got[l][j][1]
                        /\ sub[l] # NoVideo =>
                             \A i \in DOMAIN got[l] : got[l][i][1] = sub[l]
      BY DEF StreamsRepeatNothing
    <2>1. Shared(l) /\ ListeningTypes
      BY DEF DistributionsAccounted
    <2>2. \A i \in DOMAIN got[l] : got[l][i] \in due[l]
      BY <2>1 DEF Shared, Range
    <2> QED
      BY <2>1, <2>2, EachInOnePlace DEF DueOfOneVideo
  <1> QED
    BY <1>1, <1>2, <1>3, DueStaysOfOneVideo, InitDistributions, DistributionsStay, PTL
    DEF Spec

\* The types, with the capacity of the channels and the counter below its
\* threshold.
THEOREM TypeCorrect == Spec => []TypeOK
  <1>1. DistributionsAccounted /\ Counted => TypeOK
    BY DEF DistributionsAccounted, DeliveriesAccounted, Reporting, DeliveryTypes,
           ListeningTypes, Counted, TypeOK
  <1>2. Init => Counted
    BY NotificationsAssumption, OneMoreAlarm DEF Init, Counted, AlarmPerThreshold
  <1> QED
    BY <1>1, <1>2, CountingOn, InitDistributions, DistributionsStay, PTL DEF Spec
=============================================================================
