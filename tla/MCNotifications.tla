-------------------------- MODULE MCNotifications ---------------------------
(* An instance of Notifications for TLC: reporters, listeners and serials are  *)
(* interchangeable. A webhook, the streams and the alerter do not touch each   *)
(* other, so the bounds below follow them by turns.                            *)
EXTENDS Notifications, TLC

CONSTANT MaxFollowed    \* bound: reports while webhooks or streams are followed

Symmetry ==
    Permutations(Reporters) \cup Permutations(Listeners) \cup Permutations(Serials)

Streams == \E l \in Listeners : sub[l] # NoVideo \/ l \in left
Webhooks == {x \in Notes : wh[x].at \notin {"none", "resolve"}}
Begun == {x \in Notes : wh[x].at # "none"}
Alarms == row > 0 \/ Cardinality(reported) > MaxFollowed

\* A serial only tells a second report of an event from the first.
SerialsNeeded ==
    \A x, y \in reported : x[3] = y[3] \/ (x[1] = y[1] /\ x[2] = y[2])

Bounded ==
    /\ Cardinality(Webhooks) <= IF Streams THEN 0 ELSE 1
    /\ Streams \/ Alarms => there = Videos
    /\ Streams \/ Begun # {} =>
        /\ ~Alarms /\ SerialsNeeded
        /\ Cardinality({r \in Reporters : at[r] # "idle"}) <= 1
=============================================================================
