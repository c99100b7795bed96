----------------------------- MODULE WorkQueue -----------------------------
(***************************************************************************)
(* What the transcode queue is to its users (transcode/queue.go and the    *)
(* requeue job, jobs/requeue.go): a bounded first-in first-out buffer in   *)
(* front of a pool of servers. A job that waits or is served is not put    *)
(* there again, unless it has timed out: then it may be put there once     *)
(* more, although a server may still be at it. All of this is memory: when *)
(* the process ends every job is forgotten at once.                        *)
(*                                                                         *)
(* The channel itself refuses nobody twice; that nothing is put in it      *)
(* without need is what the callers of Enqueue owe to the status machine.  *)
(***************************************************************************)
EXTENDS Naturals, Sequences, Functions

CONSTANTS Jobs, Servers, NoJob, Capacity

VARIABLES
    pending,   \* the jobs that wait, the oldest first
    serving,   \* each server's job, or NoJob
    overdue    \* the jobs that have timed out and may be put there once more

vars == << pending, serving, overdue >>

Known(j) == j \in Range(pending) \cup Range(serving)

Init ==
    /\ pending = << >>
    /\ serving = [s \in Servers |-> NoJob]
    /\ overdue = {}

\* The send on a channel that has room.
Put(j) ==
    /\ Known(j) => j \in overdue
    /\ Len(pending) < Capacity
    /\ pending' = Append(pending, j)
    /\ overdue' = overdue \ {j}
    /\ UNCHANGED serving

\* The receive by a server that is back in its loop.
Take(s) ==
    /\ serving[s] = NoJob
    /\ pending # << >>
    /\ serving' = [serving EXCEPT ![s] = Head(pending)]
    /\ pending' = Tail(pending)
    /\ UNCHANGED overdue

\* The server's call returns, with or without an error.
Done(s) ==
    /\ serving[s] # NoJob
    /\ serving' = [serving EXCEPT ![s] = NoJob]
    /\ UNCHANGED << pending, overdue >>

\* A round of the requeue job finds jobs that have timed out; the round before has
\* dealt with all of its own.
TimeOut(S) ==
    /\ overdue = {}
    /\ overdue' = S
    /\ UNCHANGED << pending, serving >>

\* A job that has timed out is not put back: the buffer is full, or the job has come
\* to its end meanwhile.
Forgo(j) ==
    /\ j \in overdue
    /\ overdue' = overdue \ {j}
    /\ UNCHANGED << pending, serving >>

\* The end of the process.
Lose ==
    /\ pending' = << >>
    /\ serving' = [s \in Servers |-> NoJob]
    /\ overdue' = {}

Next ==
    \/ \E j \in Jobs : Put(j) \/ Forgo(j)
    \/ \E s \in Servers : Take(s) \/ Done(s)
    \/ \E S \in SUBSET Jobs : TimeOut(S)
    \/ Lose

Spec == Init /\ [][Next]_vars
=============================================================================
