----------------------------- MODULE IoScheduler ----------------------------
(***************************************************************************)
(* AsyncIoScheduler (io/scheduler.cpp): a bounded queue of I/O requests,   *)
(* worker threads, and three condition variables, for work, for space and  *)
(* for idleness.  Unlike TaskPool it can be stopped while other threads    *)
(* submit, and it can be waited for.                                       *)
(*                                                                         *)
(* A stretch under the mutex is one step, with the notifications made in   *)
(* it; stop() notifies after the mutex is released.  A client that is in   *)
(* the middle of a call is "blocked" (space), "draining" (idleness),       *)
(* "stopping" or "joining"; "woken" is a blocked client that will look at  *)
(* the queue again.                                                        *)
(***************************************************************************)
EXTENDS Integers, Sequences, FiniteSets

CONSTANTS Workers, QueueDepth, Clients, Tasks, None

ASSUME SchedulerAssumption ==
    /\ Workers # {} /\ IsFiniteSet(Workers) /\ IsFiniteSet(Clients)
    /\ QueueDepth \in Nat /\ QueueDepth >= Cardinality(Workers)  \* the constructor sees to it
    /\ None \notin Tasks

VARIABLES queue,     \* queue_
          stopping,  \* stopping_
          active,    \* active_
          worker,    \* what each worker does next
          task,      \* the request each worker has taken
          client,    \* where each client is in a call
          cleared,   \* workers_ has been joined and cleared
          accepted   \* the requests that enqueue has taken

scheduler == <<queue, stopping, active, worker, task, client, cleared, accepted>>

WaitingWorkers == {w \in Workers : worker[w] = "waiting"}
At(s) == {c \in Clients : client[c] = s}

SchedulerInit ==
    /\ queue = <<>> /\ stopping = FALSE /\ active = 0
    /\ worker = [w \in Workers |-> "awake"]
    /\ task = [w \in Workers |-> None]
    /\ client = [c \in Clients |-> "free"]
    /\ cleared = FALSE /\ accepted = {}

\* notify_one and notify_all on a set of waiting threads.
WakeOneWorker ==
    \/ WaitingWorkers = {} /\ UNCHANGED worker
    \/ \E w \in WaitingWorkers : worker' = [worker EXCEPT ![w] = "awake"]

WakeAll(from, to) == [c \in Clients |-> IF client[c] = from THEN to ELSE client[c]]

-----------------------------------------------------------------------------
\* enqueue: the request is queued, or refused because the scheduler stops, or
\* its client has to wait for space.
enqueue(c, t) ==
    /\ client[c] \in {"free", "woken"}
    /\ IF stopping
       THEN client' = [client EXCEPT ![c] = "free"] /\ UNCHANGED <<queue, accepted, worker>>
       ELSE IF Len(queue) < QueueDepth
       THEN /\ queue' = Append(queue, t) /\ accepted' = accepted \cup {t}
            /\ WakeOneWorker
            /\ client' = [client EXCEPT ![c] = "free"]
       ELSE client' = [client EXCEPT ![c] = "blocked"] /\ UNCHANGED <<queue, accepted, worker>>
    /\ UNCHANGED <<stopping, active, task, cleared>>

TakeQuietly(w) ==
    /\ worker[w] = "awake" /\ queue # <<>>
    /\ task' = [task EXCEPT ![w] = Head(queue)]
    /\ queue' = Tail(queue)
    /\ active' = active + 1
    /\ worker' = [worker EXCEPT ![w] = "running"]
    /\ UNCHANGED <<stopping, accepted, client, cleared>>

TakeUncounted(w) ==
    /\ worker[w] = "awake" /\ queue # <<>>
    /\ task' = [task EXCEPT ![w] = Head(queue)]
    /\ queue' = Tail(queue)
    /\ active' = active
    /\ worker' = [worker EXCEPT ![w] = "running"]
    /\ \/ At("blocked") = {} /\ UNCHANGED client
       \/ \E c \in At("blocked") : client' = [client EXCEPT ![c] = "woken"]
    /\ UNCHANGED <<stopping, accepted, cleared>>

\* worker_loop up to fn(): one client that waits for space is told.
Take(w) ==
    /\ worker[w] = "awake" /\ queue # <<>>
    /\ task' = [task EXCEPT ![w] = Head(queue)]
    /\ queue' = Tail(queue)
    /\ active' = active + 1
    /\ worker' = [worker EXCEPT ![w] = "running"]
    /\ \/ At("blocked") = {} /\ UNCHANGED client
       \/ \E c \in At("blocked") : client' = [client EXCEPT ![c] = "woken"]
    /\ UNCHANGED <<stopping, accepted, cleared>>

WaitOrExit(w) ==
    /\ worker[w] = "awake" /\ queue = <<>>
    /\ worker' = [worker EXCEPT ![w] = IF stopping THEN "exited" ELSE "waiting"]
    /\ UNCHANGED <<queue, stopping, active, task, client, cleared, accepted>>

\* fn() makes the future ready; the count follows under the mutex.
Run(w) ==
    /\ worker[w] = "running"
    /\ worker' = [worker EXCEPT ![w] = "ran"]
    /\ UNCHANGED <<queue, stopping, active, task, client, cleared, accepted>>

Done(w) ==
    /\ worker[w] = "ran"
    /\ active' = active - 1
    /\ task' = [task EXCEPT ![w] = None]
    /\ worker' = [worker EXCEPT ![w] = "awake"]
    /\ client' = IF queue = <<>> /\ active = 1 THEN WakeAll("draining", "free") ELSE client
    /\ UNCHANGED <<queue, stopping, accepted, cleared>>

\* drain: returns, or waits for idle_cv_ and then looks again.
Idle == queue = <<>> /\ active = 0

drain(c) ==
    /\ client[c] = "free"
    /\ client' = IF Idle THEN client ELSE [client EXCEPT ![c] = "draining"]
    /\ UNCHANGED <<queue, stopping, active, worker, task, cleared, accepted>>

\* stop: the first call sets the flag, notifies and joins; any other returns.
stop(c) ==
    /\ client[c] = "free"
    /\ stopping' = TRUE
    /\ client' = IF stopping THEN client ELSE [client EXCEPT ![c] = "stopping"]
    /\ UNCHANGED <<queue, active, worker, task, cleared, accepted>>

StopNotifiesWorkers(c) ==
    /\ client[c] = "stopping"
    /\ worker' = [w \in Workers |-> IF worker[w] = "waiting" THEN "awake" ELSE worker[w]]
    /\ client' = [client EXCEPT ![c] = "joining"]
    /\ UNCHANGED <<queue, stopping, active, task, cleared, accepted>>

StopNotifies(c) ==
    /\ client[c] = "stopping"
    /\ worker' = [w \in Workers |-> IF worker[w] = "waiting" THEN "awake" ELSE worker[w]]
    /\ client' = [WakeAll("blocked", "woken") EXCEPT ![c] = "joining"]
    /\ UNCHANGED <<queue, stopping, active, task, cleared, accepted>>

JoinNobody(c) ==
    /\ client[c] = "joining"
    /\ cleared' = TRUE
    /\ client' = [client EXCEPT ![c] = "free"]
    /\ UNCHANGED <<queue, stopping, active, worker, task, accepted>>

StopJoins(c) ==
    /\ client[c] = "joining"
    /\ \A w \in Workers : worker[w] = "exited"
    /\ cleared' = TRUE
    /\ client' = [client EXCEPT ![c] = "free"]
    /\ UNCHANGED <<queue, stopping, active, worker, task, accepted>>

\* A wait returns without a notification.
Spurious ==
    /\ \/ \E w \in WaitingWorkers : worker' = [worker EXCEPT ![w] = "awake"] /\ UNCHANGED client
       \/ \E c \in At("blocked") : client' = [client EXCEPT ![c] = "woken"] /\ UNCHANGED worker
       \/ \E c \in At("draining") : client' = [client EXCEPT ![c] = "free"] /\ UNCHANGED worker
    /\ UNCHANGED <<queue, stopping, active, task, cleared, accepted>>

-----------------------------------------------------------------------------
SchedulerTypeOK ==
    /\ queue \in Seq(Tasks)
    /\ stopping \in BOOLEAN
    /\ active \in Nat
    /\ worker \in [Workers -> {"awake", "waiting", "running", "ran", "exited"}]
    /\ task \in [Workers -> Tasks \cup {None}]
    /\ client \in [Clients -> {"free", "blocked", "woken", "draining",
                               "stopping", "joining"}]
    /\ cleared \in BOOLEAN
    /\ accepted \subseteq Tasks

Busy == {w \in Workers : worker[w] \in {"running", "ran"}}

\* None of the three condition variables loses a wakeup.  Queued work has a
\* worker that will come to it or a stop() about to wake them all; the free
\* places of the queue are spoken for by clients on their way while another
\* waits for one, unless such a stop() is coming; and nobody waits for
\* idleness in an idle scheduler.
NoLostWakeup ==
    /\ queue # <<>> =>
          At("stopping") # {} \/ \E w \in Workers : worker[w] \in {"awake", "running", "ran"}
    /\ At("blocked") # {} =>
          \/ ~stopping /\ Len(queue) + Cardinality(At("woken")) >= QueueDepth
          \/ At("stopping") # {}
    /\ At("draining") # {} => ~Idle

\* active_ counts the workers between the two stretches of worker_loop, so that
\* drain returns only when nothing is queued and nothing runs; and no more
\* than queue_depth requests wait.
Accounted ==
    /\ active = Cardinality(Busy)
    /\ Len(queue) <= QueueDepth

\* When the stop() that set the flag has returned, nothing is queued, nothing
\* runs, and no client is left waiting for space or for idleness.
StoppedIsQuiet ==
    cleared =>
        /\ queue = <<>> /\ active = 0
        /\ \A w \in Workers : worker[w] = "exited"
        /\ At("blocked") = {} /\ At("draining") = {}
=============================================================================
