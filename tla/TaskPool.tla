------------------------------ MODULE TaskPool ------------------------------
(***************************************************************************)
(* TaskPool (include/fsx/task_pool.hpp): a bounded queue, worker threads,  *)
(* and the two condition variables between them.  Every pool of the        *)
(* program is a local of the function that submits to it, so one thread,   *)
(* the owner, submits and later runs the destructor.                       *)
(*                                                                         *)
(* A stretch under the mutex is one step; the notifications, which are     *)
(* made after it is released, are steps of their own.  A thread that waits *)
(* on a condition variable goes on when it is notified, or for no reason.  *)
(* What a task does is the step of the module that extends this one.       *)
(***************************************************************************)
EXTENDS Integers, Sequences, FiniteSets

CONSTANTS Workers,     \* the threads of workers_
          QueueLimit,  \* queue_limit_
          Tasks,       \* what can be submitted
          None         \* no task

ASSUME PoolAssumption ==
    /\ Workers # {} /\ IsFiniteSet(Workers)
    /\ QueueLimit \in Nat \ {0}
    /\ None \notin Tasks

VARIABLES queue,     \* queue_
          stopping,  \* stopping_
          worker,    \* what each worker does next
          task,      \* the task each worker has taken
          owner      \* what the owner does next

pool == <<queue, stopping, worker, task, owner>>

Waiting == {w \in Workers : worker[w] = "waiting"}

PoolInit ==
    /\ queue = <<>> /\ stopping = FALSE
    /\ worker = [w \in Workers |-> "awake"]
    /\ task = [w \in Workers |-> None]
    /\ owner = "free"

-----------------------------------------------------------------------------
\* submit.  When the queue is full the owner waits on have_space_, and calls
\* again once woken.  It cannot find stopping_ set: only its own destructor
\* sets it.
submit(t) ==
    /\ owner = "free"
    /\ IF Len(queue) < QueueLimit
       THEN queue' = Append(queue, t) /\ owner' = "notify"
       ELSE owner' = "blocked" /\ UNCHANGED queue
    /\ UNCHANGED <<stopping, worker, task>>

\* have_work_.notify_one(), after the mutex is released.
NotifyWorkNobody ==
    /\ owner = "notify"
    /\ owner' = "free"
    /\ UNCHANGED <<queue, stopping, worker, task>>

NotifyWork ==
    /\ owner = "notify"
    /\ owner' = "free"
    /\ \/ Waiting = {} /\ UNCHANGED worker
       \/ \E w \in Waiting : worker' = [worker EXCEPT ![w] = "awake"]
    /\ UNCHANGED <<queue, stopping, task>>

\* worker_loop: the predicate of have_work_.wait holds, and the front is taken.
Take(w) ==
    /\ worker[w] = "awake"
    /\ queue # <<>>
    /\ task' = [task EXCEPT ![w] = Head(queue)]
    /\ queue' = Tail(queue)
    /\ worker' = [worker EXCEPT ![w] = "taken"]
    /\ UNCHANGED <<stopping, owner>>

\* The predicate does not hold, or the pool stops with nothing left to run.
WaitOrExitEarly(w) ==
    /\ worker[w] = "awake"
    /\ queue = <<>> \/ stopping
    /\ worker' = [worker EXCEPT ![w] = IF stopping THEN "exited" ELSE "waiting"]
    /\ UNCHANGED <<queue, stopping, task, owner>>

WaitOrExit(w) ==
    /\ worker[w] = "awake"
    /\ queue = <<>>
    /\ worker' = [worker EXCEPT ![w] = IF stopping THEN "exited" ELSE "waiting"]
    /\ UNCHANGED <<queue, stopping, task, owner>>

NotifySpaceNobody(w) ==
    /\ worker[w] = "taken"
    /\ worker' = [worker EXCEPT ![w] = "running"]
    /\ UNCHANGED <<queue, stopping, task, owner>>

\* have_space_.notify_one(); the owner is the only thread that waits for it.
NotifySpace(w) ==
    /\ worker[w] = "taken"
    /\ worker' = [worker EXCEPT ![w] = "running"]
    /\ owner' = IF owner = "blocked" THEN "free" ELSE owner
    /\ UNCHANGED <<queue, stopping, task>>

\* task() returns or throws; packaged_task stores either in the future.
Finish(w) ==
    /\ worker[w] = "running"
    /\ worker' = [worker EXCEPT ![w] = "awake"]
    /\ task' = [task EXCEPT ![w] = None]
    /\ UNCHANGED <<queue, stopping, owner>>

\* A wait returns without a notification.
Spurious ==
    /\ \/ \E w \in Waiting : worker' = [worker EXCEPT ![w] = "awake"] /\ UNCHANGED owner
       \/ owner = "blocked" /\ owner' = "free" /\ UNCHANGED worker
    /\ UNCHANGED <<queue, stopping, task>>

\* ~TaskPool: the flag under the mutex, both notify_all calls, the joins.
Destroy ==
    /\ owner = "free"
    /\ stopping' = TRUE
    /\ owner' = "stopping"
    /\ UNCHANGED <<queue, worker, task>>

NotifyAll ==
    /\ owner = "stopping"
    /\ worker' = [w \in Workers |-> IF w \in Waiting THEN "awake" ELSE worker[w]]
    /\ owner' = "joining"
    /\ UNCHANGED <<queue, stopping, task>>

Join ==
    /\ owner = "joining"
    /\ \A w \in Workers : worker[w] = "exited"
    /\ owner' = "gone"
    /\ UNCHANGED <<queue, stopping, worker, task>>

-----------------------------------------------------------------------------
PoolTypeOK ==
    /\ queue \in Seq(Tasks)
    /\ stopping \in BOOLEAN
    /\ worker \in [Workers -> {"awake", "waiting", "taken", "running", "exited"}]
    /\ task \in [Workers -> Tasks \cup {None}]
    /\ owner \in {"free", "blocked", "notify", "stopping", "joining", "gone"}

\* A worker that will look at the queue again without being notified.
Busy(w) == worker[w] \in {"awake", "taken", "running"}

\* No wakeup of submit, worker_loop or the destructor is lost.  Queued work has
\* a worker that will come to it, or a notification on its way; an owner that
\* waits for space has a full queue or a worker about to wake it.
NoLostWakeup ==
    /\ queue # <<>> =>
          \/ owner \in {"notify", "stopping"}
          \/ \E w \in Workers : Busy(w)
    /\ owner = "blocked" =>
          \/ Len(queue) = QueueLimit
          \/ \E w \in Workers : worker[w] = "taken"
    /\ owner \in {"joining", "gone"} => Waiting = {}

\* When the destructor has returned, every task that was submitted has been run
\* and no thread of the pool is left.
DestroyedIsQuiet ==
    owner = "gone" => /\ queue = <<>>
                      /\ \A w \in Workers : worker[w] = "exited" /\ task[w] = None
=============================================================================
