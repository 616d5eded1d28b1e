----------------------------- MODULE ScrubProofs ----------------------------
(***************************************************************************)
(* The scheduler loses no wakeup, counts what runs, and is quiet once      *)
(* stopped; and a scrub that reports success has read every chunk in every *)
(* pass: for every number of workers, clients, chunks and passes, every    *)
(* queue depth and window, and every interleaving.                         *)
(***************************************************************************)
EXTENDS Scrub, FiniteSetTheorems, TLAPS

\* The thread between a task's start and the end of its bookkeeping has it.
Held == \A w \in Workers : task[w] # None <=> w \in Busy

\* A thread leaves worker_loop only when the flag is set and the queue is empty,
\* after which nothing is queued.  Of the calls of stop() one goes on past the
\* flag, and when it has returned every worker has left.
InStop == At("stopping") \cup At("joining")

Ending ==
    /\ \A w \in Workers : worker[w] = "exited" => stopping /\ queue = <<>>
    /\ \A c, d \in InStop : c = d
    /\ stopping <=> cleared \/ InStop # {}
    /\ cleared => InStop = {} /\ \A w \in Workers : worker[w] = "exited"

SchedulerInv == SchedulerTypeOK /\ Accounted /\ NoLostWakeup /\ Held /\ Ending

\* The sets that are counted are finite.
LEMMA Finite ==
    /\ IsFiniteSet(Busy) /\ Cardinality(Busy) \in Nat
    /\ IsFiniteSet(At("woken")) /\ Cardinality(At("woken")) \in Nat
    /\ IsFiniteSet(Busy') /\ Cardinality(Busy') \in Nat
    /\ IsFiniteSet(At("woken")') /\ Cardinality(At("woken")') \in Nat
<1>1. IsFiniteSet(Workers) /\ IsFiniteSet(Clients)
  BY SchedulerAssumption
<1>2. Busy \in SUBSET Workers /\ Busy' \in SUBSET Workers
  BY DEF Busy
<1>3. At("woken") \in SUBSET Clients /\ At("woken")' \in SUBSET Clients
  BY DEF At
<1>. QED
  BY <1>1, <1>2, <1>3, FS_Subset, FS_CardinalityType

\* A client that goes to another place of its call.
LEMMA ClientMoves ==
    ASSUME NEW c \in Clients, \A d \in Clients \ {c} : client'[d] = client[d]
    PROVE  /\ client'[c] # "blocked" => At("blocked")' \subseteq At("blocked")
           /\ client'[c] # "draining" => At("draining")' \subseteq At("draining")
           /\ client[c] # "draining" => At("draining") \subseteq At("draining")'
           /\ client[c] # "stopping" => At("stopping") \subseteq At("stopping")'
           /\ {client[c], client'[c]} \cap {"stopping", "joining"} = {} =>
                 InStop' = InStop /\ At("stopping")' = At("stopping")
           /\ Cardinality(At("woken")') = Cardinality(At("woken"))
                                          + (IF client'[c] = "woken" THEN 1 ELSE 0)
                                          - (IF client[c] = "woken" THEN 1 ELSE 0)
<1>1. /\ client'[c] # "blocked" => At("blocked")' \subseteq At("blocked")
      /\ client'[c] # "draining" => At("draining")' \subseteq At("draining")
      /\ client[c] # "draining" => At("draining") \subseteq At("draining")'
      /\ client[c] # "stopping" => At("stopping") \subseteq At("stopping")'
      /\ {client[c], client'[c]} \cap {"stopping", "joining"} = {} =>
            InStop' = InStop /\ At("stopping")' = At("stopping")
  BY Zenon DEF At, InStop
<1>2. At("woken")' = IF client'[c] = "woken" THEN At("woken") \cup {c} ELSE At("woken") \ {c}
  BY DEF At
<1>3. c \in At("woken") <=> client[c] = "woken"
  BY DEF At
<1>4. /\ c \notin At("woken") => At("woken") \ {c} = At("woken")
      /\ c \in At("woken") => At("woken") \cup {c} = At("woken")
  OBVIOUS
<1>. QED
  BY <1>1, <1>2, <1>3, <1>4, Finite, FS_AddElement, FS_RemoveElement

\* A worker that goes on.
LEMMA WorkerMoves ==
    ASSUME NEW w \in Workers, \A v \in Workers \ {w} : worker'[v] = worker[v]
    PROVE  Cardinality(Busy') = Cardinality(Busy)
                                + (IF worker'[w] \in {"running", "ran"} THEN 1 ELSE 0)
                                - (IF w \in Busy THEN 1 ELSE 0)
<1>1. Busy' = IF worker'[w] \in {"running", "ran"} THEN Busy \cup {w} ELSE Busy \ {w}
  BY DEF Busy
<1>2. /\ w \notin Busy => Busy \ {w} = Busy
      /\ w \in Busy => Busy \cup {w} = Busy
  OBVIOUS
<1>. QED
  BY <1>1, <1>2, Finite, FS_AddElement, FS_RemoveElement

SchedulerStep ==
    \/ \E c \in Clients, t \in Tasks : enqueue(c, t)
    \/ \E w \in Workers : Take(w) \/ WaitOrExit(w) \/ Run(w) \/ Done(w)
    \/ \E c \in Clients : drain(c) \/ stop(c) \/ StopNotifies(c) \/ StopJoins(c)
    \/ Spurious
    \/ UNCHANGED scheduler

\* Every step of the scheduler keeps its invariant.
LEMMA SchedulerKeeps == SchedulerInv /\ SchedulerStep => SchedulerInv'
<1>. SUFFICES ASSUME SchedulerInv PROVE SchedulerStep => SchedulerInv'
  OBVIOUS
<1>. USE SchedulerAssumption DEF SchedulerInv
<1>1. ASSUME NEW c \in Clients, NEW t \in Tasks, enqueue(c, t) PROVE SchedulerInv'
  <2>1. SchedulerTypeOK'
    BY <1>1 DEF enqueue, WakeOneWorker, WaitingWorkers, SchedulerTypeOK
  <2>2. Busy' = Busy /\ Held'
    BY <1>1 DEF enqueue, WakeOneWorker, WaitingWorkers, SchedulerTypeOK, Busy, Held
  <2>3. Accounted'
    BY <1>1, <2>2 DEF enqueue, SchedulerTypeOK, Accounted
  <2>4. client[c] \in {"free", "woken"}
    BY <1>1 DEF enqueue
  <2>5. CASE stopping
    <3>1. /\ client' = [client EXCEPT ![c] = "free"]
          /\ UNCHANGED <<queue, worker, stopping, active, cleared>>
      BY <1>1, <2>5 DEF enqueue
    <3>2. client'[c] = "free" /\ \A d \in Clients \ {c} : client'[d] = client[d]
      BY <3>1 DEF SchedulerTypeOK
    <3>3. /\ InStop' = InStop /\ At("blocked")' \subseteq At("blocked")
          /\ At("draining")' = At("draining") /\ At("stopping")' = At("stopping")
      BY <2>4, <3>2, ClientMoves, Zenon
    <3>. QED
      BY <2>1, <2>2, <2>3, <2>5, <3>1, <3>3, Zenon DEF NoLostWakeup, Ending, Idle
  <2>6. CASE ~stopping /\ Len(queue) < QueueDepth
    <3>1. /\ client' = [client EXCEPT ![c] = "free"] /\ queue' = Append(queue, t)
          /\ WakeOneWorker /\ UNCHANGED <<stopping, active, cleared>>
      BY <1>1, <2>6 DEF enqueue
    <3>2. /\ \A w \in Workers : worker[w] # "exited" /\ worker'[w] # "exited"
          /\ \E w \in Workers : worker'[w] \in {"awake", "running", "ran"}
      BY <3>1, <2>6 DEF WakeOneWorker, WaitingWorkers, SchedulerTypeOK, Ending
    <3>3. queue' # <<>> /\ Len(queue') = Len(queue) + 1 /\ Len(queue) \in Nat
      BY <3>1 DEF SchedulerTypeOK
    <3>0. client'[c] = "free" /\ \A d \in Clients \ {c} : client'[d] = client[d]
      BY <3>1 DEF SchedulerTypeOK
    <3>4. InStop' = InStop /\ InStop = {}
      BY <3>0, <2>4, <2>6, ClientMoves DEF Ending
    <3>5. Ending'
      BY <3>1, <3>2, <3>4, <2>6 DEF Ending
    <3>6. /\ At("blocked")' \subseteq At("blocked") /\ At("stopping")' = At("stopping")
          /\ Cardinality(At("woken")') >= Cardinality(At("woken")) - 1
      BY <3>0, <2>4, ClientMoves, Finite
    <3>7. NoLostWakeup'
      BY <3>1, <3>2, <3>3, <3>4, <3>6, <2>6, Finite DEF NoLostWakeup, Idle, InStop
    <3>. QED
      BY <2>1, <2>2, <2>3, <3>5, <3>7
  <2>7. CASE ~stopping /\ ~(Len(queue) < QueueDepth)
    <3>1. /\ client' = [client EXCEPT ![c] = "blocked"]
          /\ UNCHANGED <<queue, worker, stopping, active, cleared>>
      BY <1>1, <2>7 DEF enqueue
    <3>2. InStop' = InStop /\ At("draining")' = At("draining") /\ At("stopping")' = At("stopping")
      <4>1. client'[c] = "blocked" /\ \A d \in Clients \ {c} : client'[d] = client[d]
        BY <3>1 DEF SchedulerTypeOK
      <4>. QED
        BY <4>1, <2>4, ClientMoves, Zenon
    <3>3. Len(queue) + Cardinality(At("woken")') >= QueueDepth
      BY <2>7, Finite DEF SchedulerTypeOK
    <3>. QED
      BY <2>1, <2>2, <2>3, <2>7, <3>1, <3>2, <3>3, Zenon DEF NoLostWakeup, Ending, Idle
  <2>. QED
    BY <2>5, <2>6, <2>7
<1>2. ASSUME NEW w \in Workers, Take(w) PROVE SchedulerInv'
  <2>0. /\ worker[w] = "awake" /\ queue # <<>> /\ queue' = Tail(queue) /\ active' = active + 1
        /\ worker' = [worker EXCEPT ![w] = "running"] /\ task' = [task EXCEPT ![w] = Head(queue)]
        /\ UNCHANGED <<stopping, cleared>>
    BY <1>2 DEF Take
  <2>1. Len(queue') = Len(queue) - 1 /\ Len(queue) \in Nat /\ Head(queue) \in Tasks /\ queue' \in Seq(Tasks)
    BY <2>0 DEF SchedulerTypeOK
  <2>2. SchedulerTypeOK'
    BY <1>2, <2>0, <2>1 DEF Take, At, SchedulerTypeOK
  <2>3. w \notin Busy /\ Held'
    BY <2>0, <2>1 DEF SchedulerTypeOK, Busy, Held
  <2>4. Accounted'
    <3>1. worker'[w] = "running" /\ \A v \in Workers \ {w} : worker'[v] = worker[v]
      BY <2>0 DEF SchedulerTypeOK
    <3>. QED
      BY <2>0, <2>1, <2>3, <3>1, WorkerMoves, Finite DEF Accounted
  <2>5. ~cleared /\ \A v \in Workers : worker[v] # "exited" /\ worker'[v] # "exited"
    BY <2>0 DEF Ending, SchedulerTypeOK
  <2>6. /\ At("stopping")' = At("stopping") /\ InStop' = InStop
        /\ At("draining")' = At("draining")
        /\ At("blocked")' # {} => /\ At("blocked") # {}
                                  /\ Cardinality(At("woken")') = Cardinality(At("woken")) + 1
    <3>1. CASE At("blocked") = {} /\ UNCHANGED client
      BY <3>1 DEF At, InStop
    <3>2. ASSUME NEW c \in At("blocked"), client' = [client EXCEPT ![c] = "woken"]
          PROVE  /\ At("stopping")' = At("stopping") /\ InStop' = InStop
                 /\ At("draining")' = At("draining")
                 /\ Cardinality(At("woken")') = Cardinality(At("woken")) + 1
      <4>1. c \in Clients /\ client[c] = "blocked"
        BY DEF At
      <4>2. client'[c] = "woken" /\ \A d \in Clients \ {c} : client'[d] = client[d]
        BY <3>2, <4>1 DEF SchedulerTypeOK
      <4>3. Cardinality(At("woken")') = Cardinality(At("woken")) + 1
        BY <4>1, <4>2, ClientMoves, Finite
      <4>. QED
        BY <4>1, <4>2, <4>3, ClientMoves, Zenon
    <3>. QED
      BY <1>2, <3>1, <3>2 DEF Take, InStop
  <2>7. Ending'
    BY <2>0, <2>5, <2>6 DEF Ending
  <2>8. worker'[w] = "running" /\ active' # 0
    BY <2>0 DEF SchedulerTypeOK
  <2>9. NoLostWakeup'
    BY <2>0, <2>1, <2>6, <2>8, Finite DEF NoLostWakeup, Idle
  <2>. QED
    BY <2>2, <2>3, <2>4, <2>7, <2>9
<1>3. ASSUME NEW w \in Workers, WaitOrExit(w) PROVE SchedulerInv'
  <2>0. /\ worker[w] = "awake" /\ queue = <<>>
        /\ worker' = [worker EXCEPT ![w] = IF stopping THEN "exited" ELSE "waiting"]
        /\ UNCHANGED <<queue, stopping, active, task, client, cleared, accepted>>
    BY <1>3 DEF WaitOrExit
  <2>1. SchedulerTypeOK' /\ Held' /\ Busy' = Busy
    BY <2>0 DEF SchedulerTypeOK, Held, Busy
  <2>3. NoLostWakeup' /\ InStop' = InStop
    BY <2>0 DEF NoLostWakeup, InStop, At, Idle
  <2>4. Ending'
    BY <2>0, <2>3 DEF Ending, SchedulerTypeOK
  <2>. QED
    BY <2>0, <2>1, <2>3, <2>4 DEF Accounted
<1>4. ASSUME NEW w \in Workers, Run(w) PROVE SchedulerInv'
  <2>0. /\ worker[w] = "running" /\ worker' = [worker EXCEPT ![w] = "ran"]
        /\ UNCHANGED <<queue, stopping, active, task, client, cleared, accepted>>
    BY <1>4 DEF Run
  <2>1. SchedulerTypeOK' /\ Held' /\ Busy' = Busy
    BY <2>0 DEF SchedulerTypeOK, Held, Busy
  <2>2. InStop' = InStop /\ At("woken")' = At("woken") /\ At("blocked")' = At("blocked")
        /\ At("draining")' = At("draining") /\ At("stopping")' = At("stopping")
    BY <2>0 DEF InStop, At
  <2>3. /\ worker'[w] = "ran"
        /\ \A v \in Workers : worker'[v] = "exited" <=> worker[v] = "exited"
    BY <2>0 DEF SchedulerTypeOK
  <2>4. NoLostWakeup' /\ Ending'
    BY <2>0, <2>2, <2>3 DEF NoLostWakeup, Idle, Ending
  <2>. QED
    BY <2>0, <2>1, <2>4 DEF Accounted
<1>5. ASSUME NEW w \in Workers, Done(w) PROVE SchedulerInv'
  <2>0. /\ worker[w] = "ran" /\ worker' = [worker EXCEPT ![w] = "awake"] /\ active' = active - 1
        /\ client' = IF queue = <<>> /\ active = 1 THEN WakeAll("draining", "free") ELSE client
        /\ task' = [task EXCEPT ![w] = None]
        /\ UNCHANGED <<queue, stopping, accepted, cleared>>
    BY <1>5 DEF Done
  <2>1. w \in Busy /\ Held'
    BY <2>0 DEF SchedulerTypeOK, Busy, Held
  <2>2. Accounted' /\ active' \in Nat
    <3>1. worker'[w] = "awake" /\ \A v \in Workers \ {w} : worker'[v] = worker[v]
      BY <2>0 DEF SchedulerTypeOK
    <3>. QED
      BY <2>0, <2>1, <3>1, WorkerMoves, Finite DEF Accounted
  <2>3. /\ SchedulerTypeOK' /\ worker'[w] = "awake"
        /\ \A v \in Workers : worker'[v] = "exited" <=> worker[v] = "exited"
    BY <2>0, <2>2 DEF SchedulerTypeOK, WakeAll
  <2>4. /\ InStop' = InStop /\ At("woken")' = At("woken") /\ At("blocked")' = At("blocked")
        /\ At("stopping")' = At("stopping")
        /\ At("draining")' = IF queue = <<>> /\ active = 1 THEN {} ELSE At("draining")
    BY <2>0 DEF InStop, At, WakeAll
  <2>5. NoLostWakeup'
    BY <2>0, <2>3, <2>4 DEF NoLostWakeup, Idle, SchedulerTypeOK
  <2>6. Ending'
    BY <2>0, <2>3, <2>4 DEF Ending
  <2>. QED
    BY <2>1, <2>2, <2>3, <2>5, <2>6
<1>6. ASSUME NEW c \in Clients, drain(c) PROVE SchedulerInv'
  <2>0. /\ client[c] = "free"
        /\ client' = IF Idle THEN client ELSE [client EXCEPT ![c] = "draining"]
        /\ UNCHANGED <<queue, stopping, active, worker, task, cleared, accepted>>
    BY <1>6 DEF drain
  <2>1. SchedulerTypeOK' /\ Held' /\ Busy' = Busy
    BY <2>0, Zenon DEF SchedulerTypeOK, Held, Busy
  <2>2. /\ InStop' = InStop /\ At("woken")' = At("woken") /\ At("blocked")' = At("blocked")
        /\ At("stopping")' = At("stopping")
        /\ Idle => At("draining")' = At("draining")
    BY <2>0, Zenon DEF InStop, At, SchedulerTypeOK
  <2>3. NoLostWakeup' /\ Ending'
    BY <2>0, <2>2 DEF NoLostWakeup, Idle, Ending
  <2>. QED
    BY <2>0, <2>1, <2>3 DEF Accounted
<1>7. ASSUME NEW c \in Clients, stop(c) PROVE SchedulerInv'
  <2>0. /\ client[c] = "free" /\ stopping' = TRUE
        /\ client' = IF stopping THEN client ELSE [client EXCEPT ![c] = "stopping"]
        /\ UNCHANGED <<queue, active, worker, task, cleared, accepted>>
    BY <1>7 DEF stop
  <2>1. SchedulerTypeOK' /\ Held' /\ Busy' = Busy
    BY <2>0, Zenon DEF SchedulerTypeOK, Held, Busy
  <2>2. CASE stopping
    <3>1. UNCHANGED <<client, stopping>>
      BY <2>0, <2>2 DEF SchedulerTypeOK
    <3>2. /\ InStop' = InStop /\ At("woken")' = At("woken") /\ At("blocked")' = At("blocked")
          /\ At("stopping")' = At("stopping") /\ At("draining")' = At("draining")
      BY <3>1, Zenon DEF InStop, At
    <3>. QED
      BY <2>0, <2>1, <3>1, <3>2 DEF Accounted, NoLostWakeup, Ending, Idle
  <2>3. CASE ~stopping
    <3>1. /\ c \in At("stopping")' /\ InStop = {} /\ ~cleared
          /\ InStop' = {c} /\ At("draining")' = At("draining")
      BY <2>0, <2>3 DEF InStop, At, SchedulerTypeOK, Ending
    <3>. QED
      BY <2>0, <2>1, <2>3, <3>1, Zenon DEF Accounted, NoLostWakeup, Ending, Idle
  <2>. QED
    BY <2>2, <2>3
<1>8. ASSUME NEW c \in Clients, StopNotifies(c) PROVE SchedulerInv'
  <2>0. /\ client[c] = "stopping"
        /\ worker' = [v \in Workers |-> IF worker[v] = "waiting" THEN "awake" ELSE worker[v]]
        /\ client' = [WakeAll("blocked", "woken") EXCEPT ![c] = "joining"]
        /\ UNCHANGED <<queue, stopping, active, task, cleared, accepted>>
    BY <1>8, Zenon DEF StopNotifies
  <2>1. SchedulerTypeOK' /\ Held' /\ Busy' = Busy
    BY <2>0, Zenon DEF SchedulerTypeOK, Held, Busy, WakeAll
  <2>2. /\ c \in InStop /\ InStop = {c} /\ InStop' = {c}
        /\ At("blocked")' = {} /\ At("draining")' = At("draining")
    <3>1. c \in InStop /\ InStop = {c}
      BY <2>0, Zenon DEF InStop, At, Ending
    <3>2. \A d \in Clients : client'[d] = IF d = c THEN "joining" ELSE
                                          IF client[d] = "blocked" THEN "woken" ELSE client[d]
      BY <2>0 DEF WakeAll
    <3>. QED
      BY <2>0, <3>1, <3>2 DEF InStop, At
  <2>3. \A v \in Workers : /\ worker'[v] = "exited" <=> worker[v] = "exited"
                           /\ worker'[v] # "waiting"
    BY <2>0, Zenon
  <2>4. queue # <<>> => \E v \in Workers : worker'[v] \in {"awake", "running", "ran"}
    BY <2>1, <2>3 DEF SchedulerTypeOK, Ending
  <2>5. NoLostWakeup' /\ Ending'
    BY <2>0, <2>2, <2>3, <2>4, Zenon DEF NoLostWakeup, Idle, Ending
  <2>. QED
    BY <2>0, <2>1, <2>5 DEF Accounted
<1>9. ASSUME NEW c \in Clients, StopJoins(c) PROVE SchedulerInv'
  <2>0. /\ client[c] = "joining" /\ \A w \in Workers : worker[w] = "exited"
        /\ cleared' = TRUE /\ client' = [client EXCEPT ![c] = "free"]
        /\ UNCHANGED <<queue, stopping, active, worker, task, accepted>>
    BY <1>9 DEF StopJoins
  <2>1. SchedulerTypeOK' /\ Held' /\ Busy' = Busy
    BY <2>0 DEF SchedulerTypeOK, Held, Busy
  <2>2. InStop = {c} /\ stopping /\ queue = <<>> /\ At("stopping") = {}
    BY <2>0, Zenon DEF InStop, At, Ending
  <2>3. InStop' = {} /\ At("blocked")' = At("blocked") /\ At("draining")' = At("draining")
    BY <2>0, <2>2, Zenon DEF InStop, At, SchedulerTypeOK
  <2>4. NoLostWakeup' /\ Ending'
    BY <2>0, <2>2, <2>3, Zenon DEF NoLostWakeup, Idle, Ending
  <2>. QED
    BY <2>0, <2>1, <2>4, Zenon DEF Accounted
<1>10. ASSUME Spurious PROVE SchedulerInv'
  <2>0. UNCHANGED <<queue, stopping, active, task, cleared, accepted>>
    BY <1>10 DEF Spurious
  <2>1. ASSUME NEW w \in WaitingWorkers, worker' = [worker EXCEPT ![w] = "awake"], UNCHANGED client
        PROVE  SchedulerInv'
    <3>1. w \in Workers /\ SchedulerTypeOK' /\ Held' /\ Busy' = Busy
      BY <2>0, <2>1, Zenon DEF SchedulerTypeOK, Held, Busy, WaitingWorkers
    <3>2. /\ InStop' = InStop /\ At("woken")' = At("woken") /\ At("blocked")' = At("blocked")
          /\ At("draining")' = At("draining") /\ At("stopping")' = At("stopping")
      BY <2>1 DEF InStop, At
    <3>3. /\ worker'[w] = "awake" /\ worker[w] = "waiting"
          /\ \A v \in Workers : worker'[v] = "exited" <=> worker[v] = "exited"
      BY <2>1, Zenon DEF SchedulerTypeOK, WaitingWorkers
    <3>4. NoLostWakeup' /\ Ending'
      BY <2>0, <3>1, <3>2, <3>3, Zenon DEF NoLostWakeup, Idle, Ending
    <3>. QED
      BY <2>0, <3>1, <3>4, Zenon DEF Accounted
  <2>2. ASSUME NEW c \in At("blocked") \cup At("draining"), NEW x \in {"woken", "free"},
               x = IF client[c] = "blocked" THEN "woken" ELSE "free",
               client' = [client EXCEPT ![c] = x], UNCHANGED worker
        PROVE  SchedulerInv'
    <3>1. /\ c \in Clients /\ client[c] \in {"blocked", "draining"}
          /\ client'[c] = x /\ \A d \in Clients \ {c} : client'[d] = client[d]
      BY <2>2 DEF At, SchedulerTypeOK
    <3>2. SchedulerTypeOK' /\ Held' /\ Busy' = Busy
      BY <2>0, <2>2, Zenon DEF SchedulerTypeOK, Held, Busy
    <3>3. /\ InStop' = InStop /\ At("stopping")' = At("stopping")
          /\ At("blocked")' \subseteq At("blocked") /\ At("draining")' \subseteq At("draining")
          /\ Cardinality(At("woken")') >= Cardinality(At("woken"))
      BY <3>1, ClientMoves, Finite
    <3>4. NoLostWakeup' /\ Ending'
      BY <2>0, <2>2, <3>3, Finite DEF NoLostWakeup, Idle, Ending, SchedulerTypeOK
    <3>. QED
      BY <2>0, <3>2, <3>4 DEF Accounted
  <2>. QED
    BY <1>10, <2>1, <2>2, Zenon DEF Spurious, At
<1>11. ASSUME UNCHANGED scheduler PROVE SchedulerInv'
  BY <1>11 DEF scheduler, SchedulerTypeOK, Accounted, NoLostWakeup, Held, Ending, Idle, InStop, At, Busy
<1>. QED
  BY <1>1, <1>2, <1>3, <1>4, <1>5, <1>6, <1>7, <1>8, <1>9, <1>10, <1>11 DEF SchedulerStep

-----------------------------------------------------------------------------
\* The reads of scrub_read, and the ones it has come to.
Reads == (1 .. Passes) \X (1 .. Chunks)
Begun(t) == t[1] < pass \/ (t[1] = pass /\ t[2] <= submitted)

\* A read is in one place at most, the queue or a worker that has yet to run it,
\* and its future is not ready while it is there.
Once ==
    /\ \A k \in 1 .. Len(queue) : queue[k] \in Reads => Begun(queue[k]) /\ future[queue[k]] = None
    /\ \A w \in Workers : worker[w] = "running" /\ task[w] \in Reads =>
          /\ Begun(task[w]) /\ future[task[w]] = None
          /\ \A k \in 1 .. Len(queue) : queue[k] # task[w]
          /\ \A v \in Workers : worker[v] = "running" /\ task[v] = task[w] => v = w
    /\ \A j, k \in 1 .. Len(queue) : queue[j] = queue[k] /\ queue[j] \in Reads => j = k

\* A future that is ready is of a read that was submitted, and its data is of
\* the read's chunk.
Ready ==
    \A t \in Reads : future[t] # None =>
        Begun(t) /\ (future[t] = Error \/ future[t][1] = t[2])

Good(x) == x # None /\ x # Error

\* The checksum of the pass is over its first chunks in their order, and the
\* reference over all chunks as every pass that is over has read them.
Summed ==
    /\ pc \in {"head", "fill"} =>
          /\ completed < Chunks /\ crc \in Seq({Error} \cup ((1 .. Chunks) \X {0, 1}))
          /\ Len(crc) = completed
          /\ \A i \in 1 .. completed : crc[i] = future[<<pass, i>>] /\ Good(crc[i])
    /\ \A p \in 1 .. Passes, i \in 1 .. Chunks :
          p < pass \/ (p = pass /\ (pc = "drain" \/ outcome = "ok")) =>
              future[<<p, i>>] = reference[i] /\ Good(reference[i])
    /\ pc \in {"head", "fill", "drain"} => outcome = None
    /\ pc = "drain" \/ outcome = "ok" => pass = Passes
    /\ pc = "done" => cleared

ScrubInv == SchedulerInv /\ TypeOK /\ Once /\ Ready /\ Summed

\* It holds to begin with.
LEMMA ScrubStarts == Init => ScrubInv
<1>. SUFFICES ASSUME Init PROVE ScrubInv
  OBVIOUS
<1>0. SchedulerTypeOK
  <2>1. queue \in Seq(Tasks)
    BY DEF Init, SchedulerInit
  <2>2. worker \in [Workers -> {"awake", "waiting", "running", "ran", "exited"}]
    BY DEF Init, SchedulerInit
  <2>3. client \in [Clients -> {"free", "blocked", "woken", "draining", "stopping", "joining"}]
    BY DEF Init, SchedulerInit
  <2>4. task \in [Workers -> Tasks \cup {None}]
    BY DEF Init, SchedulerInit
  <2>5. stopping \in BOOLEAN /\ cleared \in BOOLEAN /\ active \in Nat /\ accepted \subseteq Tasks
    BY Zenon DEF Init, SchedulerInit
  <2>. QED
    BY <2>1, <2>2, <2>3, <2>4, <2>5 DEF SchedulerTypeOK
<1>. USE SchedulerAssumption, ScrubAssumption DEF Init, SchedulerInit
<1>1. TypeOK
  BY <1>0 DEF TypeOK
<1>2. Busy = {} /\ Held
  BY DEF Busy, Held
<1>3. At("blocked") = {} /\ At("draining") = {} /\ InStop = {}
  BY DEF InStop, At
<1>4. Accounted
  BY <1>2, FS_EmptySet DEF Accounted
<1>5. NoLostWakeup /\ Ending
  BY <1>2, <1>3 DEF NoLostWakeup, Ending
<1>6. Once /\ Ready
  BY DEF Once, Ready, Reads
<1>7. Summed
  <2>1. crc \in Seq({Error} \cup ((1 .. Chunks) \X {0, 1})) /\ Len(crc) = 0
    OBVIOUS
  <2>. QED
    BY <2>1 DEF Summed
<1>. QED
  BY <1>1, <1>2, <1>4, <1>5, <1>6, <1>7 DEF ScrubInv, SchedulerInv, TypeOK

\* Every step keeps it.
LEMMA ScrubKeeps == ScrubInv /\ [Next]_vars => ScrubInv'
<1>. SUFFICES ASSUME ScrubInv PROVE [Next]_vars => ScrubInv'
  BY Zenon
<1>. USE SchedulerAssumption, ScrubAssumption DEF ScrubInv
<1>1. [Next]_vars => SchedulerInv'
  <2>1. Main \in Clients /\ Stopper \in Clients /\ Rivals \subseteq Clients /\ Rivals \subseteq Tasks
    BY Zenon DEF Rivals
  <2>2. MainStep => SchedulerStep
    <3>1. Fill => SchedulerStep
      <4>1. pc = "fill" /\ ~Full => <<pass, submitted + 1>> \in Tasks
        BY DEF TypeOK, Full
      <4>. QED
        BY <2>1, <4>1, Zenon DEF Fill, submit_read, SchedulerStep
    <3>. QED
      BY <2>1, <3>1, Zenon DEF MainStep, Head_, Get, Drain, Leave, SchedulerStep
  <2>3. (\E w \in Workers : Worker(w)) => SchedulerStep
    BY Zenon DEF Worker, Read, SchedulerStep
  <2>4. (\E c \in Rivals : RivalSubmits(c) \/ RivalGoesOn(c)) => SchedulerStep
    BY <2>1, Zenon DEF RivalSubmits, RivalGoesOn, submit_read, SchedulerStep
  <2>5. StopperStops \/ StopperGoesOn \/ WokenForNothing \/ Interrupt \/ UNCHANGED vars => SchedulerStep
    BY <2>1, Zenon DEF StopperStops, StopperGoesOn, WokenForNothing, Interrupt, vars, SchedulerStep
  <2>. QED
    BY <2>2, <2>3, <2>4, <2>5, SchedulerKeeps, Zenon DEF Next
<1>2. ASSUME queue' = queue, UNCHANGED <<future, pass, submitted>>,
             \A w \in Workers : worker'[w] = "running" => worker[w] = "running" /\ task'[w] = task[w]
      PROVE  Once' /\ Ready'
  BY <1>2 DEF Once, Ready, Begun
<1>3. ASSUME UNCHANGED <<loop, outcome>>, cleared => cleared',
             \A t \in Reads : future[t] # None => future'[t] = future[t]
      PROVE  Summed'
  <2>1. UNCHANGED <<pc, pass, submitted, completed, crc, reference, outcome>>
    BY <1>3, Zenon DEF loop
  <2>2. ASSUME NEW q \in 1 .. Passes, NEW i \in 1 .. Chunks, Good(future[<<q, i>>])
        PROVE  future'[<<q, i>>] = future[<<q, i>>]
    BY <1>3, <2>2, Zenon DEF Reads, Good
  <2>3. pc \in {"head", "fill"} => \A i \in 1 .. completed : crc[i] = future'[<<pass, i>>]
    <3>1. ASSUME pc \in {"head", "fill"}, NEW i \in 1 .. completed
          PROVE  crc[i] = future'[<<pass, i>>]
      <4>1. pass \in 1 .. Passes /\ completed \in Nat /\ completed < Chunks
        BY <3>1 DEF Summed, TypeOK
      <4>2. i \in 1 .. Chunks
        BY <4>1
      <4>3. crc[i] = future[<<pass, i>>] /\ Good(crc[i])
        BY <3>1, Zenon DEF Summed
      <4>. QED
        BY <2>2, <4>1, <4>2, <4>3, Zenon
    <3>. QED
      BY <3>1, Zenon
  <2>4. \A q \in 1 .. Passes, i \in 1 .. Chunks :
          q < pass \/ (q = pass /\ (pc = "drain" \/ outcome = "ok")) =>
              future'[<<q, i>>] = reference[i]
    BY <2>2 DEF Summed
  <2>. QED
    BY <1>3, <2>1, <2>3, <2>4 DEF Summed
<1>4. ASSUME Head_ PROVE Once' /\ Ready' /\ Summed' /\ TypeOK'
  <2>1. Once' /\ Ready'
    BY <1>2, <1>4, Zenon DEF Head_, scheduler
  <2>2. Summed'
    BY <1>4, Zenon DEF Head_, scheduler, Return, Summed
  <2>. QED
    BY <1>4, <2>1, <2>2, Zenon DEF Head_, scheduler, Return, TypeOK, SchedulerTypeOK
<1>5. ASSUME Drain PROVE Once' /\ Ready' /\ Summed' /\ TypeOK'
  <2>1. Once' /\ Ready'
    BY <1>2, <1>5, Zenon DEF Drain, drain
  <2>2. Summed'
    BY <1>5, Zenon DEF Drain, drain, Return, Summed
  <2>. QED
    BY <1>1, <1>5, <2>1, <2>2, Zenon DEF Next, MainStep, Drain, SchedulerInv, Return, TypeOK
<1>6. ASSUME Leave PROVE Once' /\ Ready' /\ Summed' /\ TypeOK'
  <2>1. pc = "leave" /\ UNCHANGED <<queue, task, future, pass, submitted, completed, crc, reference, outcome>>
    BY <1>6, Zenon DEF Leave, stop, StopNotifies, StopJoins
  <2>2. \A w \in Workers : worker'[w] = "running" => worker[w] = "running"
    BY <1>6, Zenon DEF Leave, stop, StopNotifies, StopJoins
  <2>3. Once' /\ Ready'
    BY <1>2, <2>1, <2>2, Zenon
  <2>4. pc' = "done" => cleared'
    <3>1. CASE stop(Main)
      <4>1. SUFFICES ASSUME stopping, client'[Main] = "free" PROVE cleared
        BY <1>6, <2>1, <3>1, Zenon DEF Leave, stop
      <4>2. \A c \in Clients : client[c] = "free"
        BY <1>6, <3>1, <4>1, Zenon DEF Leave, stop
      <4>3. InStop = {}
        BY <4>2, Zenon DEF InStop, At
      <4>. QED
        BY <4>1, <4>3, Zenon DEF SchedulerInv, Ending
    <3>2. CASE StopNotifies(Main)
      <4>1. client'[Main] = "joining"
        BY <3>2, Zenon DEF StopNotifies, WakeAll
      <4>. QED
        BY <1>6, <2>1, <4>1, Zenon DEF Leave
    <3>3. CASE StopJoins(Main)
      BY <3>3, Zenon DEF StopJoins
    <3>. QED
      BY <1>6, <3>1, <3>2, <3>3, Zenon DEF Leave
  <2>5. pc' \in {"leave", "done"}
    BY <1>6, <2>1, Zenon DEF Leave
  <2>6. Summed'
    BY <2>1, <2>4, <2>5, Zenon DEF Summed
  <2>. QED
    BY <1>1, <1>6, <2>1, <2>3, <2>5, <2>6, Zenon DEF Next, MainStep, SchedulerInv, TypeOK
<1>7. ASSUME NEW w \in Workers, Take(w), UNCHANGED <<future, loop, outcome>>
      PROVE  Once' /\ Ready' /\ Summed'
  <2>1. /\ queue # <<>> /\ queue' = Tail(queue) /\ worker' = [worker EXCEPT ![w] = "running"]
        /\ task' = [task EXCEPT ![w] = Head(queue)] /\ UNCHANGED <<pass, submitted, future, cleared>>
    BY <1>7, Zenon DEF Take, loop
  <2>2. /\ Len(queue') = Len(queue) - 1 /\ Len(queue) \in Nat /\ Len(queue) >= 1
        /\ \A k \in 1 .. Len(queue') : queue'[k] = queue[k + 1] /\ k + 1 \in 1 .. Len(queue) /\ k + 1 # 1
        /\ Head(queue) = queue[1] /\ 1 \in 1 .. Len(queue)
    BY <2>1 DEF TypeOK, SchedulerTypeOK
  <2>3. /\ worker'[w] = "running" /\ task'[w] = queue[1]
        /\ \A v \in Workers \ {w} : worker'[v] = worker[v] /\ task'[v] = task[v]
    BY <2>1, <2>2, Zenon DEF TypeOK, SchedulerTypeOK
  <2>4. \A t : Begun(t)' <=> Begun(t)
    BY <2>1, Zenon DEF Begun
  <2>5. \A k \in 1 .. Len(queue') : queue'[k] \in Reads => Begun(queue'[k]) /\ future[queue'[k]] = None
    BY <2>2 DEF Once
  <2>6. \A j, k \in 1 .. Len(queue') : queue'[j] = queue'[k] /\ queue'[j] \in Reads => j = k
    BY <2>2 DEF Once
  <2>7. ASSUME NEW v \in Workers, worker'[v] = "running", task'[v] \in Reads
        PROVE  /\ Begun(task'[v]) /\ future[task'[v]] = None
               /\ \A k \in 1 .. Len(queue') : queue'[k] # task'[v]
               /\ \A u \in Workers : worker'[u] = "running" /\ task'[u] = task'[v] => u = v
    BY <2>2, <2>3, <2>7 DEF Once
  <2>8. Once'
    BY <2>1, <2>4, <2>5, <2>6, <2>7, Zenon DEF Once
  <2>9. Ready'
    BY <2>1, <2>4, Zenon DEF Ready
  <2>. QED
    BY <1>3, <1>7, <2>1, <2>8, <2>9, Zenon
<1>8. ASSUME NEW w \in Workers, WaitOrExit(w) \/ Done(w), UNCHANGED <<future, loop, outcome>>
      PROVE  Once' /\ Ready' /\ Summed'
  <2>1. queue' = queue /\ cleared' = cleared /\ UNCHANGED <<future, pass, submitted>>
    BY <1>8, Zenon DEF WaitOrExit, Done, loop
  <2>2. \A v \in Workers : worker'[v] = "running" => worker[v] = "running" /\ task'[v] = task[v]
    BY <1>8 DEF WaitOrExit, Done, TypeOK, SchedulerTypeOK
  <2>. QED
    BY <1>2, <1>3, <1>8, <2>1, <2>2, Zenon
<1>9. ASSUME NEW w \in Workers, Read(w) PROVE Once' /\ Ready' /\ Summed' /\ TypeOK'
  <2>. DEFINE t == task[w]
  <2>1. /\ worker[w] = "running" /\ worker' = [worker EXCEPT ![w] = "ran"]
        /\ UNCHANGED <<queue, stopping, active, task, client, cleared, accepted>>
        /\ UNCHANGED <<pc, pass, submitted, completed, crc, reference, outcome>>
    BY <1>9, Zenon DEF Read, Run, loop
  <2>2. t \in Tasks /\ (t \in Reads \/ t \in Rivals) /\ ~(t \in Reads /\ t \in Rivals)
    <3>1. w \in Busy
      BY <2>1, Zenon DEF Busy
    <3>2. t \in Tasks
      BY <3>1, Zenon DEF SchedulerInv, Held, TypeOK, SchedulerTypeOK
    <3>. QED
      BY <3>2 DEF Reads
  <2>3. \E x : /\ future' = [future EXCEPT ![t] = x]
               /\ x \in {Error} \cup ((1 .. Chunks) \X {0, 1})
               /\ t \in Reads => x = Error \/ x[1] = t[2]
    <3>1. t \in Reads => t[2] \in 1 .. Chunks
      BY Zenon DEF Reads
    <3>2. <<1, 0>> \in (1 .. Chunks) \X {0, 1}
      OBVIOUS
    <3>. HIDE DEF t
    <3>. QED
      BY <1>9, <2>2, <3>1, <3>2 DEF Read, t
  <2>4. PICK x : /\ future' = [future EXCEPT ![t] = x]
                 /\ x \in {Error} \cup ((1 .. Chunks) \X {0, 1})
                 /\ t \in Reads => x = Error \/ x[1] = t[2]
    BY <2>3, Zenon
  <2>5. future \in [Tasks -> {None, Error} \cup ((1 .. Chunks) \X {0, 1})] /\ Reads \subseteq Tasks
    BY DEF TypeOK, Reads
  <2>. HIDE DEF t
  <2>6. future' \in [Tasks -> {None, Error} \cup ((1 .. Chunks) \X {0, 1})]
    BY <2>2, <2>4, <2>5
  <2>7. TypeOK'
    BY <2>1, <2>6 DEF TypeOK, SchedulerTypeOK
  <2>8. future'[t] = x /\ \A r \in Reads \ {t} : future'[r] = future[r]
    BY <2>2, <2>4, <2>5, Zenon
  <2>9. /\ worker'[w] = "ran" /\ \A v \in Workers \ {w} : worker'[v] = worker[v]
        /\ \A r : Begun(r)' <=> Begun(r)
    BY <2>1, Zenon DEF TypeOK, SchedulerTypeOK, Begun
  <2>10. t \in Reads => /\ Begun(t) /\ future[t] = None
                        /\ \A k \in 1 .. Len(queue) : queue[k] # t
                        /\ \A v \in Workers : worker[v] = "running" /\ task[v] = t => v = w
    BY <2>1, Zenon DEF Once, t
  <2>11. Once'
    <3>1. \A k \in 1 .. Len(queue) : queue[k] \in Reads => future'[queue[k]] = future[queue[k]]
      BY <2>8, <2>10, Zenon
    <3>2. \A v \in Workers : worker'[v] = "running" /\ task[v] \in Reads =>
             worker[v] = "running" /\ future'[task[v]] = future[task[v]]
      BY <2>8, <2>9, <2>10
    <3>3. \A v \in Workers : worker'[v] = "running" => worker[v] = "running"
      BY <2>9, Zenon
    <3>. QED
      <4>1. queue' = queue /\ task' = task
        BY <2>1, Zenon
      <4>2. \A k \in 1 .. Len(queue) : queue[k] \in Reads => Begun(queue[k])' /\ future'[queue[k]] = None
        BY <2>9, <3>1, <4>1, Zenon DEF Once, Begun
      <4>3. \A v \in Workers : worker'[v] = "running" /\ task[v] \in Reads =>
               /\ Begun(task[v])' /\ future'[task[v]] = None
               /\ \A k \in 1 .. Len(queue) : queue[k] # task[v]
        BY <2>9, <3>2, <4>1, Zenon DEF Once, Begun
      <4>4. \A u, v \in Workers : worker'[u] = "running" /\ task[u] \in Reads
                                  /\ worker'[v] = "running" /\ task[v] = task[u] => v = u
        BY <3>3, Zenon DEF Once
      <4>5. \A j, k \in 1 .. Len(queue) : queue[j] = queue[k] /\ queue[j] \in Reads => j = k
        BY Zenon DEF Once
      <4>. QED
        BY <4>1, <4>2, <4>3, <4>4, <4>5, Zenon DEF Once, Begun
  <2>12. Ready'
    BY <2>4, <2>8, <2>9, <2>10 DEF Ready
  <2>13. \A r \in Reads : future[r] # None => future'[r] = future[r]
    BY <2>8, <2>10, Zenon
  <2>. QED
    BY <1>3, <2>1, <2>7, <2>11, <2>12, <2>13, Zenon DEF loop
<1>10. ASSUME NEW c \in Rivals, submit_read(c, c), UNCHANGED <<loop, outcome>>
       PROVE  Once' /\ Ready' /\ Summed' /\ future' \in [Tasks -> {None, Error} \cup ((1 .. Chunks) \X {0, 1})]
  <2>1. c \in Tasks /\ c \notin Reads /\ Reads \subseteq Tasks
    BY DEF Reads
  <2>2. future' \in [Tasks -> {None, Error} \cup ((1 .. Chunks) \X {0, 1})]
    BY <1>10, <2>1, Zenon DEF submit_read, TypeOK
  <2>3. \A t \in Reads : future'[t] = future[t]
    BY <1>10, <2>1, Zenon DEF submit_read, TypeOK
  <2>4. UNCHANGED <<pass, submitted, task, cleared>> /\ \A t : Begun(t)' <=> Begun(t)
    BY <1>10, Zenon DEF submit_read, enqueue, loop, Begun
  <2>5. \A w \in Workers : worker'[w] = "running" => worker[w] = "running"
    BY <1>10 DEF submit_read, enqueue, WakeOneWorker, WaitingWorkers, TypeOK, SchedulerTypeOK
  <2>6. queue' = queue \/ queue' = Append(queue, c)
    BY <1>10, Zenon DEF submit_read, enqueue
  <2>7. \A k \in 1 .. Len(queue') : queue'[k] \in Reads => k \in 1 .. Len(queue) /\ queue'[k] = queue[k]
    <3>1. queue \in Seq(Tasks)
      BY Zenon DEF TypeOK, SchedulerTypeOK
    <3>2. CASE queue' = Append(queue, c)
      <4>1. \A k \in 1 .. Len(queue') : (k \in 1 .. Len(queue) /\ queue'[k] = queue[k]) \/ queue'[k] = c
        BY <2>1, <3>1, <3>2
      <4>. QED
        BY <2>1, <4>1, Zenon
    <3>. QED
      BY <2>6, <3>2, Zenon
  <2>8. \A k \in 1 .. Len(queue') : queue'[k] \in Reads => Begun(queue'[k]) /\ future'[queue'[k]] = None
    BY <2>3, <2>7 DEF Once
  <2>9. \A j, k \in 1 .. Len(queue') : queue'[j] = queue'[k] /\ queue'[j] \in Reads => j = k
    BY <2>7, Zenon DEF Once
  <2>10. ASSUME NEW w \in Workers, worker'[w] = "running", task[w] \in Reads
         PROVE  /\ Begun(task[w]) /\ future'[task[w]] = None
                /\ \A k \in 1 .. Len(queue') : queue'[k] # task[w]
                /\ \A v \in Workers : worker'[v] = "running" /\ task[v] = task[w] => v = w
    BY <2>3, <2>5, <2>7, <2>10 DEF Once
  <2>11. Once'
    BY <2>4, <2>8, <2>9, <2>10, Zenon DEF Once
  <2>12. Ready'
    BY <2>3, <2>4, Zenon DEF Ready
  <2>. QED
    BY <1>3, <1>10, <2>2, <2>3, <2>4, <2>11, <2>12, Zenon
<1>11. ASSUME Fill PROVE Once' /\ Ready' /\ Summed' /\ TypeOK'
  <2>. DEFINE t == <<pass, submitted + 1>>
  <2>0. /\ pass \in 1 .. Passes /\ submitted \in 0 .. Chunks /\ completed \in 0 .. submitted
        /\ pc = "fill" /\ submitted < Chunks /\ outcome # "ok"
    BY <1>11 DEF Fill, Full, TypeOK, Summed
  <2>1. t \in Reads /\ Reads \subseteq Tasks /\ t[1] = pass /\ t[2] = submitted + 1
    BY <2>0 DEF Reads
  <2>2. ~Begun(t) /\ future[t] = None
    BY <2>0, <2>1 DEF Begun, Ready
  <2>3. /\ enqueue(Main, t)
        /\ future' = IF stopping THEN [future EXCEPT ![t] = Error] ELSE future
        /\ submitted' = IF client'[Main] = "blocked" THEN submitted ELSE submitted + 1
        /\ UNCHANGED <<pc, pass, completed, crc, reference, outcome>>
    BY <1>11, Zenon DEF Fill, submit_read
  <2>. HIDE DEF t
  <2>4. future \in [Tasks -> {None, Error} \cup ((1 .. Chunks) \X {0, 1})]
    BY Zenon DEF TypeOK
  <2>5. /\ future' \in [Tasks -> {None, Error} \cup ((1 .. Chunks) \X {0, 1})]
        /\ \A r \in Reads \ {t} : future'[r] = future[r]
        /\ future'[t] = IF stopping THEN Error ELSE None
    BY <2>1, <2>2, <2>3, <2>4, Zenon
  <2>6. submitted' \in 0 .. Chunks /\ submitted' \in submitted .. submitted + 1
    BY <2>0, <2>3
  <2>7. TypeOK'
    <3>1. SchedulerTypeOK'
      BY <1>1, <1>11, Zenon DEF Next, MainStep, SchedulerInv
    <3>2. completed' \in 0 .. submitted'
      BY <2>0, <2>3, <2>6
    <3>. QED
      BY <2>3, <2>5, <2>6, <3>1, <3>2, Zenon DEF TypeOK
  <2>. DEFINE After(r) == r[1] < pass \/ (r[1] = pass /\ r[2] <= submitted')
  <2>8. /\ \A r : Begun(r)' <=> After(r)
        /\ \A r \in Reads : Begun(r) => After(r)
        /\ submitted' = submitted + 1 => After(t)
    BY <2>0, <2>1, <2>3, <2>6 DEF Begun, Reads
  <2>. HIDE DEF After
  <2>9. /\ task' = task /\ cleared' = cleared
        /\ \A w \in Workers : worker'[w] = "running" => worker[w] = "running"
    BY <2>3 DEF enqueue, WakeOneWorker, WaitingWorkers, TypeOK, SchedulerTypeOK
  <2>10. \/ UNCHANGED queue
         \/ queue' = Append(queue, t) /\ ~stopping /\ submitted' = submitted + 1
    <3>1. Main \in DOMAIN client
      BY Zenon DEF TypeOK, SchedulerTypeOK
    <3>. QED
      BY <2>3, <3>1, Zenon DEF enqueue
  <2>11. future'[t] # None => submitted' = submitted + 1
    <3>1. Main \in DOMAIN client
      BY DEF TypeOK, SchedulerTypeOK
    <3>. QED
      BY <2>3, <2>5, <3>1, Zenon DEF enqueue
  <2>12. Ready'
    BY <2>1, <2>5, <2>8, <2>11 DEF Ready
  <2>13. /\ \A k \in 1 .. Len(queue) : queue[k] # t
         /\ \A w \in Workers : worker[w] = "running" => task[w] # t
    BY <2>1, <2>2 DEF Once
  <2>14. /\ \A k \in 1 .. Len(queue) : queue[k] \in Reads => future'[queue[k]] = None /\ After(queue[k])
         /\ \A w \in Workers : worker[w] = "running" /\ task[w] \in Reads =>
               future'[task[w]] = None /\ After(task[w])
    <3>1. \A r \in Reads \ {t} : Begun(r) /\ future[r] = None => future'[r] = None /\ After(r)
      BY <2>5, <2>8, Zenon
    <3>. QED
      BY <2>13, <3>1, Zenon DEF Once
  <2>15. Once'
    <3>1. CASE UNCHANGED queue
      BY <2>8, <2>9, <2>14, <3>1, Zenon DEF Once
    <3>2. CASE queue' = Append(queue, t) /\ ~stopping /\ submitted' = submitted + 1
      <4>1. queue \in Seq(Tasks) /\ t \in Tasks /\ Len(queue) \in Nat
        BY <2>1 DEF TypeOK, SchedulerTypeOK
      <4>2. \A k \in 1 .. Len(queue') : \/ k \in 1 .. Len(queue) /\ queue'[k] = queue[k]
                                        \/ k = Len(queue) + 1 /\ queue'[k] = t
        BY <3>2, <4>1
      <4>3. future'[t] = None /\ After(t)
        BY <2>5, <2>8, <3>2, Zenon
      <4>4. \A k \in 1 .. Len(queue') : queue'[k] \in Reads => future'[queue'[k]] = None /\ After(queue'[k])
        BY <2>14, <4>2, <4>3, Zenon
      <4>5. \A j, k \in 1 .. Len(queue') : queue'[j] = queue'[k] /\ queue'[j] \in Reads => j = k
        BY <2>13, <4>2 DEF Once
      <4>6. \A w \in Workers, k \in 1 .. Len(queue') :
               worker[w] = "running" /\ task[w] \in Reads => queue'[k] # task[w]
        BY <2>13, <4>2 DEF Once
      <4>. QED
        BY <2>8, <2>9, <2>14, <4>4, <4>5, <4>6, Zenon DEF Once
    <3>. QED
      BY <2>10, <3>1, <3>2, Zenon
  <2>16. Summed'
    <3>1. \A i \in 1 .. completed : <<pass, i>> \in Reads /\ <<pass, i>> # t
      BY <2>0 DEF Reads, t
    <3>2. \A q \in 1 .. Passes, i \in 1 .. Chunks : q < pass => <<q, i>> \in Reads /\ <<q, i>> # t
      BY <2>0 DEF Reads, t
    <3>3. \A i \in 1 .. completed : crc[i] = future'[<<pass, i>>]
      BY <2>0, <2>5, <3>1, Zenon DEF Summed
    <3>4. \A q \in 1 .. Passes, i \in 1 .. Chunks : q < pass => future'[<<q, i>>] = reference[i]
      BY <2>0, <2>5, <3>2 DEF Summed
    <3>. QED
      <4>1. pass' = pass /\ pc' = pc /\ pc = "fill" /\ completed' = completed /\ crc' = crc
            /\ reference' = reference /\ outcome' = outcome /\ outcome = None /\ None # "ok"
        BY <2>0, <2>3, <1>11, Zenon DEF Fill, Summed
      <4>2. \A q \in 1 .. Passes, i \in 1 .. Chunks : q < pass => Good(reference[i])
        BY Zenon DEF Summed
      <4>3. completed < Chunks /\ crc \in Seq({Error} \cup ((1 .. Chunks) \X {0, 1}))
            /\ Len(crc) = completed /\ \A i \in 1 .. completed : Good(crc[i])
        BY <4>1, Zenon DEF Summed
      <4>. QED
        BY <3>3, <3>4, <4>1, <4>2, <4>3, Zenon DEF Summed
  <2>. QED
    BY <2>7, <2>12, <2>15, <2>16, Zenon
<1>12. ASSUME Get PROVE Once' /\ Ready' /\ Summed' /\ TypeOK'
  <2>. DEFINE D == (1 .. Chunks) \X {0, 1}
              r == future[<<pass, completed + 1>>]
              sum == Append(crc, r)
  <2>0. /\ pass \in 1 .. Passes /\ submitted \in 0 .. Chunks /\ completed \in 0 .. submitted
        /\ pc = "fill" /\ completed < Chunks /\ outcome = None
        /\ crc \in Seq({Error} \cup D) /\ Len(crc) = completed
        /\ \A i \in 1 .. completed : crc[i] = future[<<pass, i>>] /\ Good(crc[i])
    BY <1>12, Zenon DEF Get, TypeOK, Summed
  <2>1. completed + 1 \in 1 .. Chunks /\ completed + 1 <= submitted
    BY <1>12, <2>0 DEF Get, Full
  <2>2. r \in {None, Error} \cup D /\ r # None
    <3>1. <<pass, completed + 1>> \in Tasks
      BY <2>0, <2>1, Zenon
    <3>. QED
      BY <1>12, <3>1, Zenon DEF Get, TypeOK
  <2>3. UNCHANGED scheduler /\ UNCHANGED future
    BY <1>12, Zenon DEF Get
  <2>4. ASSUME r # Error
        PROVE  /\ sum \in Seq({Error} \cup D) /\ Len(sum) = completed + 1
               /\ \A i \in 1 .. completed + 1 : sum[i] = future[<<pass, i>>] /\ Good(sum[i])
    <3>1. r \in {Error} \cup D /\ Good(r)
      BY <2>2, <2>4 DEF Good
    <3>. HIDE DEF D
    <3>2. /\ sum \in Seq({Error} \cup D) /\ Len(sum) = completed + 1
          /\ \A i \in 1 .. completed : sum[i] = crc[i]
          /\ sum[completed + 1] = r
      BY <2>0, <3>1
    <3>3. \A i \in 1 .. completed + 1 : i \in 1 .. completed \/ i = completed + 1
      BY <2>0
    <3>. QED
      BY <2>0, <3>1, <3>2, <3>3, Zenon
  <2>. HIDE DEF sum
  <2>5. CASE Return("error") /\ UNCHANGED <<pass, submitted, completed, crc, reference>>
    <3>1. Once' /\ Ready'
      BY <1>2, <2>3, <2>5, Zenon DEF scheduler
    <3>2. Summed'
      BY <2>3, <2>5, Zenon DEF scheduler, Return, Summed
    <3>. QED
      BY <2>3, <2>5, <3>1, <3>2, Zenon DEF scheduler, Return, TypeOK, SchedulerTypeOK
  <2>6. CASE /\ r # Error /\ completed + 1 # Chunks
             /\ crc' = sum /\ completed' = completed + 1 /\ pc' = "head"
             /\ UNCHANGED <<pass, submitted, reference, outcome>>
    <3>1. Once' /\ Ready'
      BY <1>2, <2>3, <2>6, Zenon DEF scheduler
    <3>2. Summed'
      <4>1. completed' < Chunks
        BY <2>0, <2>1, <2>6
      <4>2. /\ future' = future /\ pass' = pass /\ pc' = "head" /\ reference' = reference
            /\ outcome' = None /\ None # "ok"
        BY <2>0, <2>3, <2>6, Zenon
      <4>3. \A q \in 1 .. Passes, i \in 1 .. Chunks : q < pass =>
               future[<<q, i>>] = reference[i] /\ Good(reference[i])
        BY Zenon DEF Summed
      <4>. QED
        <5>1. /\ crc' \in Seq({Error} \cup D) /\ Len(crc') = completed'
              /\ \A i \in 1 .. completed' : crc'[i] = future'[<<pass', i>>] /\ Good(crc'[i])
          BY <2>4, <2>6, <4>2, Zenon
        <5>. QED
          BY <4>1, <4>2, <4>3, <5>1, Zenon DEF Summed
    <3>3. completed' \in 0 .. submitted'
      BY <2>0, <2>1, <2>6
    <3>. QED
      BY <2>3, <2>6, <3>1, <3>2, <3>3, Zenon DEF scheduler, TypeOK, SchedulerTypeOK
  <2>7. CASE r # Error /\ completed + 1 = Chunks /\ EndOfPass(sum)
    <3>1. \A i \in 1 .. Chunks : sum[i] = future[<<pass, i>>] /\ Good(sum[i])
      BY <2>0, <2>4, <2>7, Zenon
    <3>2. CASE Return("corrupt") /\ UNCHANGED <<pass, submitted, completed, crc>>
      <4>1. Once' /\ Ready'
        BY <1>2, <2>3, <3>2, Zenon DEF scheduler
      <4>2. \A q \in 1 .. Passes : q < pass => reference' = reference
        BY <2>0, <2>7 DEF EndOfPass
      <4>3. Summed'
        BY <2>3, <3>2, <4>2, Zenon DEF scheduler, Return, Summed
      <4>. QED
        BY <2>3, <3>2, <4>1, <4>3, Zenon DEF scheduler, Return, TypeOK, SchedulerTypeOK
    <3>3. CASE ~(pass > 1 /\ sum # reference)
      <4>1. \A q \in 1 .. Passes, i \in 1 .. Chunks : q <= pass =>
               future[<<q, i>>] = reference'[i] /\ Good(reference'[i])
        <5>1. CASE pass = 1
          <6>1. reference' = sum
            BY <2>7, <5>1, Zenon DEF EndOfPass
          <6>2. \A q \in 1 .. Passes : q <= pass => q = pass
            BY <5>1
          <6>. QED
            BY <3>1, <6>1, <6>2, Zenon
        <5>2. CASE pass > 1
          <6>1. reference' = reference /\ reference = sum
            BY <2>0, <2>7, <3>3, <5>2, Zenon DEF EndOfPass
          <6>2. \A q \in 1 .. Passes : q <= pass => q < pass \/ q = pass
            BY <2>0
          <6>3. \A q \in 1 .. Passes, i \in 1 .. Chunks : q < pass =>
                   future[<<q, i>>] = reference[i] /\ Good(reference[i])
            BY Zenon DEF Summed
          <6>. QED
            BY <3>1, <6>1, <6>2, <6>3, Zenon
        <5>. QED
          BY <2>0, <5>1, <5>2
      <4>2. CASE pass = Passes
        <5>1. pc' = "drain" /\ UNCHANGED <<pass, submitted, completed, crc, outcome>>
          BY <2>7, <3>3, <4>2, Zenon DEF EndOfPass
        <5>0. \A q \in 1 .. Passes : q < pass \/ q = pass => q <= pass
          BY <2>0
        <5>2. Once' /\ Ready'
          BY <1>2, <2>3, <5>1, Zenon DEF scheduler
        <5>3. Summed'
          BY <2>0, <2>3, <4>1, <4>2, <5>0, <5>1, Zenon DEF scheduler, Summed
        <5>. QED
          BY <2>3, <5>1, <5>2, <5>3, Zenon DEF scheduler, TypeOK, SchedulerTypeOK
      <4>3. CASE pass # Passes
        <5>1. /\ pass' = pass + 1 /\ pc' = "head" /\ submitted' = 0 /\ completed' = 0 /\ crc' = <<>>
              /\ UNCHANGED outcome
          BY <2>7, <3>3, <4>3, Zenon DEF EndOfPass
        <5>2. pass' \in 1 .. Passes /\ pass + 1 \in Nat
          <6>1. Passes \in Nat
            OBVIOUS
          <6>. QED
            BY <2>0, <4>3, <5>1, <6>1
        <5>3. TypeOK'
          <6>1. submitted' \in 0 .. Chunks /\ completed' \in 0 .. submitted'
            BY <5>1
          <6>. QED
            BY <2>3, <5>1, <5>2, <6>1, Zenon DEF scheduler, TypeOK, SchedulerTypeOK
        <5>4. \A t \in Reads : Begun(t) => Begun(t)'
          BY <2>0, <5>1 DEF Reads, Begun
        <5>5. Once' /\ Ready'
          BY <2>3, <5>4, Zenon DEF scheduler, Once, Ready
        <5>6. crc' \in Seq({Error} \cup D) /\ Len(crc') = 0
          BY <5>1
        <5>7. \A q \in 1 .. Passes : q < pass' => q <= pass
          BY <2>0, <5>1
        <5>8. Summed'
          <6>1. completed' < Chunks /\ completed' = 0 /\ \A i \in 1 .. completed' : FALSE
            BY <5>1
          <6>2. future' = future /\ pc' = "head" /\ outcome' = None /\ None # "ok"
            BY <2>0, <2>3, <5>1, Zenon
          <6>3. \A q \in 1 .. Passes, i \in 1 .. Chunks : q < pass' =>
                   future'[<<q, i>>] = reference'[i] /\ Good(reference'[i])
            BY <4>1, <5>7, <6>2, Zenon
          <6>. QED
            BY <5>6, <6>1, <6>2, <6>3, Zenon DEF Summed
        <5>. QED
          BY <5>3, <5>5, <5>8, Zenon
      <4>. QED
        BY <4>2, <4>3, Zenon
    <3>. QED
      BY <2>7, <3>2, <3>3, Zenon DEF EndOfPass
  <2>. QED
    BY <1>12, <2>2, <2>5, <2>6, <2>7, Zenon DEF Get, sum
<1>13. ASSUME \/ StopperStops \/ StopperGoesOn \/ WokenForNothing \/ Interrupt \/ UNCHANGED vars
       PROVE  Once' /\ Ready' /\ Summed'
  <2>1. /\ queue' = queue /\ UNCHANGED <<future, loop, outcome, task>> /\ (cleared => cleared')
        /\ \A w \in Workers : worker'[w] = "running" => worker[w] = "running"
    <3>1. CASE StopperStops
      BY <3>1, Zenon DEF StopperStops, stop
    <3>2. CASE StopperGoesOn
      <4>1. CASE StopNotifies(Stopper)
        <5>1. \A w \in Workers : worker'[w] = IF worker[w] = "waiting" THEN "awake" ELSE worker[w]
          BY <4>1, Zenon DEF StopNotifies
        <5>. QED
          BY <3>2, <4>1, <5>1, Zenon DEF StopperGoesOn, StopNotifies
      <4>2. CASE StopJoins(Stopper)
        BY <3>2, <4>2, Zenon DEF StopperGoesOn, StopJoins
      <4>. QED
        BY <3>2, <4>1, <4>2, Zenon DEF StopperGoesOn
    <3>3. CASE WokenForNothing
      BY <3>3, Zenon DEF WokenForNothing, Spurious, WaitingWorkers, TypeOK, SchedulerTypeOK
    <3>4. CASE Interrupt \/ UNCHANGED vars
      BY <3>4 DEF Interrupt, vars, scheduler
    <3>. QED
      BY <1>13, <3>1, <3>2, <3>3, <3>4, Zenon
  <2>2. UNCHANGED <<pass, submitted>>
    BY <2>1, Zenon DEF loop
  <2>. QED
    BY <1>2, <1>3, <2>1, <2>2, Zenon
<1>14. ASSUME SchedulerTypeOK', UNCHANGED <<loop, outcome>>,
              future' \in [Tasks -> {None, Error} \cup ((1 .. Chunks) \X {0, 1})]
       PROVE  TypeOK'
  BY <1>14, Zenon DEF loop, TypeOK
<1>15. ASSUME [Next]_vars PROVE ScrubInv'
  <2>1. SchedulerInv' /\ SchedulerTypeOK'
    BY <1>1, <1>15, Zenon DEF SchedulerInv
  <2>2. CASE MainStep
    BY <2>1, <2>2, <1>4, <1>5, <1>6, <1>11, <1>12, Zenon DEF MainStep
  <2>3. CASE \E w \in Workers : Worker(w)
    <3>1. PICK w \in Workers : Worker(w)
      BY <2>3, Zenon
    <3>2. CASE Read(w)
      BY <2>1, <3>2, <1>9, Zenon
    <3>3. CASE (Take(w) \/ WaitOrExit(w) \/ Done(w)) /\ UNCHANGED <<future, loop, faults, cancel, outcome>>
      <4>1. Once' /\ Ready' /\ Summed'
        BY <3>3, <1>7, <1>8, Zenon
      <4>2. TypeOK'
        BY <2>1, <3>3, <1>14, Zenon DEF TypeOK
      <4>. QED
        BY <2>1, <4>1, <4>2, Zenon
    <3>. QED
      BY <3>1, <3>2, <3>3, Zenon DEF Worker
  <2>4. CASE \E c \in Rivals : RivalSubmits(c) \/ RivalGoesOn(c)
    <3>1. PICK c \in Rivals : submit_read(c, c) /\ UNCHANGED <<loop, outcome>>
      BY <2>4, Zenon DEF RivalSubmits, RivalGoesOn
    <3>. QED
      BY <2>1, <3>1, <1>10, <1>14, Zenon
  <2>5. CASE StopperStops \/ StopperGoesOn \/ WokenForNothing \/ Interrupt \/ UNCHANGED vars
    <3>1. UNCHANGED <<loop, outcome, future>>
      BY <2>5, Zenon DEF StopperStops, StopperGoesOn, WokenForNothing, Interrupt, vars
    <3>2. TypeOK'
      BY <2>1, <3>1, <1>14 DEF TypeOK
    <3>. QED
      BY <2>1, <2>5, <3>2, <1>13, Zenon
  <2>. QED
    BY <1>15, <2>2, <2>3, <2>4, <2>5, Zenon DEF Next
<1>. QED
  BY <1>15

\* Hence it holds in every reachable state.
LEMMA ScrubInvariant == Spec => []ScrubInv
  BY ScrubStarts, ScrubKeeps, PTL DEF Spec

\* No condition variable of AsyncIoScheduler loses a wakeup, however clients,
\* workers, a stop() and spurious wakeups interleave.
THEOREM WakeupsKept == Spec => []NoLostWakeup
<1>1. ScrubInv => NoLostWakeup
  BY DEF ScrubInv, SchedulerInv
<1>. QED
  BY <1>1, ScrubInvariant, PTL

\* active_ is the number of requests that run, so that drain() returns only from
\* an idle scheduler, and the queue keeps to its depth.
THEOREM ActiveCounts == Spec => []Accounted
<1>1. ScrubInv => Accounted
  BY Zenon DEF ScrubInv, SchedulerInv
<1>. QED
  BY <1>1, ScrubInvariant, PTL

\* When stop() has returned nothing is queued, nothing runs and nobody waits.
THEOREM StopQuiesces == Spec => []StoppedIsQuiet
<1>1. ScrubInv => StoppedIsQuiet
  <2>. SUFFICES ASSUME ScrubInv, cleared PROVE StoppedIsQuiet
    BY DEF StoppedIsQuiet
  <2>1. /\ stopping /\ InStop = {} /\ queue = <<>>
        /\ \A w \in Workers : worker[w] = "exited"
    BY SchedulerAssumption DEF ScrubInv, SchedulerInv, Ending
  <2>2. Busy = {}
    BY <2>1 DEF Busy
  <2>3. active = 0
    BY <2>2, FS_EmptySet, Zenon DEF ScrubInv, SchedulerInv, Accounted
  <2>4. At("blocked") = {} /\ At("draining") = {}
    BY <2>1, <2>3 DEF ScrubInv, SchedulerInv, NoLostWakeup, Idle, InStop
  <2>. QED
    BY <2>1, <2>3, <2>4, Zenon DEF StoppedIsQuiet
<1>. QED
  BY <1>1, ScrubInvariant, PTL

\* A scrub that reports success has read every chunk in every pass with the same
\* result, in the order of the offsets, and leaves no thread behind.
THEOREM ScrubIsSound == Spec => []ScrubSound
<1>1. ScrubInv => ScrubSound
  <2>. SUFFICES ASSUME ScrubInv PROVE ScrubSound
    BY Zenon
  <2>. USE SchedulerAssumption, ScrubAssumption DEF ScrubInv
  <2>1. ASSUME outcome = "ok", NEW i \in 1 .. Chunks
        PROVE  reference[i][1] = i /\ \A p \in 1 .. Passes : future[<<p, i>>] = reference[i]
    <3>4. \A p \in 1 .. Passes : p < pass \/ p = pass
      <4>1. Passes \in Nat
        OBVIOUS
      <4>2. pass = Passes
        BY <2>1, Zenon DEF Summed
      <4>. QED
        BY <4>1, <4>2
    <3>1. \A p \in 1 .. Passes : future[<<p, i>>] = reference[i] /\ Good(reference[i])
      BY <2>1, <3>4, Zenon DEF Summed
    <3>2. 1 \in 1 .. Passes /\ <<1, i>> \in Reads
      BY DEF Reads
    <3>3. future[<<1, i>>][1] = i
      <4>1. future[<<1, i>>] # None /\ future[<<1, i>>] # Error
        BY <3>1, <3>2, Zenon DEF Good
      <4>. QED
        BY <3>2, <4>1, Zenon DEF Ready
    <3>. QED
      BY <3>1, <3>2, <3>3, Zenon
  <2>2. ASSUME pc = "done" PROVE cleared /\ queue = <<>> /\ Busy = {}
    <3>1. cleared /\ \A w \in Workers : worker[w] = "exited"
      BY <2>2 DEF Summed, SchedulerInv, Ending
    <3>. QED
      BY <3>1, Zenon DEF SchedulerInv, Ending, Busy
  <2>. QED
    BY <2>1, <2>2 DEF ScrubSound
<1>. QED
  BY <1>1, ScrubInvariant, PTL

\* Every variable of scrub_read and of the scheduler under it keeps its type:
\* future holds a chunk that was read or an error, completed never passes
\* submitted, nor submitted the number of chunks.
THEOREM ScrubTypes == Spec => []TypeOK
<1>1. ScrubInv => TypeOK
  BY DEF ScrubInv
<1>. QED
  BY <1>1, ScrubInvariant, PTL
=============================================================================
