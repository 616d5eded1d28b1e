-------------------------- MODULE CloneOwnerProofs --------------------------
(***************************************************************************)
(* The inductive invariant of Clone, and that the steps of the owner, the  *)
(* thread in clone_device, keep it.                                        *)
(*                                                                         *)
(* A task is queued, held by one worker, or over, and only the tasks of    *)
(* the current batch are not over.  So when the loop reaches the           *)
(* comparison nobody writes the target any more, and what a comparison     *)
(* read of its chunk, from the page cache or from the medium, stays so     *)
(* until the last one is in.                                               *)
(*                                                                         *)
(* First the invariant of TaskPool, kept by each of its steps, for every   *)
(* number of workers and every queue limit.  The composition with the      *)
(* owner cites one lemma per step.                                         *)
(***************************************************************************)
EXTENDS Clone, FiniteSetTheorems, TLAPS

-----------------------------------------------------------------------------
\* The flag is set by the destructor only; a thread leaves worker_loop only when
\* it is set and the queue is empty, and then nothing is submitted any more; a
\* worker has a task between taking and finishing it.
PoolInv ==
    /\ PoolTypeOK
    /\ Len(queue) <= QueueLimit
    /\ stopping <=> owner \in {"stopping", "joining", "gone"}
    /\ \A w \in Workers : worker[w] = "exited" => stopping /\ queue = <<>>
    /\ \A w \in Workers : task[w] # None <=> worker[w] \in {"taken", "running"}
    /\ owner = "gone" => \A w \in Workers : worker[w] = "exited"
    /\ NoLostWakeup

USE DEF Waiting, Busy

\* The pool as its constructor leaves it.
LEMMA PoolStarts == PoolInit => PoolInv
<1>. SUFFICES ASSUME PoolInit PROVE PoolInv
  OBVIOUS
<1>1. queue = <<>> /\ Len(queue) = 0 /\ queue \in Seq(Tasks)
  BY DEF PoolInit
<1>2. stopping \in BOOLEAN /\ ~stopping /\ owner = "free"
  BY Zenon DEF PoolInit
<1>3. \A w \in Workers : worker[w] = "awake" /\ task[w] = None
  BY DEF PoolInit
<1>4. worker \in [Workers -> {"awake"}] /\ task \in [Workers -> {None}]
  BY DEF PoolInit
<1>5. PoolTypeOK
  BY <1>1, <1>2, <1>4 DEF PoolTypeOK
<1>. QED
  BY <1>1, <1>2, <1>3, <1>5, PoolAssumption DEF PoolInv, NoLostWakeup

\* submit: a task is queued and a notification is on its way, or the owner waits
\* for a full queue.
LEMMA SubmitKeeps ==
    ASSUME PoolInv, NEW t \in Tasks, submit(t)
    PROVE  PoolInv'
BY PoolAssumption DEF submit, PoolInv, PoolTypeOK, NoLostWakeup

\* notify_one of submit: where nobody waits, somebody is busy.
LEMMA NotifyWorkKeeps == PoolInv /\ NotifyWork => PoolInv'
BY PoolAssumption DEF NotifyWork, PoolInv, PoolTypeOK, NoLostWakeup

\* worker_loop takes the front of the queue.
LEMMA TakeKeeps == ASSUME PoolInv, NEW w \in Workers, Take(w) PROVE PoolInv'
BY PoolAssumption DEF Take, PoolInv, PoolTypeOK, NoLostWakeup

\* worker_loop waits, or returns, or tells an owner that waits for space.
LEMMA WorkerLoopKeeps ==
    ASSUME PoolInv, NEW w \in Workers, WaitOrExit(w) \/ NotifySpace(w)
    PROVE  PoolInv'
<1>1. CASE WaitOrExit(w)
  BY <1>1, PoolAssumption DEF WaitOrExit, PoolInv, PoolTypeOK, NoLostWakeup
<1>2. CASE NotifySpace(w)
  BY <1>2, PoolAssumption DEF NotifySpace, PoolInv, PoolTypeOK, NoLostWakeup
<1>. QED
  BY <1>1, <1>2

\* A task ends.
LEMMA FinishKeeps == ASSUME PoolInv, NEW w \in Workers, Finish(w) PROVE PoolInv'
BY PoolAssumption DEF Finish, PoolInv, PoolTypeOK, NoLostWakeup

\* A wait returns for no reason.
LEMMA SpuriousKeeps == PoolInv /\ Spurious => PoolInv'
BY PoolAssumption DEF Spurious, PoolInv, PoolTypeOK, NoLostWakeup

\* The destructor sets the flag, wakes every thread that waits, and joins.
LEMMA DestructorKeeps == PoolInv /\ (Destroy \/ NotifyAll \/ Join) => PoolInv'
<1>1. PoolInv /\ Destroy => PoolInv'
  BY PoolAssumption DEF Destroy, PoolInv, PoolTypeOK, NoLostWakeup
<1>2. PoolInv /\ NotifyAll => PoolInv'
  BY PoolAssumption DEF NotifyAll, PoolInv, PoolTypeOK, NoLostWakeup
<1>3. PoolInv /\ Join => PoolInv'
  BY PoolAssumption DEF Join, PoolInv, PoolTypeOK, NoLostWakeup
<1>. QED
  BY <1>1, <1>2, <1>3

\* Steps of the owner's code that do not touch the pool.
LEMMA PoolStutters == PoolInv /\ UNCHANGED pool => PoolInv'
BY DEF pool, PoolInv, PoolTypeOK, NoLostWakeup

\* What the pool promises follows from its invariant.
LEMMA PoolPromises == PoolInv => NoLostWakeup /\ DestroyedIsQuiet
BY PoolAssumption DEF PoolInv, PoolTypeOK, DestroyedIsQuiet

HIDE DEF Waiting, Busy

-----------------------------------------------------------------------------
\* A task that was submitted and is not over is in one place.
Unique ==
    /\ \A i, j \in 1 .. Len(queue) : queue[i] = queue[j] => i = j
    /\ \A v, w \in Workers : task[v] = task[w] /\ task[v] # None => v = w
    /\ \A i \in 1 .. Len(queue), w \in Workers : queue[i] # task[w]

\* What is known of a task that is queued or held.
Fresh(t) ==
    /\ t[1] = phase
    /\ pc # "return" =>
          /\ pc \in {"submit", "get"}
          /\ next <= t[2] /\ t[2] < next + jobs
          /\ result[t] = None

Outstanding ==
    /\ \A i \in 1 .. Len(queue) : Fresh(queue[i])
    /\ \A w \in Workers : task[w] # None => Fresh(task[w])

\* The counters of the two loops.
Counters ==
    /\ rewrites \in 0 .. MaxRewrites
    /\ pc = "start" => next = 0 /\ phase = "copy"
    /\ pc = "submit" => next < chunks /\ jobs <= batch_n /\ got = 0
    /\ pc = "get" => next < chunks /\ jobs = batch_n /\ got < jobs
    /\ pc = "flush" => phase = "copy"
    /\ pc = "done" => queue = <<>> /\ \A w \in Workers : task[w] = None

\* The futures: what was collected, and what was not yet submitted.
Limit == IF pc \in {"submit", "get"} THEN next + jobs ELSE next

Futures ==
    /\ phase = "copy" => \A i \in 0 .. chunks - 1 : result[<<"verify", i>>] = None
    /\ pc \notin {"return", "done"} =>
          /\ \A i \in 0 .. chunks - 1 : i < next => result[<<phase, i>>] = "ok"
          /\ \A i \in 0 .. chunks - 1 : Limit <= i => result[<<phase, i>>] = None
    /\ pc = "get" => \A i \in 0 .. chunks - 1 : next <= i /\ i < next + got => result[<<phase, i>>] = "ok"

\* A value read from a sector, against the sector as it is now.
Current(v, s) == v \in 0 .. source[s] /\ (rewrites = 0 => v = source[s])

Contents ==
    /\ \A s \in 0 .. Bytes - 1 : source[s] <= rewrites
    /\ \A s \in Bytes .. TargetBytes - 1 : target[s] = Old /\ dtarget[s] = Old
    /\ buffer = [w \in Workers |-> buffer[w]]
    /\ \A w \in Workers : buffer[w] # None =>
          /\ task[w] # None
          /\ buffer[w] \in [ChunkSectors(task[w][2]) -> 0 .. MaxRewrites]
          /\ \A s \in ChunkSectors(task[w][2]) : Current(buffer[w][s], s)
    /\ phase = "verify" => \A s \in 0 .. Bytes - 1 : dtarget[s] \in {target[s], Bad}
    /\ \A i \in 0 .. chunks - 1 : result[<<"verify", i>>] = "ok" =>
          \A s \in ChunkSectors(i) : Current(Reads(s), s)

Success ==
    /\ pc \notin {"return", "done"} => outcome = None
    /\ outcome = "ok" =>
          /\ phase = "verify" /\ queue = <<>> /\ \A w \in Workers : task[w] = None
          /\ \A i \in 0 .. chunks - 1 : result[<<"verify", i>>] = "ok"

CloneInv ==
    /\ PoolInv /\ TypeOK
    /\ Unique /\ Outstanding /\ Counters /\ Futures /\ Contents /\ Success

\* Facts about the constants, free of division: the loops run over a whole
\* number of chunks and a batch has at least one.
LEMMA Sizes ==
    /\ Bytes \in Nat \ {0} /\ TargetBytes \in Nat /\ TargetBytes >= Bytes
    /\ MaxRewrites \in Nat /\ None \notin {"ok", "error"}
    /\ chunks \in Nat
    /\ Tasks = {"copy", "verify"} \X (0 .. chunks - 1)
    /\ Cardinality(Workers) \in Nat \ {0}
<1>1. chunks \in Nat
  BY CloneAssumption DEF chunks
<1>2. Cardinality(Workers) \in Nat \ {0}
  BY PoolAssumption, FS_CardinalityType, FS_EmptySet
<1>. QED
  BY <1>1, <1>2, CloneAssumption DEF chunks

\* Every sector of the source lies in one of the chunks.
LEMMA ChunksCover ==
    ASSUME NEW s \in 0 .. Bytes - 1
    PROVE  s \div Chunk \in 0 .. chunks - 1 /\ s \in ChunkSectors(s \div Chunk)
<1>. DEFINE q == s \div Chunk
<1>1. q \in Nat /\ q * Chunk <= s
  BY CloneAssumption
<1>2. (q + 1) * Chunk <= Bytes + Chunk - 1
  BY <1>1, CloneAssumption
<1>3. q + 1 <= chunks
  BY <1>1, <1>2, CloneAssumption DEF chunks
<1>. QED
  BY <1>1, <1>3, Sizes DEF ChunkSectors

\* Outside the two loops over a batch, and the destructor, no task is left.
LEMMA NothingLeft ==
    ASSUME CloneInv, pc \notin {"submit", "get", "return"}
    PROVE  queue = <<>> /\ \A w \in Workers : task[w] = None
<1>1. ASSUME queue # <<>> PROVE FALSE
  <2>1. 1 \in 1 .. Len(queue)
    BY <1>1 DEF CloneInv, PoolInv, PoolTypeOK
  <2>. QED
    BY <2>1 DEF CloneInv, Outstanding, Fresh
<1>. QED
  BY <1>1 DEF CloneInv, Outstanding, Fresh

\* The checks, and the start of the first loop.
LEMMA CloneStart == CloneInv /\ Start => CloneInv'
<1>. SUFFICES ASSUME CloneInv, Start PROVE CloneInv'
  OBVIOUS
<1>. USE Sizes, NothingLeft DEF CloneInv, Start, device
<1>1. PoolInv'
  BY PoolStutters, Zenon
<1>2. TypeOK'
  BY <1>1, Zenon DEF TypeOK, PoolInv
<1>3a. Unique'
  BY DEF Unique, pool
<1>3b. Contents'
  BY DEF Contents, Current, Reads, pool
<1>4. Outstanding'
  BY Zenon DEF Outstanding, Fresh, pool, PoolInv, PoolTypeOK
<1>5. Counters' /\ Futures' /\ Success'
  BY DEF Counters, Futures, Limit, Success, pool, batch_n
<1>. QED
  BY <1>1, <1>2, <1>3a, <1>3b, <1>4, <1>5, Zenon

\* The head of a loop: no task of an earlier batch is left.
LEMMA CloneHead == CloneInv /\ Head_ => CloneInv'
<1>. SUFFICES ASSUME CloneInv, Head_ PROVE CloneInv'
  OBVIOUS
<1>. USE Sizes DEF CloneInv, device
<1>0. /\ pc = "head" /\ jobs' = 0 /\ got' = 0
      /\ UNCHANGED <<pool, device, phase, next, request, buffer, result, faults, rewrites, cancel>>
  BY Zenon DEF Head_
<1>a. queue = <<>> /\ (\A w \in Workers : task[w] = None) /\ queue' = queue /\ task' = task /\ outcome = None
  BY <1>0, NothingLeft, Zenon DEF pool, Success
<1>b. /\ next \in 0 .. chunks /\ phase \in {"copy", "verify"} /\ cancel \in BOOLEAN
  BY Zenon DEF TypeOK
<1>c. \/ next = chunks /\ phase = "copy" /\ pc' = "flush" /\ outcome' = None
      \/ next = chunks /\ phase = "verify" /\ pc' = "return" /\ outcome' = "ok"
      \/ next < chunks /\ pc' = "return" /\ outcome' = "cancelled"
      \/ next < chunks /\ pc' = "submit" /\ outcome' = None
  <2>1. CASE next = chunks /\ phase = "copy"
    BY <2>1, <1>a, <1>b, Zenon DEF Head_, Return
  <2>2. CASE next = chunks /\ phase = "verify"
    BY <2>2, <1>a, <1>b, Zenon DEF Head_, Return
  <2>3. CASE next < chunks /\ cancel
    BY <2>3, <1>a, <1>b, Zenon DEF Head_, Return
  <2>4. CASE next < chunks /\ ~cancel
    BY <2>4, <1>a, <1>b, Zenon DEF Head_, Return
  <2>. QED
    BY <1>b, <2>1, <2>2, <2>3, <2>4
<1>1. PoolInv'
  BY <1>0, PoolStutters, Zenon
<1>2. TypeOK'
  BY <1>0, <1>1, <1>c DEF TypeOK, PoolInv
<1>3a. Unique'
  BY <1>0 DEF Unique, pool
<1>3b. Contents'
  BY <1>0, Zenon DEF Contents, Current, Reads, pool
<1>4. Outstanding'
  BY <1>0, <1>a, Zenon DEF Outstanding, Fresh
<1>5. Counters'
  BY <1>0, <1>a, <1>b, <1>c DEF Counters, batch_n
<1>6. Futures'
  BY <1>0, <1>a, <1>b, <1>c DEF Futures, Limit
<1>7. Success'
  <2>1. ASSUME outcome' = "ok" PROVE next = chunks /\ phase = "verify"
    BY <2>1, <1>c, Zenon DEF TypeOK
  <2>2. ASSUME outcome' = "ok", NEW i \in 0 .. chunks - 1 PROVE result'[<<"verify", i>>] = "ok"
    BY <2>1, <2>2, <1>0 DEF Futures
  <2>. QED
    BY <2>1, <2>2, <1>0, <1>a, <1>c, Zenon DEF Success
<1>. QED
  BY <1>1, <1>2, <1>3a, <1>3b, <1>4, <1>5, <1>6, <1>7, Zenon

\* The futures past more jobs are past fewer.
LEMMA FewerLeft ==
    ASSUME NEW a \in Nat, NEW j \in Nat, NEW k \in Nat, j <= k, NEW i \in Int, a + k <= i
    PROVE  a + j <= i
OBVIOUS

\* A task is made; no task has its index yet.
LEMMA CloneSubmit == CloneInv /\ Submit => CloneInv'
<1>. SUFFICES ASSUME CloneInv, Submit PROVE CloneInv'
  OBVIOUS
<1>. USE Sizes, PoolAssumption DEF CloneInv, device
<1>. PICK t : t = <<phase, next + jobs>>
  BY Zenon
<1>0. /\ pc = "submit" /\ jobs < batch_n /\ owner = "free" /\ ~stopping
      /\ UNCHANGED <<stopping, worker, task>>
      /\ UNCHANGED <<device, phase, pc, next, got, request, buffer, result, faults, rewrites, cancel, outcome>>
  BY Zenon DEF Submit, submit, PoolInv
<1>a. /\ next \in 0 .. chunks /\ jobs \in Nat /\ got = 0 /\ next < chunks
      /\ phase \in {"copy", "verify"} /\ jobs < Cardinality(Workers) /\ next + jobs < chunks
  BY <1>0 DEF TypeOK, Counters, batch_n
<1>b. t \in Tasks /\ t # None /\ t[1] = phase /\ t[2] = next + jobs /\ result[t] = None
  BY <1>0, <1>a DEF Futures, Limit
<1>c. \/ queue' = Append(queue, t) /\ owner' = "notify" /\ jobs' = jobs + 1
      \/ queue' = queue /\ owner' = "blocked" /\ jobs' = jobs
  BY Zenon DEF Submit, submit
<1>d. queue \in Seq(Tasks) /\ task \in [Workers -> Tasks \cup {None}]
  BY Zenon DEF PoolInv, PoolTypeOK
<1>e. /\ \A i \in 1 .. Len(queue) : queue[i] # t
      /\ \A w \in Workers : task[w] # t
  BY <1>0, <1>a, <1>b DEF Outstanding, Fresh
<1>f. jobs' \in Nat /\ jobs <= jobs' /\ jobs' <= Cardinality(Workers) /\ jobs' <= batch_n
  BY <1>0, <1>a, <1>c DEF batch_n
<1>1. PoolInv'
  <2>1. submit(t)
    BY Zenon DEF Submit
  <2>. QED
    BY <2>1, <1>b, SubmitKeeps
<1>2. TypeOK'
  <2>1. jobs' \in 0 .. Cardinality(Workers) /\ got' \in 0 .. jobs'
    BY <1>0, <1>a, <1>f, SMTT(30)
  <2>. QED
    BY <1>0, <1>1, <2>1, Zenon DEF TypeOK, PoolInv
<1>3. Unique'
  <2>1. CASE queue' = queue
    BY <2>1, <1>0 DEF Unique
  <2>2. CASE queue' = Append(queue, t)
    <3>1. /\ Len(queue') = Len(queue) + 1 /\ Len(queue) \in Nat
          /\ \A i \in 1 .. Len(queue) : queue'[i] = queue[i]
          /\ queue'[Len(queue) + 1] = t
      BY <2>2, <1>d
    <3>2. \A i \in 1 .. Len(queue') : i \in 1 .. Len(queue) \/ i = Len(queue) + 1
      BY <3>1
    <3>3. ASSUME NEW i \in 1 .. Len(queue'), NEW j \in 1 .. Len(queue'), queue'[i] = queue'[j]
          PROVE  i = j
      <4>1. i \in 1 .. Len(queue) /\ j \in 1 .. Len(queue) => i = j
        BY <3>1, <3>3, Zenon DEF Unique
      <4>2. i = Len(queue) + 1 <=> j = Len(queue) + 1
        BY <3>1, <3>2, <3>3, <1>e
      <4>. QED
        BY <3>2, <4>1, <4>2, Zenon
    <3>4. ASSUME NEW i \in 1 .. Len(queue'), NEW w \in Workers
          PROVE  queue'[i] # task[w]
      BY <3>1, <3>2, <1>e, Zenon DEF Unique
    <3>5. \A v, w \in Workers : task[v] = task[w] /\ task[v] # None => v = w
      BY Zenon DEF Unique
    <3>. QED
      BY <3>3, <3>4, <3>5, <1>0, Zenon DEF Unique
  <2>. QED
    BY <1>c, <2>1, <2>2
<1>4. Outstanding'
  <2>1. ASSUME NEW u, Fresh(u), u[2] \in Int PROVE Fresh(u)'
    BY <2>1, <1>0, <1>a, <1>f DEF Fresh
  <2>2. \A i \in 1 .. Len(queue) : queue[i] \in Tasks /\ queue[i][2] \in Int
    BY <1>d
  <2>3. \A w \in Workers : task[w] # None => task[w][2] \in Int
    BY <1>d
  <2>4. \A w \in Workers : task'[w] # None => Fresh(task[w])'
    BY <2>1, <2>3, <1>0, Zenon DEF Outstanding
  <2>5. CASE queue' = queue
    BY <2>1, <2>2, <2>4, <2>5, <1>0, Zenon DEF Outstanding
  <2>6. CASE queue' = Append(queue, t) /\ jobs' = jobs + 1
    <3>1. Fresh(t)'
      BY <2>6, <1>0, <1>a, <1>b DEF Fresh
    <3>2. ASSUME NEW i \in 1 .. Len(queue') PROVE Fresh(queue[i])'
      <4>1. CASE i \in 1 .. Len(queue)
        <5>1. queue'[i] = queue[i] /\ Fresh(queue[i])
          BY <4>1, <2>6, <1>d DEF Outstanding
        <5>. QED
          BY <5>1, <4>1, <2>1, <2>2, Zenon DEF Fresh
      <4>2. CASE i = Len(queue) + 1
        <5>1. queue'[i] = t
          BY <4>2, <2>6, <1>d
        <5>. QED
          BY <5>1, <3>1, Zenon DEF Fresh
      <4>. QED
        BY <4>1, <4>2, <2>6, <1>d
    <3>. QED
      BY <3>2, <2>4, <1>0, Zenon DEF Outstanding
  <2>. QED
    BY <1>c, <2>5, <2>6, Zenon
<1>5. Counters'
  BY <1>0, <1>a, <1>f, Zenon DEF Counters, batch_n
<1>6. Futures'
  <2>1. Limit = next + jobs /\ Limit' = next + jobs'
    BY <1>0, Zenon DEF Limit
  <2>2. \A i \in 0 .. chunks - 1 : next + jobs' <= i => next + jobs <= i
    <3>1. next \in Nat /\ \A i \in 0 .. chunks - 1 : i \in Int
      BY <1>a
    <3>. QED
      BY <1>a, <1>f, <3>1, FewerLeft, Zenon
  <2>3. \A i \in 0 .. chunks - 1 : Limit' <= i => Limit <= i
    BY <1>0, <2>1, <2>2, Zenon
  <2>4. Futures
    BY Zenon
  <2>. QED
    BY <1>0, <2>3, <2>4, Zenon DEF Futures
<1>7. Contents'
  BY <1>0 DEF Contents, Current, Reads
<1>8. Success'
  BY <1>0, Zenon DEF Success
<1>. QED
  BY <1>1, <1>2, <1>3, <1>4, <1>5, <1>6, <1>7, <1>8, Zenon

\* The notification after it touches no task.
LEMMA CloneNotify == CloneInv /\ Notify => CloneInv'
<1>. SUFFICES ASSUME CloneInv, Notify PROVE CloneInv'
  OBVIOUS
<1>. USE Sizes DEF CloneInv, device
<1>0. /\ pc = "submit" /\ pc' \in {"submit", "get"} /\ (pc' = "get" => jobs = batch_n)
      /\ UNCHANGED <<queue, task>>
      /\ UNCHANGED <<device, phase, next, jobs, got, request, buffer, result, faults, rewrites, cancel, outcome>>
  BY Zenon DEF Notify, NotifyWork
<1>a. /\ next \in 0 .. chunks /\ jobs \in Nat /\ got = 0 /\ next < chunks /\ batch_n' = batch_n /\ batch_n > 0
  BY <1>0 DEF TypeOK, Counters, batch_n
<1>1. PoolInv'
  BY NotifyWorkKeeps, Zenon DEF Notify
<1>2. TypeOK'
  BY <1>0, <1>1, Zenon DEF TypeOK, PoolInv
<1>3. Unique'
  BY <1>0, Zenon DEF Unique
<1>4. Outstanding'
  BY <1>0, Zenon DEF Outstanding, Fresh
<1>5. Counters'
  BY <1>0, <1>a, Zenon DEF Counters
<1>6. Futures'
  BY <1>0, <1>a DEF Futures, Limit
<1>7. Contents'
  BY <1>0, Zenon DEF Contents, Current, Reads
<1>8. Success'
  BY <1>0, Zenon DEF Success
<1>. QED
  BY <1>1, <1>2, <1>3, <1>4, <1>5, <1>6, <1>7, <1>8, Zenon

\* A future is collected; after the last of the batch no task is left.
LEMMA CloneGet == CloneInv /\ Get => CloneInv'
<1>. SUFFICES ASSUME CloneInv, Get PROVE CloneInv'
  OBVIOUS
<1>. USE Sizes DEF CloneInv, device
<1>. PICK r : r = result[<<phase, next + got>>]
  BY Zenon
<1>0. /\ pc = "get" /\ r # None
      /\ UNCHANGED <<pool, device, phase, jobs, request, buffer, result, faults, rewrites, cancel>>
      /\ queue' = queue /\ task' = task
  BY Zenon DEF Get, pool
<1>a. /\ next \in 0 .. chunks /\ jobs \in Nat /\ got \in Nat /\ got < jobs /\ next + jobs <= chunks
      /\ phase \in {"copy", "verify"} /\ next + got \in 0 .. chunks - 1 /\ outcome = None
      /\ jobs <= Cardinality(Workers) /\ jobs = batch_n /\ batch_n \in Nat
  BY <1>0 DEF Counters, TypeOK, batch_n, Success
<1>b. r \in {"ok", "error"}
  BY <1>0, <1>a, Zenon DEF TypeOK
<1>c. \/ r = "error" /\ pc' = "return" /\ outcome' = "error" /\ next' = next /\ got' = got
      \/ /\ r = "ok" /\ got + 1 = jobs /\ got' = got + 1
         /\ next' = next + jobs /\ pc' = "head" /\ outcome' = None
      \/ /\ r = "ok" /\ got + 1 < jobs /\ got' = got + 1
         /\ next' = next /\ pc' = "get" /\ outcome' = None
  BY <1>0, <1>a, <1>b DEF Get, Return
<1>d. /\ queue \in Seq(Tasks) /\ task \in [Workers -> Tasks \cup {None}]
      /\ \A i \in 1 .. Len(queue) : queue[i] \in Tasks
  BY DEF PoolInv, PoolTypeOK
<1>e. ASSUME r = "ok", NEW i \in 0 .. chunks - 1, next <= i, i < next + got + 1
      PROVE  result[<<phase, i>>] = "ok"
  <2>1. CASE i < next + got
    BY <2>1, <1>e, <1>0, Zenon DEF Futures
  <2>2. CASE i = next + got
    BY <2>2, <1>e, Zenon
  <2>. QED
    BY <1>e, <1>a, <2>1, <2>2
<1>f. ASSUME r = "ok", NEW u \in Tasks, Fresh(u) PROVE got + 1 < jobs
  <2>1. u = <<phase, u[2]>> /\ u[2] \in 0 .. chunks - 1 /\ result[u] = None /\ next <= u[2] /\ u[2] < next + jobs
    BY <1>f, <1>0 DEF Fresh
  <2>2. ~(u[2] < next + got + 1)
    BY <2>1, <1>e, <1>f, Zenon
  <2>. QED
    BY <2>1, <2>2, <1>a
<1>1. PoolInv'
  BY <1>0, PoolStutters, Zenon
<1>2. TypeOK'
  <2>1. next' \in 0 .. chunks /\ got' \in 0 .. jobs
    BY <1>a, <1>c
  <2>. QED
    BY <1>0, <1>1, <1>a, <1>c, <2>1, Zenon DEF TypeOK, PoolInv
<1>3. Unique'
  BY <1>0, Zenon DEF Unique
<1>4. Outstanding'
  <2>2. \A i \in 1 .. Len(queue) : Fresh(queue[i])'
    <3>. TAKE i \in 1 .. Len(queue)
    <3>1. queue[i] \in Tasks /\ Fresh(queue[i])
      BY <1>d, Zenon DEF Outstanding
    <3>. QED
      BY <3>1, <1>f, <1>0, <1>a, <1>c DEF Fresh
  <2>3. \A w \in Workers : task[w] # None => Fresh(task[w])'
    <3>. SUFFICES ASSUME NEW w \in Workers, task[w] # None PROVE Fresh(task[w])'
      BY Zenon
    <3>1. task[w] \in Tasks /\ Fresh(task[w])
      BY <1>d, Zenon DEF Outstanding
    <3>. QED
      BY <3>1, <1>f, <1>0, <1>a, <1>c DEF Fresh
  <2>. QED
    BY <2>2, <2>3, <1>0, Zenon DEF Outstanding
<1>5. Counters'
  BY <1>0, <1>a, <1>c, Zenon DEF Counters, batch_n
<1>6. Futures'
  <2>1. CASE pc' = "return"
    BY <2>1, <1>0, Zenon DEF Futures
  <2>2. CASE pc' = "head"
    <3>1. ASSUME NEW i \in 0 .. chunks - 1, i < next' PROVE result[<<phase, i>>] = "ok"
      BY <2>2, <3>1, <1>0, <1>a, <1>c, <1>e DEF Futures
    <3>2. ASSUME NEW i \in 0 .. chunks - 1, next' <= i PROVE result[<<phase, i>>] = None
      BY <2>2, <3>2, <1>0, <1>a, <1>c, Zenon DEF Futures, Limit
    <3>. QED
      BY <2>2, <3>1, <3>2, <1>0, Zenon DEF Futures, Limit
  <2>3. CASE pc' = "get"
    BY <2>3, <1>0, <1>a, <1>c, <1>e DEF Futures, Limit
  <2>. QED
    BY <1>c, <2>1, <2>2, <2>3
<1>7. Contents'
  BY <1>0, Zenon DEF Contents, Current, Reads
<1>8. Success'
  BY <1>0, <1>c, Zenon DEF Success
<1>. QED
  BY <1>1, <1>2, <1>3, <1>4, <1>5, <1>6, <1>7, <1>8, Zenon

\* The flush: no copy is outstanding, and the comparison begins.
LEMMA CloneFlush == CloneInv /\ Flush => CloneInv'
<1>. SUFFICES ASSUME CloneInv, Flush PROVE CloneInv'
  OBVIOUS
<1>. USE Sizes DEF CloneInv
<1>0. /\ pc = "flush" /\ queue' = queue /\ task' = task
      /\ UNCHANGED <<pool, source, target, jobs, got, request, buffer, result, rewrites, cancel>>
  BY Zenon DEF Flush, pool
<1>a. \/ phase' = "verify" /\ next' = 0 /\ pc' = "head" /\ outcome' = outcome
      \/ /\ phase' = phase /\ next' = next /\ pc' = "return" /\ outcome' = "error"
         /\ UNCHANGED <<dtarget, uncached>>
  BY Zenon DEF Flush, Return
<1>b. queue = <<>> /\ \A w \in Workers : task[w] = None
  BY <1>0, NothingLeft, Zenon
<1>c. phase = "copy"
  BY <1>0, Zenon DEF Counters
<1>t. /\ target \in [0 .. TargetBytes - 1 -> (0 .. MaxRewrites) \cup {Old}]
      /\ dtarget \in [0 .. TargetBytes - 1 -> (0 .. MaxRewrites) \cup {Old, Bad}]
      /\ uncached \subseteq 0 .. Bytes - 1
      /\ \A s \in Bytes .. TargetBytes - 1 : target[s] = Old /\ dtarget[s] = Old
  BY Zenon DEF TypeOK, Contents
<1>d. /\ dtarget' \in [0 .. TargetBytes - 1 -> (0 .. MaxRewrites) \cup {Old, Bad}]
      /\ uncached' \subseteq 0 .. Bytes - 1
      /\ \A s \in Bytes .. TargetBytes - 1 : dtarget'[s] = Old
      /\ phase' = "verify" => \A s \in 0 .. Bytes - 1 : dtarget'[s] \in {target[s], Bad}
  <2>1. CASE \E spoilt \in SUBSET (0 .. Bytes - 1) : \E gone \in SUBSET spoilt : Stored(spoilt, gone)
    <3>1. PICK spoilt \in SUBSET (0 .. Bytes - 1) : \E gone \in SUBSET spoilt : Stored(spoilt, gone)
      BY <2>1, Zenon
    <3>2. PICK gone \in SUBSET spoilt : Stored(spoilt, gone)
      BY <3>1, Zenon
    <3>3. /\ dtarget' = [s \in 0 .. TargetBytes - 1 |-> IF s \in spoilt THEN Bad ELSE target[s]]
          /\ uncached' = gone
      BY <3>2, <1>t, Zenon DEF Stored
    <3>4. \A s \in 0 .. Bytes - 1 : s \in 0 .. TargetBytes - 1
      OBVIOUS
    <3>5. \A s \in Bytes .. TargetBytes - 1 : s \in 0 .. TargetBytes - 1 /\ s \notin spoilt
      BY <3>1
    <3>6. \A s \in 0 .. TargetBytes - 1 : target[s] \in (0 .. MaxRewrites) \cup {Old, Bad}
      BY <1>t, Zenon
    <3>7. \A s \in 0 .. TargetBytes - 1 : dtarget'[s] = IF s \in spoilt THEN Bad ELSE target[s]
      BY <3>3, Zenon
    <3>8. \A s \in 0 .. TargetBytes - 1 : dtarget'[s] \in {target[s], Bad}
      BY <3>7, Zenon
    <3>9. \A s \in Bytes .. TargetBytes - 1 : dtarget'[s] = Old
      BY <1>t, <3>5, <3>7, Zenon
    <3>10. dtarget' \in [0 .. TargetBytes - 1 -> (0 .. MaxRewrites) \cup {Old, Bad}]
      BY <3>3, <3>6, Zenon
    <3>. QED
      BY <3>2, <3>3, <3>4, <3>8, <3>9, <3>10, Zenon
  <2>2. CASE UNCHANGED <<dtarget, uncached, phase>>
    BY <1>t, <1>c, <2>2, Zenon
  <2>. QED
    BY <2>1, <2>2, Zenon DEF Flush
<1>1. PoolInv'
  BY <1>0, PoolStutters, Zenon
<1>2. TypeOK'
  <2>1. next' \in 0 .. chunks
    <3>1. next \in 0 .. chunks /\ 0 \in 0 .. chunks
      BY DEF TypeOK
    <3>. QED
      BY <1>a, <3>1, Zenon
  <2>2. phase' \in {"copy", "verify"} /\ pc' \in {"head", "return"} /\ outcome' \in {outcome, "error"}
    BY <1>a, <1>c, Zenon
  <2>. QED
    BY <1>0, <1>1, <1>d, <2>1, <2>2, Zenon DEF TypeOK, PoolInv
<1>3. Unique'
  BY <1>0, Zenon DEF Unique
<1>4. Outstanding'
  BY <1>0, <1>b DEF Outstanding
<1>5. Counters'
  BY <1>0, <1>a, Zenon DEF Counters
<1>6. Futures'
  BY <1>0, <1>a, <1>c DEF Futures, Limit
<1>7. Contents'
  <2>1. \A i \in 0 .. chunks - 1 : result'[<<"verify", i>>] = None
    BY <1>0, <1>c, Zenon DEF Futures
  <2>2. None # "ok"
    OBVIOUS
  <2>. QED
    BY <1>0, <1>d, <1>t, <2>1, <2>2, Zenon DEF Contents, Current, Reads
<1>8. Success'
  BY <1>0, <1>a, Zenon DEF Success
<1>. QED
  BY <1>1, <1>2, <1>3, <1>4, <1>5, <1>6, <1>7, <1>8

\* The destructor of the pool: the rest of the queue is run before it returns.
LEMMA CloneLeavePool == CloneInv /\ LeavePool => CloneInv'
<1>. SUFFICES ASSUME CloneInv, LeavePool PROVE CloneInv'
  OBVIOUS
<1>. USE Sizes DEF CloneInv, device
<1>0. /\ pc = "return" /\ pc' \in {"return", "done"} /\ (pc' = "done" => owner' = "gone")
      /\ UNCHANGED <<queue, task>>
      /\ UNCHANGED <<device, phase, next, jobs, got, request, buffer, result, faults, rewrites, cancel, outcome>>
  BY Zenon DEF LeavePool, Destroy, NotifyAll, Join
<1>1. PoolInv'
  BY DestructorKeeps, Zenon DEF LeavePool
<1>a. pc' = "done" => queue = <<>> /\ \A w \in Workers : task[w] = None
  BY <1>0, <1>1, PoolAssumption, Zenon DEF PoolInv, PoolTypeOK
<1>2. TypeOK'
  BY <1>0, <1>1, Zenon DEF TypeOK, PoolInv
<1>3. Unique'
  BY <1>0, Zenon DEF Unique
<1>4. Outstanding'
  <2>1. CASE pc' = "return"
    BY <2>1, <1>0, Zenon DEF Outstanding, Fresh
  <2>2. CASE pc' = "done"
    BY <2>2, <1>0, <1>a DEF Outstanding
  <2>. QED
    BY <1>0, <2>1, <2>2, Zenon
<1>5. Counters'
  BY <1>0, <1>a, Zenon DEF Counters
<1>6. Futures'
  BY <1>0, Zenon DEF Futures
<1>7. Contents'
  BY <1>0, Zenon DEF Contents, Current, Reads
<1>8. Success'
  BY <1>0 DEF Success
<1>. QED
  BY <1>1, <1>2, <1>3, <1>4, <1>5, <1>6, <1>7, <1>8
=============================================================================
