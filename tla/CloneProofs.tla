----------------------------- MODULE CloneProofs ----------------------------
(***************************************************************************)
(* A clone that reports success is exact, for every size, chunk, number of *)
(* workers and queue limit, and every interleaving of the workers with     *)
(* writes to the source, failures and cancellation.  CloneOwnerProofs has  *)
(* the invariant; here are the workers that take, await or end a task, the *)
(* reads and writes of the tasks, the writes to the source, and the        *)
(* theorems.                                                               *)
(***************************************************************************)
EXTENDS CloneOwnerProofs

-----------------------------------------------------------------------------
\* A worker takes a task from the queue: it has one place before and after.
LEMMA CloneTake ==
    ASSUME CloneInv, NEW w \in Workers, Take(w), pc \notin {"start", "done"},
           UNCHANGED <<device, loop, request, buffer, result, faults, rewrites, cancel, outcome>>
    PROVE  CloneInv'
<1>. USE Sizes, PoolAssumption DEF CloneInv, device, loop
<1>0. /\ queue # <<>> /\ queue' = Tail(queue) /\ task' = [task EXCEPT ![w] = Head(queue)]
      /\ worker[w] = "awake"
  BY Zenon DEF Take
<1>a. /\ queue \in Seq(Tasks) /\ task \in [Workers -> Tasks \cup {None}]
      /\ task[w] = None
  BY <1>0, Zenon DEF PoolInv, PoolTypeOK
<1>b. /\ Len(queue) \in Nat \ {0} /\ Len(queue') = Len(queue) - 1
      /\ \A i \in 1 .. Len(queue) - 1 : queue'[i] = queue[i + 1]
      /\ queue[1] \in Tasks /\ queue[1] # None
  BY <1>0, <1>a
<1>c. task'[w] = queue[1] /\ \A v \in Workers : v # w => task'[v] = task[v]
  BY <1>0, <1>a
<1>d. Fresh(queue[1])
  BY <1>b DEF Outstanding
<1>1. PoolInv'
  BY TakeKeeps, Zenon
<1>2. TypeOK'
  BY <1>1, Zenon DEF TypeOK, PoolInv
<1>3. Unique'
  <2>1. \A i \in 1 .. Len(queue') : i + 1 \in 1 .. Len(queue) /\ queue'[i] = queue[i + 1] /\ i + 1 # 1
    BY <1>b
  <2>2. \A i, j \in 1 .. Len(queue') : queue'[i] = queue'[j] => i = j
    <3>. SUFFICES ASSUME NEW i \in 1 .. Len(queue'), NEW j \in 1 .. Len(queue'), queue'[i] = queue'[j]
                  PROVE  i = j
      OBVIOUS
    <3>1. i + 1 = j + 1
      BY <2>1 DEF Unique
    <3>. QED
      BY <3>1
  <2>3. \A v, u \in Workers : task'[v] = task'[u] /\ task'[v] # None => v = u
    BY <1>b, <1>c DEF Unique
  <2>4. \A i \in 1 .. Len(queue'), v \in Workers : queue'[i] # task'[v]
    <3>. TAKE i \in 1 .. Len(queue'), v \in Workers
    <3>1. CASE v = w
      BY <3>1, <2>1, <1>b, <1>c DEF Unique
    <3>2. CASE v # w
      BY <3>2, <2>1, <1>c DEF Unique
    <3>. QED
      BY <3>1, <3>2
  <2>. QED
    BY <2>2, <2>3, <2>4, Zenon DEF Unique
<1>4. Outstanding'
  <2>1. \A i \in 1 .. Len(queue') : Fresh(queue[i])'
    <3>. TAKE i \in 1 .. Len(queue')
    <3>1. i + 1 \in 1 .. Len(queue) /\ queue'[i] = queue[i + 1]
      BY <1>b
    <3>2. Fresh(queue[i + 1])
      BY <3>1, Zenon DEF Outstanding
    <3>. QED
      BY <3>1, <3>2 DEF Fresh
  <2>2. \A v \in Workers : task'[v] # None => Fresh(task[v])'
    <3>. SUFFICES ASSUME NEW v \in Workers, task'[v] # None PROVE Fresh(task[v])'
      BY Zenon
    <3>1. CASE v = w
      BY <3>1, <1>c, <1>d, Zenon DEF Fresh
    <3>2. CASE v # w
      BY <3>2, <1>c, Zenon DEF Fresh, Outstanding
    <3>. QED
      BY <3>1, <3>2, Zenon
  <2>. QED
    BY <2>1, <2>2, Zenon DEF Outstanding
<1>5. Counters'
  BY Zenon DEF Counters, batch_n
<1>6. Futures'
  BY Zenon DEF Futures, Limit
<1>7. Contents'
  <2>1. \A v \in Workers : buffer[v] # None => v # w /\ task'[v] = task[v]
    BY <1>a, <1>c, Zenon DEF Contents
  <2>. QED
    BY <2>1, Zenon DEF Contents, Current, Reads
<1>8. Success'
  BY <1>0 DEF Success
<1>. QED
  BY <1>1, <1>2, <1>3, <1>4, <1>5, <1>6, <1>7, <1>8, Zenon

\* Steps of the threads that move no task.
LEMMA CloneIdle ==
    ASSUME CloneInv, PoolInv', UNCHANGED <<queue, task>>,
           UNCHANGED <<device, loop, request, buffer, result, faults, rewrites, outcome>>,
           cancel' \in BOOLEAN
    PROVE  CloneInv'
<1>. USE Sizes DEF CloneInv, device, loop
<1>1. TypeOK'
  BY Zenon DEF TypeOK, PoolInv
<1>2. Unique'
  BY Zenon DEF Unique
<1>3. Outstanding'
  BY Zenon DEF Outstanding, Fresh
<1>4. Counters'
  BY Zenon DEF Counters, batch_n
<1>5. Futures'
  BY Zenon DEF Futures, Limit
<1>6. Contents'
  BY Zenon DEF Contents, Current, Reads
<1>7. Success'
  BY Zenon DEF Success
<1>. QED
  BY <1>1, <1>2, <1>3, <1>4, <1>5, <1>6, <1>7

\* A task ends: its future was empty, and nobody else has the task.  A comparison
\* that succeeds has read the target as current, and while there are comparisons
\* nobody writes the target.
LEMMA CloneEnds ==
    ASSUME CloneInv, NEW w \in Workers, NEW r \in {"ok", "error"}, Ends(w, r),
           UNCHANGED <<source, loop, request, rewrites, cancel, outcome>>,
           UNCHANGED <<dtarget, uncached>>,
           target' \in [0 .. TargetBytes - 1 -> (0 .. MaxRewrites) \cup {Old}],
           \A s \in Bytes .. TargetBytes - 1 : target'[s] = Old,
           task[w][1] = "verify" => UNCHANGED target,
           task[w][1] = "verify" /\ r = "ok" =>
               \A s \in ChunkSectors(task[w][2]) : Current(Reads(s), s)
    PROVE  CloneInv'
<1>. USE Sizes, PoolAssumption DEF CloneInv, loop
<1>. PICK t : t = task[w]
  BY Zenon
<1>0. /\ worker[w] = "running" /\ queue' = queue
      /\ task' = [task EXCEPT ![w] = None]
      /\ result' = [result EXCEPT ![t] = r]
      /\ buffer' = [buffer EXCEPT ![w] = None]
  BY Zenon DEF Ends, Finish
<1>a. /\ queue \in Seq(Tasks) /\ task \in [Workers -> Tasks \cup {None}]
      /\ t \in Tasks /\ t # None
  BY <1>0, Zenon DEF PoolInv, PoolTypeOK
<1>b. Fresh(t) /\ t = <<phase, t[2]>> /\ t[2] \in 0 .. chunks - 1
  BY <1>a DEF Outstanding, Fresh
<1>c. /\ task'[w] = None /\ \A v \in Workers : v # w => task'[v] = task[v] /\ task[v] # t
  BY <1>a, <1>0 DEF Unique
<1>d. result \in [Tasks -> {None, "ok", "error"}] /\ result' \in [Tasks -> {None, "ok", "error"}]
  BY <1>0, Zenon DEF TypeOK
<1>e. result'[t] = r /\ \A u \in Tasks : u # t => result'[u] = result[u]
  BY <1>0, <1>a, <1>d, Zenon
<1>f. \A i \in 1 .. Len(queue) : queue[i] \in Tasks /\ queue[i] # t /\ queue[i] # None
  <2>. TAKE i \in 1 .. Len(queue)
  <2>1. queue[i] \in Tasks
    BY <1>a
  <2>2. queue[i] # task[w]
    BY Zenon DEF Unique
  <2>. QED
    BY <2>1, <2>2, Zenon
<1>1. PoolInv'
  BY FinishKeeps, Zenon DEF Ends
<1>2. TypeOK'
  BY <1>1, <1>d, Zenon DEF TypeOK, PoolInv
<1>3. Unique'
  <2>1. \A v \in Workers : task'[v] = None \/ task'[v] = task[v]
    BY <1>c, Zenon
  <2>2. \A i \in 1 .. Len(queue), v \in Workers : queue[i] # task'[v]
    BY <2>1, <1>f DEF Unique
  <2>3. \A u, v \in Workers : task'[u] = task'[v] /\ task'[u] # None => u = v
    BY <2>1, Zenon DEF Unique
  <2>. QED
    BY <2>2, <2>3, <1>0, Zenon DEF Unique
<1>4. Outstanding'
  <2>1. \A i \in 1 .. Len(queue) : Fresh(queue[i])'
    <3>. TAKE i \in 1 .. Len(queue)
    <3>1. queue[i] \in Tasks /\ queue[i] # t /\ Fresh(queue[i])
      BY <1>f, Zenon DEF Outstanding
    <3>. QED
      BY <3>1, <1>e, <1>0, Zenon DEF Fresh
  <2>2. \A v \in Workers : task'[v] # None => Fresh(task[v])'
    <3>. SUFFICES ASSUME NEW v \in Workers, task'[v] # None PROVE Fresh(task[v])'
      BY Zenon
    <3>1. task[v] \in Tasks /\ task'[v] = task[v] /\ task[v] # t /\ Fresh(task[v])
      BY <1>a, <1>c, Zenon DEF Outstanding
    <3>. QED
      BY <3>1, <1>e, Zenon DEF Fresh
  <2>. QED
    BY <2>1, <2>2, <1>0, Zenon DEF Outstanding
<1>5. Counters'
  BY <1>0, <1>a, Zenon DEF Counters, batch_n
<1>6. Futures'
  <2>1. \A i \in 0 .. chunks - 1 : <<phase, i>> \in Tasks /\ <<"verify", i>> \in Tasks
    BY Zenon DEF TypeOK
  <2>2. phase = "copy" => \A i \in 0 .. chunks - 1 : <<"verify", i>> # t
    BY <1>b
  <2>3. CASE pc = "return"
    BY <2>1, <2>2, <2>3, <1>e, Zenon DEF Futures
  <2>4. CASE pc # "return"
    <3>1. pc \in {"submit", "get"} /\ next <= t[2] /\ t[2] < next + jobs /\ result[t] = None
      BY <2>4, <1>b, Zenon DEF Fresh
    <3>2. \A i \in 0 .. chunks - 1 : i < next => <<phase, i>> # t
      BY <3>1, <1>b, SMTT(30) DEF TypeOK
    <3>3. \A i \in 0 .. chunks - 1 : next + jobs <= i => <<phase, i>> # t
      BY <3>1, <1>b, SMTT(30) DEF TypeOK
    <3>4. Limit = next + jobs /\ Limit' = Limit
      BY <3>1 DEF Limit
    <3>5. phase = "copy" => \A i \in 0 .. chunks - 1 : result'[<<"verify", i>>] = None
      BY <2>1, <2>2, <1>e, Zenon DEF Futures
    <3>6. \A i \in 0 .. chunks - 1 : i < next => result'[<<phase, i>>] = "ok"
      <4>. SUFFICES ASSUME NEW i \in 0 .. chunks - 1, i < next PROVE result'[<<phase, i>>] = "ok"
        OBVIOUS
      <4>1. <<phase, i>> # t /\ <<phase, i>> \in Tasks
        BY <2>1, <3>2, Zenon
      <4>2. result[<<phase, i>>] = "ok"
        BY <3>1, Zenon DEF Futures
      <4>. QED
        BY <4>1, <4>2, <1>e, Zenon
    <3>7. \A i \in 0 .. chunks - 1 : Limit <= i => result'[<<phase, i>>] = None
      <4>. SUFFICES ASSUME NEW i \in 0 .. chunks - 1, Limit <= i PROVE result'[<<phase, i>>] = None
        OBVIOUS
      <4>1. <<phase, i>> # t /\ <<phase, i>> \in Tasks
        BY <2>1, <3>3, <3>4, Zenon
      <4>2. result[<<phase, i>>] = None
        BY <3>1 DEF Futures
      <4>. QED
        BY <4>1, <4>2, <1>e, Zenon
    <3>8. pc = "get" => \A i \in 0 .. chunks - 1 : next <= i /\ i < next + got => result'[<<phase, i>>] = "ok"
      <4>. SUFFICES ASSUME pc = "get", NEW i \in 0 .. chunks - 1, next <= i, i < next + got
                    PROVE  result'[<<phase, i>>] = "ok"
        BY Zenon
      <4>1. result[<<phase, i>>] = "ok"
        BY Zenon DEF Futures
      <4>2. <<phase, i>> # t
        BY <4>1, <3>1, Zenon
      <4>. QED
        BY <4>1, <4>2, <2>1, <1>e, Zenon
    <3>. QED
      BY <3>1, <3>4, <3>5, <3>6, <3>7, <3>8 DEF Futures
  <2>. QED
    BY <2>3, <2>4, Zenon
<1>7. Contents'
  <2>1. \A v \in Workers : buffer'[v] # None => v # w /\ buffer'[v] = buffer[v] /\ task'[v] = task[v]
    BY <1>0, <1>c, Zenon DEF Contents
  <2>2. ASSUME NEW i \in 0 .. chunks - 1, result'[<<"verify", i>>] = "ok"
        PROVE  \A s \in ChunkSectors(i) : Current(Reads(s), s)'
    <3>1. <<"verify", i>> \in Tasks
      BY Zenon
    <3>2. phase = "verify" /\ target' = target
      <4>1. CASE phase = "copy"
        <5>1. t # <<"verify", i>> /\ result[<<"verify", i>>] = None
          BY <4>1, <1>b, SMTT(30) DEF Futures
        <5>. QED
          BY <5>1, <3>1, <2>2, <1>e, Zenon
      <4>. QED
        BY <4>1, <1>b DEF TypeOK
    <3>3. \A s \in ChunkSectors(i) : Current(Reads(s), s)
      <4>1. CASE t = <<"verify", i>>
        BY <4>1, <2>2, <1>e
      <4>2. CASE t # <<"verify", i>>
        BY <4>2, <2>2, <3>1, <1>e, Zenon DEF Contents
      <4>. QED
        BY <4>1, <4>2, Zenon
    <3>. QED
      BY <3>2, <3>3, Zenon DEF Current, Reads
  <2>3. phase' = "verify" => \A s \in 0 .. Bytes - 1 : dtarget'[s] \in {target'[s], Bad}
    <3>1. phase = "verify" => target' = target
      BY <1>b DEF Fresh
    <3>. QED
      BY <3>1, Zenon DEF Contents
  <2>4. buffer' = [v \in Workers |-> buffer'[v]]
    BY <1>0, Zenon DEF Contents
  <2>5. ASSUME NEW v \in Workers, buffer'[v] # None
        PROVE  /\ task'[v] # None
               /\ buffer'[v] \in [ChunkSectors(task'[v][2]) -> 0 .. MaxRewrites]
               /\ \A s \in ChunkSectors(task'[v][2]) : Current(buffer[v][s], s)'
    BY <2>1, <2>5 DEF Contents, Current
  <2>6. \A s \in 0 .. Bytes - 1 : source'[s] <= rewrites'
    BY Zenon DEF Contents
  <2>7. \A s \in Bytes .. TargetBytes - 1 : target'[s] = Old /\ dtarget'[s] = Old
    BY Zenon DEF Contents
  <2>. QED
    BY <2>2, <2>3, <2>4, <2>5, <2>6, <2>7, Zenon DEF Contents
<1>8. Success'
  BY <1>a, Zenon DEF Success
<1>. QED
  BY <1>1, <1>2, <1>3, <1>4, <1>5, <1>6, <1>7, <1>8, Zenon

-----------------------------------------------------------------------------
\* A task that runs has a chunk, which lies in the source.
LEMMA Running ==
    ASSUME CloneInv, NEW w \in Workers, worker[w] = "running"
    PROVE  /\ task[w] \in Tasks /\ task[w] # None
           /\ ChunkSectors(task[w][2]) \subseteq 0 .. Bytes - 1
BY PoolAssumption, Zenon DEF CloneInv, PoolInv, PoolTypeOK, ChunkSectors

\* What a task has read is current, and stays so.
LEMMA CloneReadSource ==
    ASSUME CloneInv, NEW w \in Workers, ReadSource(w)
    PROVE  CloneInv'
<1>. USE Sizes
<1>. DEFINE here == ChunkSectors(task[w][2])
<1>0. /\ worker[w] = "running"
      /\ UNCHANGED <<source, target, dtarget, uncached, loop, request, rewrites, cancel, outcome>>
  BY Zenon DEF ReadSource, device
<1>a. task[w] # None /\ here \subseteq 0 .. Bytes - 1
  BY <1>0, Running, Zenon
<1>1. CASE Ends(w, "error")
  BY <1>1, <1>0, CloneEnds, Zenon DEF CloneInv, TypeOK, Contents
<1>2. CASE /\ buffer' = [buffer EXCEPT ![w] = [s \in here |-> source[s]]]
           /\ UNCHANGED <<pool, result, faults>>
  <2>. USE <1>0, <1>2 DEF CloneInv, loop, pool
  <2>1. PoolInv'
    BY PoolStutters, Zenon
  <2>2. TypeOK'
    BY <2>1, Zenon DEF TypeOK, PoolInv
  <2>3. Unique'
    BY Zenon DEF Unique
  <2>4. Outstanding'
    BY DEF Outstanding, Fresh
  <2>5. Counters'
    BY DEF Counters, batch_n
  <2>6. Futures'
    BY DEF Futures, Limit
  <2>7. Contents'
    <3>1. source \in [0 .. Bytes - 1 -> 0 .. MaxRewrites]
      BY Zenon DEF TypeOK
    <3>2. buffer' = [v \in Workers |-> buffer'[v]] /\ buffer'[w] = [s \in here |-> source[s]]
      BY Zenon DEF Contents
    <3>3. \A v \in Workers : v # w => buffer'[v] = buffer[v]
      BY Zenon DEF Contents
    <3>4. /\ buffer'[w] \in [here -> 0 .. MaxRewrites]
          /\ \A s \in here : buffer'[w][s] = source[s] /\ source[s] \in Nat
      BY <3>1, <3>2, <1>a
    <3>5. \A s \in here : Current(buffer[w][s], s)'
      BY <3>4, SMTT(30) DEF Current
    <3>6. \A v \in Workers : buffer'[v] # None =>
             /\ task'[v] # None
             /\ buffer'[v] \in [ChunkSectors(task'[v][2]) -> 0 .. MaxRewrites]
             /\ \A s \in ChunkSectors(task'[v][2]) : Current(buffer[v][s], s)'
      BY <3>3, <3>4, <3>5, <1>a DEF Contents, Current
    <3>7. \A i \in 0 .. chunks - 1 : result'[<<"verify", i>>] = "ok" =>
             \A s \in ChunkSectors(i) : Current(Reads(s), s)'
      BY Zenon DEF Contents, Current, Reads
    <3>8. /\ \A s \in 0 .. Bytes - 1 : source'[s] <= rewrites'
          /\ \A s \in Bytes .. TargetBytes - 1 : target'[s] = Old /\ dtarget'[s] = Old
          /\ phase' = "verify" => \A s \in 0 .. Bytes - 1 : dtarget'[s] \in {target'[s], Bad}
      BY Zenon DEF Contents
    <3>. QED
      BY <3>2, <3>6, <3>7, <3>8, Zenon DEF Contents
  <2>8. Success'
    BY DEF Success
  <2>. QED
    BY <2>1, <2>2, <2>3, <2>4, <2>5, <2>6, <2>7, <2>8
<1>. QED
  BY <1>1, <1>2, Zenon DEF ReadSource

\* What a copy writes, where, whether or not it fails.
LEMMA StoresInside ==
    ASSUME CloneInv, NEW w \in Workers, worker[w] = "running", buffer[w] # None,
           NEW kept \in SUBSET ChunkSectors(task[w][2]), Stores(w, kept)
    PROVE  /\ target' \in [0 .. TargetBytes - 1 -> (0 .. MaxRewrites) \cup {Old}]
           /\ \A s \in Bytes .. TargetBytes - 1 : target'[s] = Old
<1>. USE Sizes
<1>1. /\ target \in [0 .. TargetBytes - 1 -> (0 .. MaxRewrites) \cup {Old}]
      /\ \A s \in Bytes .. TargetBytes - 1 : target[s] = Old
  BY Zenon DEF CloneInv, TypeOK, Contents
<1>2. kept \subseteq 0 .. Bytes - 1
  BY Running, Zenon
<1>3. \A s \in kept : buffer[w][s] \in 0 .. MaxRewrites
  BY DEF CloneInv, Contents
<1>4. target' = [s \in 0 .. TargetBytes - 1 |-> IF s \in kept THEN buffer[w][s] ELSE target[s]]
  BY <1>1, Zenon DEF Stores
<1>5. ASSUME NEW s \in 0 .. TargetBytes - 1
      PROVE  /\ target'[s] \in (0 .. MaxRewrites) \cup {Old}
             /\ s \notin kept => target'[s] = target[s]
  <2>1. CASE s \in kept
    BY <2>1, <1>3, <1>4, Zenon
  <2>2. CASE s \notin kept
    BY <2>2, <1>1, <1>4, Zenon
  <2>. QED
    BY <2>1, <2>2, Zenon
<1>6. \A s \in Bytes .. TargetBytes - 1 : s \in 0 .. TargetBytes - 1 /\ s \notin kept
  BY <1>2
<1>. QED
  BY <1>1, <1>4, <1>5, <1>6, Zenon

\* A copy ends.
LEMMA CloneCopies ==
    ASSUME CloneInv, NEW w \in Workers, copy_chunk(w)
    PROVE  CloneInv'
<1>. DEFINE here == ChunkSectors(task[w][2])
<1>0. /\ worker[w] = "running" /\ buffer[w] # None /\ task[w][1] = "copy"
      /\ UNCHANGED <<source, dtarget, uncached, loop, request, rewrites, cancel, outcome>>
  BY DEF copy_chunk
<1>1. ASSUME NEW kept \in SUBSET here, NEW r \in {"ok", "error"}, Stores(w, kept), Ends(w, r)
      PROVE  CloneInv'
  BY <1>0, <1>1, StoresInside, CloneEnds, Zenon
<1>2. CASE Stores(w, here) /\ Ends(w, "ok")
  BY <1>1, <1>2, Zenon
<1>3. CASE \E kept \in SUBSET here : Stores(w, kept) /\ Ends(w, "error")
  BY <1>1, <1>3, Zenon
<1>. QED
  BY <1>2, <1>3, Zenon DEF copy_chunk

\* A comparison ends: if it succeeds, the target reads as the source did.
LEMMA CloneVerifies ==
    ASSUME CloneInv, NEW w \in Workers, verify_chunk(w)
    PROVE  CloneInv'
<1>. DEFINE here == ChunkSectors(task[w][2])
<1>0. /\ worker[w] = "running" /\ buffer[w] # None /\ task[w][1] = "verify"
      /\ UNCHANGED <<source, target, dtarget, uncached, loop, request, rewrites, cancel, outcome>>
  BY Zenon DEF verify_chunk, device
<1>1. /\ target' \in [0 .. TargetBytes - 1 -> (0 .. MaxRewrites) \cup {Old}]
      /\ \A s \in Bytes .. TargetBytes - 1 : target'[s] = Old
  BY <1>0, Zenon DEF CloneInv, TypeOK, Contents
<1>2. /\ DOMAIN buffer[w] = here
      /\ \A s \in here : Current(buffer[w][s], s)
  BY <1>0 DEF CloneInv, Contents
<1>3. CASE Ends(w, "error")
  BY <1>0, <1>1, <1>3, CloneEnds, Zenon
<1>4. CASE Ends(w, "ok") /\ \A s \in DOMAIN buffer[w] : Reads(s) = buffer[w][s]
  <2>1. \A s \in here : Current(Reads(s), s)
    BY <1>2, <1>4, Zenon
  <2>. QED
    BY <1>0, <1>1, <1>4, <2>1, CloneEnds, Zenon
<1>. QED
  BY <1>3, <1>4, Zenon DEF verify_chunk

\* A write to the source makes what was read of it older, not wrong.
LEMMA CloneRewrite == CloneInv /\ Rewrite => CloneInv'
<1>. SUFFICES ASSUME CloneInv, Rewrite PROVE CloneInv'
  BY Zenon
<1>. USE Sizes DEF CloneInv
<1>0. /\ rewrites < MaxRewrites /\ rewrites' = rewrites + 1
      /\ UNCHANGED <<pool, target, dtarget, uncached, loop, request, buffer, result, faults, cancel, outcome>>
  BY DEF Rewrite
<1>1. PICK x \in DOMAIN source : source' = [source EXCEPT ![x] = rewrites + 1]
  BY Zenon DEF Rewrite
<1>2. /\ source \in [0 .. Bytes - 1 -> 0 .. MaxRewrites] /\ rewrites \in Nat
      /\ \A s \in 0 .. Bytes - 1 : source[s] <= rewrites
  BY DEF TypeOK, Counters, Contents
<1>3. /\ source' \in [0 .. Bytes - 1 -> 0 .. MaxRewrites] /\ rewrites' \in 1 .. MaxRewrites
      /\ \A s \in 0 .. Bytes - 1 : source[s] <= source'[s] /\ source'[s] <= rewrites'
  <2>1. rewrites' \in 1 .. MaxRewrites /\ rewrites + 1 \in 0 .. MaxRewrites
    BY <1>0, <1>2, SMTT(30)
  <2>2. ASSUME NEW s \in 0 .. Bytes - 1
        PROVE  source[s] <= source'[s] /\ source'[s] <= rewrites'
    <3>1. source'[s] = IF s = x THEN rewrites + 1 ELSE source[s]
      BY <1>1, <1>2, Zenon
    <3>2. source[s] \in Int /\ source[s] <= rewrites
      BY <1>2
    <3>. QED
      BY <1>0, <1>2, <3>1, <3>2, SMTT(30)
  <2>3. source' \in [0 .. Bytes - 1 -> 0 .. MaxRewrites]
    BY <1>1, <1>2, <2>1, Zenon
  <2>. QED
    BY <2>1, <2>2, <2>3, Zenon
<1>4. ASSUME NEW v, NEW s \in 0 .. Bytes - 1, Current(v, s)
      PROVE  v \in 0 .. source'[s] /\ rewrites' # 0
  <2>1. v \in 0 .. source[s] /\ source[s] \in Nat /\ source'[s] \in Nat /\ source[s] <= source'[s]
    BY <1>2, <1>3, <1>4 DEF Current
  <2>. QED
    BY <1>3, <2>1
<1>5. \A i : ChunkSectors(i) \subseteq 0 .. Bytes - 1
  BY Zenon DEF ChunkSectors
<1>. USE <1>0 DEF pool, loop
<1>6. PoolInv'
  BY PoolStutters, Zenon
<1>7. TypeOK'
  BY <1>3, <1>6, Zenon DEF TypeOK, PoolInv
<1>8. Unique' /\ Outstanding'
  BY DEF Unique, Outstanding, Fresh
<1>9. Counters' /\ Futures' /\ Success'
  BY <1>3, SMTT(30) DEF Counters, batch_n, Futures, Limit, Success
<1>10. Contents'
  <2>1. ASSUME NEW w \in Workers, buffer[w] # None, NEW s \in ChunkSectors(task[w][2])
        PROVE  Current(buffer[w][s], s)'
    <3>1. Current(buffer[w][s], s) /\ s \in 0 .. Bytes - 1
      BY <2>1, <1>5, Zenon DEF Contents
    <3>. QED
      BY <3>1, <1>4, Zenon DEF Current
  <2>2. ASSUME NEW i \in 0 .. chunks - 1, result[<<"verify", i>>] = "ok", NEW s \in ChunkSectors(i)
        PROVE  Current(Reads(s), s)'
    <3>1. Current(Reads(s), s) /\ s \in 0 .. Bytes - 1
      BY <2>2, <1>5, Zenon DEF Contents
    <3>2. Reads(s)' = Reads(s)
      BY Zenon DEF Reads
    <3>. QED
      BY <3>1, <3>2, <1>4, Zenon DEF Current
  <2>3. /\ \A s \in 0 .. Bytes - 1 : source'[s] <= rewrites'
        /\ \A s \in Bytes .. TargetBytes - 1 : target'[s] = Old /\ dtarget'[s] = Old
        /\ phase' = "verify" => \A s \in 0 .. Bytes - 1 : dtarget'[s] \in {target'[s], Bad}
        /\ buffer' = [w \in Workers |-> buffer'[w]]
        /\ \A w \in Workers : buffer'[w] # None =>
              task'[w] # None /\ buffer'[w] \in [ChunkSectors(task'[w][2]) -> 0 .. MaxRewrites]
    BY <1>3, Zenon DEF Contents
  <2>. QED
    BY <2>1, <2>2, <2>3, Zenon DEF Contents
<1>. QED
  BY <1>6, <1>7, <1>8, <1>9, <1>10, Zenon

\* The call: nothing has been submitted, read or stored.
LEMMA CloneInit == Init => CloneInv
<1>. SUFFICES ASSUME Init PROVE CloneInv
  BY Zenon
<1>. USE Sizes DEF Init
<1>1. PoolInv
  BY PoolStarts, Zenon
<1>2. TypeOK
  <2>1. PoolTypeOK /\ request \in Requests \cup {None}
    BY <1>1, Zenon DEF PoolInv
  <2>2. /\ source \in [0 .. Bytes - 1 -> 0 .. MaxRewrites]
        /\ target \in [0 .. TargetBytes - 1 -> (0 .. MaxRewrites) \cup {Old}]
        /\ dtarget \in [0 .. TargetBytes - 1 -> (0 .. MaxRewrites) \cup {Old, Bad}]
        /\ uncached \subseteq 0 .. Bytes - 1
    OBVIOUS
  <2>3. result \in [Tasks -> {None, "ok", "error"}]
    BY Zenon
  <2>4. next \in 0 .. chunks /\ jobs \in 0 .. Cardinality(Workers) /\ got \in 0 .. jobs
    OBVIOUS
  <2>5. cancel \in BOOLEAN /\ outcome \in {None, "ok", "error", "cancelled", "refused"}
    BY Zenon
  <2>. QED
    BY <2>1, <2>2, <2>3, <2>4, <2>5, Zenon DEF TypeOK
<1>3. queue = <<>> /\ Len(queue) = 0 /\ \A w \in Workers : task[w] = None
  BY Zenon DEF PoolInit
<1>4. Unique /\ Outstanding
  BY <1>3 DEF Unique, Outstanding
<1>5. \A t \in Tasks : result[t] = None
  BY Zenon
<1>6. Counters /\ Futures
  BY <1>3, <1>5 DEF Counters, Futures, Limit
<1>7. Contents
  BY <1>5 DEF Contents, Current
<1>8. Success
  BY Zenon DEF Success
<1>. QED
  BY <1>1, <1>2, <1>4, <1>6, <1>7, <1>8, Zenon DEF CloneInv

\* Every step of a worker keeps the invariant.
LEMMA CloneWorker ==
    ASSUME CloneInv, NEW w \in Workers, Worker(w)
    PROVE  CloneInv'
<1>1. CASE ReadSource(w) \/ copy_chunk(w) \/ verify_chunk(w)
  BY <1>1, CloneReadSource, CloneCopies, CloneVerifies, Zenon
<1>2. CASE /\ pc \notin {"start", "done"}
           /\ Take(w) \/ WaitOrExit(w) \/ NotifySpace(w)
           /\ UNCHANGED <<device, loop, request, buffer, result, faults, rewrites, cancel, outcome>>
  <2>0. PoolInv /\ cancel' \in BOOLEAN
    BY <1>2, Zenon DEF CloneInv, TypeOK
  <2>1. CASE Take(w)
    BY <1>2, <2>1, CloneTake, Zenon
  <2>2. CASE WaitOrExit(w)
    BY <1>2, <2>0, <2>2, WorkerLoopKeeps, CloneIdle, Zenon DEF WaitOrExit
  <2>3. CASE NotifySpace(w)
    BY <1>2, <2>0, <2>3, WorkerLoopKeeps, CloneIdle, Zenon DEF NotifySpace
  <2>. QED
    BY <1>2, <2>1, <2>2, <2>3, Zenon
<1>. QED
  BY <1>1, <1>2, Zenon DEF Worker

\* Every step of the owner, the workers and those around them keeps it.
LEMMA CloneStep == CloneInv /\ [Next]_vars => CloneInv'
<1>. SUFFICES ASSUME CloneInv, [Next]_vars PROVE CloneInv'
  BY Zenon
<1>0. PoolInv /\ cancel \in BOOLEAN
  BY DEF CloneInv, TypeOK
<1>1. CASE Owner
  BY <1>1, CloneStart, CloneHead, CloneSubmit, CloneNotify, CloneGet, CloneFlush, CloneLeavePool DEF Owner
<1>2. CASE \E w \in Workers : Worker(w)
  BY <1>2, CloneWorker, Zenon
<1>3. CASE WokenForNothing
  <2>1. PoolInv' /\ UNCHANGED <<queue, task>>
    BY <1>0, <1>3, SpuriousKeeps, Zenon DEF WokenForNothing, Spurious
  <2>2. cancel' \in BOOLEAN
    BY <1>0, <1>3 DEF WokenForNothing
  <2>. QED
    BY <1>3, <2>1, <2>2, CloneIdle, Zenon DEF WokenForNothing
<1>4. CASE Rewrite
  BY <1>4, CloneRewrite, Zenon
<1>5. CASE Interrupt
  <2>1. PoolInv'
    BY <1>0, <1>5, PoolStutters, Zenon DEF Interrupt
  <2>. QED
    BY <1>5, <2>1, CloneIdle, Zenon DEF Interrupt, pool
<1>6. CASE UNCHANGED vars
  <2>1. PoolInv'
    BY <1>0, <1>6, PoolStutters, Zenon DEF vars
  <2>. QED
    BY <1>0, <1>6, <2>1, CloneIdle, Zenon DEF vars, pool
<1>. QED
  BY <1>1, <1>2, <1>3, <1>4, <1>5, <1>6, Zenon DEF Next

\* The invariant gives what a reported success means.
LEMMA SuccessIsExact == CloneInv => CloneExact
<1>. SUFFICES ASSUME CloneInv PROVE CloneExact
  BY Zenon
<1>1. \A s \in Bytes .. TargetBytes - 1 : target[s] = Old /\ dtarget[s] = Old
  BY Zenon DEF CloneInv, Contents
<1>2. ASSUME outcome = "ok", NEW s \in 0 .. Bytes - 1
      PROVE  Current(dtarget[s], s) \/ (dtarget[s] = Bad /\ s \notin uncached)
  <2>1. Current(Reads(s), s)
    BY <1>2, ChunksCover, Zenon DEF CloneInv, Success, Contents
  <2>2. dtarget[s] \in {target[s], Bad}
    BY <1>2, Zenon DEF CloneInv, Success, Contents
  <2>. QED
    BY <2>1, <2>2, Zenon DEF Reads
<1>. QED
  BY <1>1, <1>2, Zenon DEF CloneExact, Current

\* The invariant of clone_device and its pool holds in every behaviour.
THEOREM CloneSafety == Spec => []CloneInv
BY CloneInit, CloneStep, PTL DEF Spec

\* A clone that clone_device reports as done is complete, and each sector of it
\* on the medium has a value the source has held, or is one that the medium
\* stored wrongly and the page cache answered for when verify_chunk read it;
\* whatever the sizes and the number of threads.
THEOREM CloneIsExact == Spec => []CloneExact
BY CloneSafety, SuccessIsExact, PTL

\* submit, worker_loop and ~TaskPool lose no wakeup under clone_device, for
\* every number of workers and every queue limit.
THEOREM CloneLosesNoWakeup == Spec => []NoLostWakeup
<1>1. CloneInv => NoLostWakeup
  BY PoolPromises, Zenon DEF CloneInv
<1>. QED
  BY <1>1, CloneSafety, PTL

\* clone_device leaves no task and no thread behind when it returns.
THEOREM CloneLeavesNothing == Spec => []DestroyedIsQuiet
<1>1. CloneInv => DestroyedIsQuiet
  BY PoolPromises DEF CloneInv
<1>. QED
  BY <1>1, CloneSafety, PTL

\* Every variable of clone_device keeps its type: the counters stay within the
\* number of chunks and got within jobs, for every pool and every size.
THEOREM CloneTypes == Spec => []TypeOK
<1>1. CloneInv => TypeOK
  BY DEF CloneInv
<1>. QED
  BY <1>1, CloneSafety, PTL
=============================================================================
