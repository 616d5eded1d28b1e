------------------------------- MODULE Clone --------------------------------
(***************************************************************************)
(* clone_device (ops/clone.cpp) as fsx clone calls it, on its TaskPool.    *)
(*                                                                         *)
(* The owner thread checks the two devices, copies the source in batches   *)
(* of one chunk per worker, flushes, and compares both in the same way.    *)
(* It returns at the first error, and the destructor of the pool runs what *)
(* is still queued.  The source may be written meanwhile (it is a live     *)
(* one), any I/O may fail, and the user may cancel.                        *)
(*                                                                         *)
(* Reads and writes go through the page cache, and no page is dropped from *)
(* it by the program.  The medium may store a sector wrongly when it is    *)
(* flushed; the comparison sees that only where the page has left the      *)
(* cache.  The unit of offsets and lengths is the sector.                  *)
(***************************************************************************)
EXTENDS TaskPool, Safety

CONSTANTS Bytes,        \* the size of the source
          TargetBytes,  \* the size of a large enough target
          Chunk,        \* chunk
          Requests,     \* the source, target, flags and system a clone starts with
          MaxFaults,    \* bound: I/O errors and sectors stored wrongly
          MaxRewrites   \* bound: writes to the live source

ASSUME CloneAssumption ==
    /\ Bytes \in Nat \ {0} /\ TargetBytes \in Nat /\ TargetBytes >= Bytes
    /\ Chunk \in Nat \ {0}
    /\ MaxFaults \in Nat /\ MaxRewrites \in Nat
    /\ Tasks = {"copy", "verify"} \X (0 .. (Bytes + Chunk - 1) \div Chunk - 1)
    /\ None \notin {"ok", "error"}

VARIABLES request,  \* how clone_device was called; None once it has checked
          source,   \* the version of each sector of the source
          target,   \* each sector of the target, as it was written
          dtarget,  \* as it is on the medium
          uncached, \* the sectors stored wrongly that are read from the medium
          buffer,   \* what the task of each worker has read
          result,   \* what the future of each task holds
          phase,    \* the loop: "copy" or "verify"
          pc,       \* where the owner is
          next, jobs, got,  \* next; the futures of the batch made and collected
          faults, rewrites, cancel,
          outcome   \* what clone_device returns

device == <<source, target, dtarget, uncached>>
loop == <<phase, pc, next, jobs, got>>
vars == <<pool, device, loop, request, buffer, result, faults, rewrites, cancel, outcome>>

\* What a sector of the target may hold that no version of the source is.
Old == -1
Bad == -2

chunks == (Bytes + Chunk - 1) \div Chunk
batch_nWhole == Cardinality(Workers)
batch_n == IF Cardinality(Workers) < chunks - next THEN Cardinality(Workers) ELSE chunks - next

\* off and len: the sectors of a chunk, the last of which is short.
ChunkSectors(idx) == {s \in 0 .. Bytes - 1 : s \div Chunk = idx}

\* The checks, in their order; the lock is taken last.
Admitted(r) ==
    /\ require_nonoverlapping_devices(r.source, r.target)
    /\ ~r.allow_live_source => ~Active(r.source, r.system)
    /\ r.fits
    /\ r.target \in Devices => r.allow_block_device
    /\ require_offline_for_write(r.target, r.system)

Init ==
    /\ PoolInit
    /\ request \in Requests
    /\ source = [s \in 0 .. Bytes - 1 |-> 0]
    /\ target = [s \in 0 .. TargetBytes - 1 |-> Old]
    /\ dtarget = target /\ uncached = {}
    /\ buffer = [w \in Workers |-> None]
    /\ result = [t \in Tasks |-> None]
    /\ phase = "copy" /\ pc = "start" /\ next = 0 /\ jobs = 0 /\ got = 0
    /\ faults = 0 /\ rewrites = 0 /\ cancel = FALSE /\ outcome = None

-----------------------------------------------------------------------------
Fault == faults < MaxFaults /\ faults' = faults + 1

Return(x) == outcome' = x /\ pc' = "return"

Start ==
    /\ pc = "start"
    /\ request' = None
    /\ IF Admitted(request)
       THEN pc' = "head" /\ UNCHANGED outcome
       ELSE pc' = "done" /\ outcome' = "refused"
    /\ UNCHANGED <<pool, device, phase, next, jobs, got, buffer, result, faults, rewrites, cancel>>

\* The head of either loop, and what follows the last batch of the second.
Head_ ==
    /\ pc = "head" /\ owner = "free"
    /\ CASE next = chunks /\ phase = "copy"   -> pc' = "flush" /\ UNCHANGED outcome
         [] next = chunks /\ phase = "verify" -> Return("ok")
         [] next < chunks /\ cancel           -> Return("cancelled")
         [] next < chunks /\ ~cancel          -> pc' = "submit" /\ UNCHANGED outcome
    /\ jobs' = 0 /\ got' = 0
    /\ UNCHANGED <<pool, device, phase, next, request, buffer, result, faults, rewrites, cancel>>

\* jobs.push_back(pool.submit(...)), once per chunk of the batch.
Submit ==
    /\ pc = "submit" /\ jobs < batch_n
    /\ submit(<<phase, next + jobs>>)
    /\ jobs' = IF owner' = "notify" THEN jobs + 1 ELSE jobs
    /\ UNCHANGED <<device, phase, pc, next, got, request, buffer, result, faults, rewrites, cancel, outcome>>

Notify ==
    /\ pc = "submit"
    /\ NotifyWork
    /\ pc' = IF jobs = batch_n THEN "get" ELSE pc
    /\ UNCHANGED <<device, phase, next, jobs, got, request, buffer, result, faults, rewrites, cancel, outcome>>

\* jobs[j].get(), in order.
Get ==
    /\ pc = "get"
    /\ LET r == result[<<phase, next + got>>]
       IN  /\ r # None
           /\ IF r = "error" THEN Return("error") /\ UNCHANGED <<next, got>>
              ELSE /\ got' = got + 1
                   /\ IF got + 1 = jobs THEN next' = next + jobs /\ pc' = "head"
                      ELSE UNCHANGED <<next, pc>>
                   /\ UNCHANGED outcome
    /\ UNCHANGED <<pool, device, phase, jobs, request, buffer, result, faults, rewrites, cancel>>

FlushNothing ==
    /\ pc = "flush"
    /\ phase' = "verify" /\ next' = 0 /\ pc' = "head"
    /\ UNCHANGED <<pool, device, jobs, got, request, buffer, result, faults, rewrites, cancel, outcome>>

\* target.flush(): every sector is stored, those in spoilt wrongly.  The pages of
\* the sectors in gone leave the cache before they are compared; it is the same
\* to the program when they do, and pages of other sectors may come and go.
Stored(spoilt, gone) ==
    /\ Cardinality(spoilt) <= MaxFaults - faults
    /\ faults' = faults + Cardinality(spoilt)
    /\ dtarget' = [s \in DOMAIN target |-> IF s \in spoilt THEN Bad ELSE target[s]]
    /\ uncached' = gone

\* verify_after has its default, which fsx clone leaves.  What a flush that fails
\* has stored is not told apart: it is reported, and nothing is compared.
Flush ==
    /\ pc = "flush"
    /\ \/ /\ \E spoilt \in SUBSET (0 .. Bytes - 1) : \E gone \in SUBSET spoilt : Stored(spoilt, gone)
          /\ phase' = "verify" /\ next' = 0 /\ pc' = "head"
          /\ UNCHANGED outcome
       \/ /\ Fault
          /\ Return("error")
          /\ UNCHANGED <<dtarget, uncached, phase, next>>
    /\ UNCHANGED <<pool, source, target, jobs, got, request, buffer, result, rewrites, cancel>>

\* The destructor of the pool, on every return after it was built.
LeavePool ==
    /\ pc = "return"
    /\ Destroy \/ NotifyAll \/ Join
    /\ pc' = IF owner' = "gone" THEN "done" ELSE pc
    /\ UNCHANGED <<device, phase, next, jobs, got, request, buffer, result, faults, rewrites, cancel, outcome>>

Owner == Start \/ Head_ \/ Submit \/ Notify \/ Get \/ Flush \/ LeavePool

-----------------------------------------------------------------------------
\* A task ends: its future becomes ready and the worker goes on.
Ends(w, r) ==
    /\ Finish(w)
    /\ result' = [result EXCEPT ![task[w]] = r]
    /\ buffer' = [buffer EXCEPT ![w] = None]

\* source.read_exact of copy_chunk and verify_chunk.
ReadSource(w) ==
    /\ worker[w] = "running" /\ buffer[w] = None
    /\ \/ /\ buffer' = [buffer EXCEPT ![w] = [s \in ChunkSectors(task[w][2]) |-> source[s]]]
          /\ UNCHANGED <<pool, result, faults>>
       \/ Fault /\ Ends(w, "error")
    /\ UNCHANGED <<device, loop, request, rewrites, cancel, outcome>>

\* target.write_exact: the pages of the sectors in kept get what was read.
Stores(w, kept) ==
    target' = [s \in DOMAIN target |-> IF s \in kept THEN buffer[w][s] ELSE target[s]]

\* copy_chunk writes what it has read: all of it, or part of it and an error.
copy_chunk(w) ==
    /\ worker[w] = "running" /\ buffer[w] # None /\ task[w][1] = "copy"
    /\ LET here == ChunkSectors(task[w][2])
       IN  \/ Stores(w, here) /\ Ends(w, "ok") /\ UNCHANGED faults
           \/ \E kept \in SUBSET here : Stores(w, kept) /\ Ends(w, "error") /\ Fault
    /\ UNCHANGED <<source, dtarget, uncached, loop, request, rewrites, cancel, outcome>>

\* target.read_exact: from the page cache where it has the sector.
Reads(s) == IF s \in uncached THEN dtarget[s] ELSE target[s]

\* verify_chunk reads the target and compares.
verify_chunk(w) ==
    /\ worker[w] = "running" /\ buffer[w] # None /\ task[w][1] = "verify"
    /\ \/ /\ Ends(w, IF \A s \in DOMAIN buffer[w] : Reads(s) = buffer[w][s] THEN "ok" ELSE "error")
          /\ UNCHANGED faults
       \/ Fault /\ Ends(w, "error")
    /\ UNCHANGED <<device, loop, request, rewrites, cancel, outcome>>

Worker(w) ==
    \/ /\ pc \notin {"start", "done"}
       /\ Take(w) \/ WaitOrExit(w) \/ NotifySpace(w)
       /\ UNCHANGED <<device, loop, request, buffer, result, faults, rewrites, cancel, outcome>>
    \/ ReadSource(w) \/ copy_chunk(w) \/ verify_chunk(w)

WokenForNothing ==
    /\ Spurious
    /\ UNCHANGED <<device, loop, request, buffer, result, faults, rewrites, cancel, outcome>>

\* Somebody else writes the source; the user interrupts the clone.
Rewrite ==
    /\ pc \notin {"start", "done"} /\ rewrites < MaxRewrites
    /\ \E s \in DOMAIN source : source' = [source EXCEPT ![s] = rewrites + 1]
    /\ rewrites' = rewrites + 1
    /\ UNCHANGED <<pool, target, dtarget, uncached, loop, request, buffer, result, faults, cancel, outcome>>

Interrupt ==
    /\ pc \notin {"start", "done"} /\ ~cancel
    /\ cancel' = TRUE
    /\ UNCHANGED <<pool, device, loop, request, buffer, result, faults, rewrites, outcome>>

Next ==
    \/ Owner
    \/ \E w \in Workers : Worker(w)
    \/ WokenForNothing
    \/ Rewrite
    \/ Interrupt

\* A thread that can go on goes on: the scheduler is fair and I/O returns.
Fairness == WF_vars(Owner) /\ \A w \in Workers : WF_vars(Worker(w))

Spec == Init /\ [][Next]_vars /\ Fairness

-----------------------------------------------------------------------------
TypeOK ==
    /\ PoolTypeOK
    /\ request \in Requests \cup {None}
    /\ source \in [0 .. Bytes - 1 -> 0 .. MaxRewrites]
    /\ target \in [0 .. TargetBytes - 1 -> (0 .. MaxRewrites) \cup {Old}]
    /\ dtarget \in [0 .. TargetBytes - 1 -> (0 .. MaxRewrites) \cup {Old, Bad}]
    /\ uncached \subseteq 0 .. Bytes - 1
    /\ result \in [Tasks -> {None, "ok", "error"}]
    /\ phase \in {"copy", "verify"}
    /\ pc \in {"start", "head", "submit", "get", "flush", "return", "done"}
    /\ next \in 0 .. chunks /\ jobs \in 0 .. Cardinality(Workers) /\ got \in 0 .. jobs
    /\ cancel \in BOOLEAN /\ outcome \in {None, "ok", "error", "cancelled", "refused"}

\* A clone that reports success has every sector of the source on the medium,
\* each with a value the source has held, and what a quiet source holds, but for
\* sectors the medium stored wrongly while the comparison was answered by the
\* page cache: one that is read from the medium does not pass.  A short last
\* chunk is not left out, and nothing past the end of the source is touched.
CloneExact ==
    /\ \A s \in Bytes .. TargetBytes - 1 : target[s] = Old /\ dtarget[s] = Old
    /\ outcome = "ok" =>
          \A s \in 0 .. Bytes - 1 :
             \/ dtarget[s] \in 0 .. source[s] /\ (rewrites = 0 => dtarget[s] = source[s])
             \/ dtarget[s] = Bad /\ s \notin uncached

\* What clone_device admits: source and target share no storage, and nothing
\* uses the target ("Raw clone refuses exact aliases and, on Linux, disk/
\* partition ancestry and shared dm/md backing storage", docs/SAFETY.md).
AdmittedIsSafe ==
    [][(pc = "start" /\ pc' = "head") =>
          /\ request.target \in Devices => ~InUse(request.target, request.system)
          /\ {request.source, request.target} \subseteq Devices =>
                Storage(request.source) \cap Storage(request.target) = {}]_vars

\* clone_device returns, whatever fails, whenever it is cancelled.
Returns == <>(pc = "done")
=============================================================================
