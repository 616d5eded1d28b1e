-------------------------------- MODULE Scrub -------------------------------
(***************************************************************************)
(* scrub_read (ops/scrub.cpp) on its AsyncIoScheduler: every pass keeps a  *)
(* window of reads in flight, collects them in order into a checksum, and  *)
(* compares it with that of the first pass.  benchmark_read and            *)
(* build_allocation_graph drive the scheduler with the same window, in one *)
(* pass.                                                                   *)
(*                                                                         *)
(* Two more kinds of thread share the scheduler, as its tests do (the      *)
(* program itself has none): rivals, which submit a read, and one that     *)
(* stops it.                                                               *)
(***************************************************************************)
EXTENDS IoScheduler

CONSTANTS Main,         \* the thread in scrub_read
          Stopper,      \* the thread that calls stop()
          Chunks,       \* the chunks of the range
          Passes,       \* options.passes
          MaxInflight,  \* max_inflight
          MaxFaults     \* bound: reads that fail or return something else

Rivals == Clients \ {Main, Stopper}

ASSUME ScrubAssumption ==
    /\ {Main, Stopper} \subseteq Clients /\ Main # Stopper
    /\ Chunks \in Nat \ {0} /\ Passes \in 1 .. 64 /\ MaxInflight \in Nat /\ MaxInflight >= 2
    /\ Tasks = ((1 .. Passes) \X (1 .. Chunks)) \cup Rivals
    /\ \A c \in Rivals, p \in 1 .. Passes, i \in 1 .. Chunks : c # <<p, i>>
    /\ None \notin {"ok", "error", "corrupt"}

VARIABLES future,     \* what each future holds: a read's data, or an error
          pc, pass,
          submitted, completed,  \* of this pass
          crc,        \* the checksum so far, as the data it is of
          reference,  \* reference_crc
          faults, cancel, outcome

loop == <<pc, pass, submitted, completed, crc, reference>>
vars == <<scheduler, future, loop, faults, cancel, outcome>>

Init ==
    /\ SchedulerInit
    /\ future = [t \in Tasks |-> None]
    /\ pc = "head" /\ pass = 1 /\ submitted = 0 /\ completed = 0
    /\ crc = <<>> /\ reference = <<>>
    /\ faults = 0 /\ cancel = FALSE /\ outcome = None

Error == <<0, 0>>

-----------------------------------------------------------------------------
Return(x) == outcome' = x /\ pc' = "leave"

\* The head of the outer loop; the inner loop and get() follow.
Head_ ==
    /\ pc = "head"
    /\ IF cancel THEN Return("error") ELSE pc' = "fill" /\ UNCHANGED outcome
    /\ UNCHANGED <<scheduler, future, pass, submitted, completed, crc, reference, faults, cancel>>

FullByWindow == submitted - completed = MaxInflight
Full == submitted = Chunks \/ submitted - completed = MaxInflight

\* q.push_back({..., io.submit_read(...)}): a refused read has a ready future.
submit_readForgotten(c, t) == enqueue(c, t) /\ UNCHANGED future

submit_read(c, t) ==
    /\ enqueue(c, t)
    /\ future' = IF stopping THEN [future EXCEPT ![t] = Error] ELSE future

Fill ==
    /\ pc = "fill" /\ ~Full
    /\ submit_read(Main, <<pass, submitted + 1>>)
    /\ submitted' = IF client'[Main] = "blocked" THEN submitted ELSE submitted + 1
    /\ UNCHANGED <<pc, pass, completed, crc, reference, faults, cancel, outcome>>

\* p.future.get() on the oldest read, and the end of the pass after the last.
EndOfPassAnew(sum) ==
    /\ reference' = sum
    /\ IF pass = Passes THEN pc' = "drain" /\ UNCHANGED <<pass, submitted, completed, crc, outcome>>
       ELSE /\ pass' = pass + 1 /\ pc' = "head"
            /\ submitted' = 0 /\ completed' = 0 /\ crc' = <<>>
            /\ UNCHANGED outcome

EndOfPass(sum) ==
    /\ reference' = IF pass = 1 THEN sum ELSE reference
    /\ IF pass > 1 /\ sum # reference
       THEN Return("corrupt") /\ UNCHANGED <<pass, submitted, completed, crc>>
       ELSE IF pass = Passes THEN pc' = "drain" /\ UNCHANGED <<pass, submitted, completed, crc, outcome>>
       ELSE /\ pass' = pass + 1 /\ pc' = "head"
            /\ submitted' = 0 /\ completed' = 0 /\ crc' = <<>>
            /\ UNCHANGED outcome

Get ==
    /\ pc = "fill" /\ Full
    /\ LET r == future[<<pass, completed + 1>>]
       IN  /\ r # None
           /\ IF r = Error THEN Return("error") /\ UNCHANGED <<pass, submitted, completed, crc, reference>>
              ELSE IF completed + 1 = Chunks THEN EndOfPass(Append(crc, r))
              ELSE /\ crc' = Append(crc, r) /\ completed' = completed + 1 /\ pc' = "head"
                   /\ UNCHANGED <<pass, submitted, reference, outcome>>
    /\ UNCHANGED <<scheduler, future, faults, cancel>>

Drain ==
    /\ pc = "drain"
    /\ drain(Main)
    /\ IF Idle THEN Return("ok") ELSE UNCHANGED <<pc, outcome>>
    /\ UNCHANGED <<future, pass, submitted, completed, crc, reference, faults, cancel>>

\* ~AsyncIoScheduler, once no other thread is in a call.
Leave ==
    /\ pc = "leave"
    /\ \A c \in Clients \ {Main} : client[c] = "free"
    /\ \/ stop(Main) \/ StopNotifies(Main) \/ StopJoins(Main)
    /\ pc' = IF stopping /\ client'[Main] = "free" THEN "done" ELSE pc
    /\ UNCHANGED <<future, pass, submitted, completed, crc, reference, faults, cancel, outcome>>

MainStep == Head_ \/ Fill \/ Get \/ Drain \/ Leave

-----------------------------------------------------------------------------
\* The task of submit_read: what it reads is the data of the chunk, unless the
\* read fails, returns something else, or finds the operation cancelled.
Read(w) ==
    /\ Run(w)
    /\ \/ /\ ~cancel
          /\ future' = [future EXCEPT ![task[w]] =
                           IF task[w] \in Rivals THEN <<1, 0>> ELSE <<task[w][2], 0>>]
          /\ UNCHANGED faults
       \/ /\ cancel
          /\ future' = [future EXCEPT ![task[w]] = Error]
          /\ UNCHANGED faults
       \/ /\ ~cancel /\ faults < MaxFaults /\ faults' = faults + 1
          /\ \/ future' = [future EXCEPT ![task[w]] = Error]
             \/ task[w] \notin Rivals /\ future' = [future EXCEPT ![task[w]] = <<task[w][2], 1>>]
    /\ UNCHANGED <<loop, cancel, outcome>>

Worker(w) ==
    \/ /\ Take(w) \/ WaitOrExit(w) \/ Done(w)
       /\ UNCHANGED <<future, loop, faults, cancel, outcome>>
    \/ Read(w)

\* The calls of the others, which nobody makes once scrub_read is at its end.
RivalSubmits(c) ==
    /\ pc \notin {"leave", "done"} /\ client[c] = "free"
    /\ future[c] = None /\ c \notin accepted
    /\ submit_read(c, c)
    /\ UNCHANGED <<loop, faults, cancel, outcome>>

StopperStops ==
    /\ pc \notin {"leave", "done"} /\ ~stopping
    /\ stop(Stopper)
    /\ UNCHANGED <<future, loop, faults, cancel, outcome>>

\* A call that was begun goes on.
RivalGoesOn(c) ==
    /\ client[c] = "woken" /\ submit_read(c, c)
    /\ UNCHANGED <<loop, faults, cancel, outcome>>

StopperGoesOn ==
    /\ StopNotifies(Stopper) \/ StopJoins(Stopper)
    /\ UNCHANGED <<future, loop, faults, cancel, outcome>>

WokenForNothing == Spurious /\ UNCHANGED <<future, loop, faults, cancel, outcome>>

Interrupt ==
    /\ ~cancel /\ pc # "done"
    /\ cancel' = TRUE
    /\ UNCHANGED <<scheduler, future, loop, faults, outcome>>

Next ==
    \/ MainStep
    \/ \E w \in Workers : Worker(w)
    \/ \E c \in Rivals : RivalSubmits(c) \/ RivalGoesOn(c)
    \/ StopperStops \/ StopperGoesOn
    \/ WokenForNothing
    \/ Interrupt

\* A thread that can go on goes on: the scheduler of the operating system is
\* fair and reads return.  Nobody has to call anything.
Fairness ==
    /\ WF_vars(MainStep)
    /\ \A w \in Workers : WF_vars(Worker(w))
    /\ \A c \in Rivals : WF_vars(RivalGoesOn(c))
    /\ WF_vars(StopperGoesOn)

Spec == Init /\ [][Next]_vars /\ Fairness

-----------------------------------------------------------------------------
TypeOK ==
    /\ SchedulerTypeOK
    /\ future \in [Tasks -> {None, Error} \cup ((1 .. Chunks) \X {0, 1})]
    /\ pc \in {"head", "fill", "drain", "leave", "done"}
    /\ pass \in 1 .. Passes
    /\ submitted \in 0 .. Chunks /\ completed \in 0 .. submitted
    /\ outcome \in {None, "ok", "error", "corrupt"}

\* A clean scrub has read every chunk in every pass and got the same data each
\* time; its checksum is over the chunks in order of their offsets, whatever
\* the order the reads ran in ("a deterministic CRC32C", README.md).  Once
\* scrub_read has returned no thread of it is left.
ScrubSound ==
    /\ outcome = "ok" =>
          \A i \in 1 .. Chunks : /\ reference[i][1] = i
                                 /\ \A p \in 1 .. Passes : future[<<p, i>>] = reference[i]
    /\ pc = "done" => cleared /\ queue = <<>> /\ Busy = {}

\* "A submission racing with/after scheduler shutdown must complete with a
\* deterministic error instead of returning a future that can never become
\* ready" (tests/test_final_hardening.cpp): the read of a rival gets ready, also
\* when it waited for space while the scheduler was stopped.
FuturesReady ==
    \A c \in Rivals : (c \in accepted \/ client[c] = "blocked") ~> (future[c] # None)

\* scrub_read returns, whatever fails and whoever stops the scheduler.
Returns == <>(pc = "done")
=============================================================================
