------------------------------- MODULE Journal -------------------------------
(***************************************************************************)
(* The transaction journal file (src/transaction/journal.cpp): two header  *)
(* slots and an array of records, each protected by a CRC.  The file is    *)
(* seen through the page cache, reaches the disk by flush or by write-back *)
(* at any time, and a power loss keeps, for every write not yet flushed,   *)
(* the old bytes, the new bytes, or bytes no decoder accepts (Torn).  A    *)
(* process may also die, or see an I/O error, between any two steps: the   *)
(* page cache then survives and the next process opens what it finds.      *)
(*                                                                         *)
(* Record contents are model values; CRC and magic checks are the test     *)
(* "is not Torn".  The identity fields (operation, filesystem, sizes) are  *)
(* written once by create and copied by every header, so they are omitted. *)
(***************************************************************************)
EXTENDS Integers, Sequences

CONSTANTS Payloads,    \* what callers log, besides checkpoints
          Phases,      \* OperationPhase values in use
          FirstPhase,  \* OperationPhase::prepared
          Capacity,    \* records that fit the file
          MaxBatch,    \* bound: records in one append_batch
          NoPhase,     \* no checkpoint in progress
          Torn         \* bytes that decode_header / decode_record reject

ASSUME ConstantsAssumption ==
    /\ Capacity \in Nat \ {0}
    /\ MaxBatch \in Nat \ {0}
    /\ FirstPhase \in Phases
    /\ NoPhase \notin Phases

\* A checkpoint record carries the phase it announces in its aux field.
Bodies == Payloads \cup Phases

Headers == [seq : Nat, phase : Phases, count : 0..Capacity]
Records == [seq : Nat, body : Bodies]

ASSUME TornAssumption ==
    Torn \notin Headers /\ Torn \notin Records /\ Torn \notin [log : Seq(Bodies), phase : Phases]

Slots == 0..1
Index == 1..Capacity

VARIABLES exists,  \* the journal has been published under its path
          dhdr,    \* header slots on the disk
          drec,    \* record array on the disk
          phdr,    \* header slots as read through the page cache
          prec,    \* record array as read through the page cache
          pc,      \* what the process holding the journal open does next
          status,  \* JournalStatus: the header this process believes current
          batch,   \* records of the append in progress
          done,    \* how many of them have been written
          next,    \* the phase of the checkpoint in progress, or NoPhase
          acked    \* history: header and log at the last successful return

disk  == <<dhdr, drec>>
cache == <<phdr, prec>>
proc  == <<pc, status, batch, done, next>>
vars  == <<exists, disk, cache, proc, acked>>

-----------------------------------------------------------------------------
\* TransactionJournal::load, on the file image (hdr, rec).

Newest(hdr) ==
    IF hdr[0] = Torn THEN hdr[1]
    ELSE IF hdr[1] = Torn THEN hdr[0]
    ELSE IF hdr[0].seq >= hdr[1].seq THEN hdr[0] ELSE hdr[1]

RecordsValid(rec, n) == \A i \in 1..n : rec[i] # Torn /\ rec[i].seq = i

Loadable(hdr, rec) ==
    /\ Newest(hdr) # Torn
    /\ Newest(hdr).count <= Capacity
    /\ RecordsValid(rec, Newest(hdr).count)

\* The bodies of the first n records.
LogOf(rec, n) == [i \in 1..n |-> rec[i].body]

-----------------------------------------------------------------------------
\* The status of a process that has not opened the journal.
NoHandle == [seq |-> 0, phase |-> FirstPhase, count |-> 0]

\* append_batch or checkpoint returns: no batch is in progress.
Return == batch' = <<>> /\ done' = 0 /\ next' = NoPhase

\* The journal object is destroyed.
Close == pc' = "closed" /\ status' = NoHandle /\ Return

Init ==
    /\ exists = FALSE
    /\ dhdr = [s \in Slots |-> Torn] /\ phdr = dhdr
    /\ drec = [i \in Index |-> Torn] /\ prec = drec
    /\ pc = "closed" /\ status = NoHandle
    /\ batch = <<>> /\ done = 0 /\ next = NoPhase
    /\ acked = [hdr |-> NoHandle, log |-> <<>>]

\* Both slots of a new journal are flushed before the temporary file is
\* renamed to its path, so nobody can open a partly written one.
create ==
    /\ ~exists
    /\ exists' = TRUE
    /\ phdr' = [s \in Slots |-> [seq |-> 1 - s, phase |-> FirstPhase, count |-> 0]]
    /\ dhdr' = phdr'
    /\ pc' = "idle"
    /\ status' = [seq |-> 1, phase |-> FirstPhase, count |-> 0]
    /\ UNCHANGED <<drec, prec, batch, done, next, acked>>

\* A later process opens the journal for writing; load must accept it.
open ==
    /\ exists
    /\ pc = "closed"
    /\ Loadable(phdr, prec)
    /\ pc' = "idle"
    /\ status' = Newest(phdr)
    /\ UNCHANGED <<exists, disk, cache, batch, done, next, acked>>

\* append_batch and checkpoint share the way a batch is written: the checks,
\* then the records one by one.
Begin(records, phase) ==
    /\ pc = "idle"
    /\ Len(records) <= Capacity - status.count
    /\ pc' = "record"
    /\ batch' = records
    /\ done' = 0
    /\ next' = phase
    /\ UNCHANGED <<exists, disk, cache, status, acked>>

append_batch == \E n \in 1..MaxBatch : \E r \in [1..n -> Payloads] : Begin(r, NoPhase)

checkpoint == \E ph \in Phases : Begin(<<ph>>, ph)

\* "journal is full": the callers give up and drop the handle.
JournalFull ==
    /\ pc = "idle"
    /\ Capacity - status.count < MaxBatch
    /\ Close
    /\ UNCHANGED <<exists, disk, cache, acked>>

WriteRecord ==
    /\ pc = "record"
    /\ LET i == status.count + done + 1
       IN  prec' = [prec EXCEPT ![i] = [seq |-> i, body |-> batch[done + 1]]]
    /\ done' = done + 1
    /\ pc' = IF done' = Len(batch) THEN "flush_records" ELSE "record"
    /\ UNCHANGED <<exists, disk, phdr, status, batch, next, acked>>

FlushRecordsSkipped ==
    /\ pc = "flush_records"
    /\ pc' = "header"
    /\ UNCHANGED <<exists, disk, cache, status, batch, done, next, acked>>

\* device_.flush() of the records, before the header that counts them.
FlushRecords ==
    /\ pc = "flush_records"
    /\ dhdr' = phdr /\ drec' = prec
    /\ pc' = "header"
    /\ UNCHANGED <<exists, cache, status, batch, done, next, acked>>

BatchHeaderSameSeq == [seq |-> status.seq, phase |-> status.phase,
                       count |-> status.count + Len(batch)]

\* The header that counts the new records: same phase, slot (seq & 1).
BatchHeader == [seq |-> status.seq + 1, phase |-> status.phase,
                count |-> status.count + Len(batch)]

\* The second header of a checkpoint: same count, new phase.
PhaseHeader == [seq |-> status.seq + 1, phase |-> next, count |-> status.count]

write_first_slot(h) == phdr' = [phdr EXCEPT ![0] = h]

write_header(h) == phdr' = [phdr EXCEPT ![h.seq % 2] = h]

WriteBatchHeader ==
    /\ pc = "header"
    /\ write_header(BatchHeader)
    /\ pc' = "flush_header"
    /\ UNCHANGED <<exists, disk, prec, status, batch, done, next, acked>>

\* The header is flushed, and only now is the in-memory status advanced.
FlushBatchHeader ==
    /\ pc = "flush_header"
    /\ dhdr' = phdr /\ drec' = prec
    /\ status' = BatchHeader
    /\ acked' = [hdr |-> status', log |-> LogOf(prec, status'.count)]
    /\ \/ next = NoPhase /\ pc' = "idle" /\ Return
       \/ next # NoPhase /\ pc' = "phase" /\ UNCHANGED <<batch, done, next>>
    /\ UNCHANGED <<exists, cache>>

WritePhaseHeader ==
    /\ pc = "phase"
    /\ write_header(PhaseHeader)
    /\ pc' = "flush_phase"
    /\ UNCHANGED <<exists, disk, prec, status, batch, done, next, acked>>

FlushPhaseHeader ==
    /\ pc = "flush_phase"
    /\ dhdr' = phdr /\ drec' = prec
    /\ status' = PhaseHeader
    /\ acked' = [acked EXCEPT !.hdr = status']
    /\ pc' = "idle" /\ Return
    /\ UNCHANGED <<exists, cache>>

-----------------------------------------------------------------------------
\* What the environment does.

\* The kernel writes a dirty header or record back on its own.
Writeback ==
    /\ \/ \E s \in Slots : dhdr' = [dhdr EXCEPT ![s] = phdr[s]] /\ UNCHANGED drec
       \/ \E i \in Index : drec' = [drec EXCEPT ![i] = prec[i]] /\ UNCHANGED dhdr
    /\ UNCHANGED <<exists, cache, proc, acked>>

\* The process dies, or an I/O call fails and the caller drops the handle.
Abandon ==
    /\ pc # "closed"
    /\ Close
    /\ UNCHANGED <<exists, disk, cache, acked>>

\* It does so in the middle of a write, of which part has been transferred.
TearWrite ==
    /\ Close
    /\ \/ /\ pc = "record"
          /\ prec' = [prec EXCEPT ![status.count + done + 1] = Torn]
          /\ UNCHANGED phdr
       \/ /\ pc \in {"header", "phase"}
          /\ phdr' = [phdr EXCEPT ![(status.seq + 1) % 2] = Torn]
          /\ UNCHANGED prec
    /\ UNCHANGED <<exists, disk, acked>>

\* Power loss: every write the disk does not hold is absent or torn (present
\* is a Writeback before the loss).
PowerLoss ==
    /\ Close
    /\ \E S \in SUBSET {s \in Slots : dhdr[s] # phdr[s]} :
          dhdr' = [s \in Slots |-> IF s \in S THEN Torn ELSE dhdr[s]]
    /\ \E I \in SUBSET {i \in Index : drec[i] # prec[i]} :
          drec' = [i \in Index |-> IF i \in I THEN Torn ELSE drec[i]]
    /\ phdr' = dhdr' /\ prec' = drec'
    /\ UNCHANGED <<exists, acked>>

Step ==
    \/ create \/ open \/ append_batch \/ checkpoint \/ JournalFull
    \/ WriteRecord \/ FlushRecords \/ WriteBatchHeader \/ FlushBatchHeader
    \/ WritePhaseHeader \/ FlushPhaseHeader

Next == Step \/ Writeback \/ Abandon \/ TearWrite \/ PowerLoss

Spec == Init /\ [][Next]_vars

-----------------------------------------------------------------------------
TypeOK ==
    /\ exists \in BOOLEAN
    /\ dhdr \in [Slots -> Headers \cup {Torn}]
    /\ phdr \in [Slots -> Headers \cup {Torn}]
    /\ drec \in [Index -> Records \cup {Torn}]
    /\ prec \in [Index -> Records \cup {Torn}]
    /\ pc \in {"closed", "idle", "record", "flush_records", "header",
               "flush_header", "phase", "flush_phase"}
    /\ status \in Headers
    /\ batch \in Seq(Bodies)
    /\ done \in Nat
    /\ next \in Phases \cup {NoPhase}
    /\ acked = [hdr |-> acked.hdr, log |-> acked.log]
    /\ acked.hdr \in Headers
    /\ acked.log \in [1..acked.hdr.count -> Bodies]

\* The image (hdr, rec) loads, and holds everything acknowledged so far.
Holds(hdr, rec) ==
    /\ Loadable(hdr, rec)
    /\ Newest(hdr).seq >= acked.hdr.seq
    /\ Newest(hdr).seq = acked.hdr.seq => Newest(hdr) = acked.hdr
    /\ Newest(hdr).count >= acked.hdr.count
    /\ LogOf(rec, acked.hdr.count) = acked.log

\* Once append_batch or checkpoint has returned success, neither a process
\* death nor a power loss (nor any number of them) loses a record or the phase
\* it acknowledged: both the disk and the page cache load, at that header or a
\* later one.
AckedSurvives == acked.hdr.count > 0 => Holds(dhdr, drec) /\ Holds(phdr, prec)

\* "Regardless of which boundary reports failure, reopening must see either
\* the old state or a fully valid new state": a published journal can always
\* be reopened.  It cannot, when two crashes tear two attempts at the first
\* append: create puts sequence 1 in slot 0 and sequence 0 in slot 1, so after
\* the first torn header load falls back to sequence 0 and the next header,
\* sequence 1, goes to slot 1, over the only valid header left.
AlwaysReopens == exists => Loadable(phdr, prec)

-----------------------------------------------------------------------------
\* The inductive invariant behind AckedSurvives.

\* The valid headers of either image.
Written == ({dhdr[s] : s \in Slots} \cup {phdr[s] : s \in Slots}) \ {Torn}

\* Before a header is overwritten everything has been flushed.
Synced == pc \in {"header", "phase"} => dhdr = phdr /\ drec = prec

\* The header h has just been written and is the newest of the cache.
Overwrote(h) ==
    /\ phdr[h.seq % 2] = h
    /\ phdr[1 - (h.seq % 2)] = Torn \/ phdr[1 - (h.seq % 2)].seq < h.seq

\* The process holding the journal works from the newest header of the cache.
Current ==
    /\ pc \in {"idle", "record", "flush_records", "header", "phase"} =>
          Newest(phdr) = status
    /\ pc = "flush_header" => Overwrote(BatchHeader)
    /\ pc = "flush_phase" => Overwrote(PhaseHeader)
    /\ pc \in {"phase", "flush_phase"} => acked.hdr = status /\ next \in Phases

\* The records of the batch that have been written follow the counted ones.
Appending ==
    /\ pc \in {"record", "flush_records", "header", "flush_header"} =>
          /\ status.count + Len(batch) <= Capacity
          /\ batch # <<>>
    /\ pc = "record" => /\ done < Len(batch)
                       /\ RecordsValid(prec, status.count + done)
    /\ pc \in {"flush_records", "header", "flush_header"} =>
          RecordsValid(prec, status.count + Len(batch))

\* The records a header counts were durable before the header was written.
Counted ==
    \A h \in Written : \A i \in 1..h.count :
        prec[i] = drec[i] /\ prec[i] # Torn /\ prec[i].seq = i

\* A later header counts no fewer records, and the newest counts the most.
Monotone ==
    /\ \A g, h \in Written : g.seq <= h.seq => g.count <= h.count
    /\ Newest(phdr) # Torn => \A h \in Written : h.count <= Newest(phdr).count

\* Except for the two headers of create, a header is in the slot of its parity.
Parity ==
    \A s \in Slots :
        /\ dhdr[s] # Torn => dhdr[s].seq % 2 = s \/ dhdr[s].count = 0
        /\ phdr[s] # Torn => phdr[s].seq % 2 = s \/ phdr[s].count = 0

\* The header h is the acknowledged one or a later one.
Covers(h) ==
    /\ h # Torn
    /\ h.seq >= acked.hdr.seq
    /\ h.seq = acked.hdr.seq => h = acked.hdr
    /\ h.count >= acked.hdr.count

\* The slot holds nothing as new as sequence n.
Older(h, n) == h = Torn \/ h.seq < n

\* The newest header p is in its own slot, and either it is durable, or the one
\* before it is, in the other slot.
Redundant ==
    LET p == Newest(phdr)
        w == p.seq % 2
    IN  /\ Covers(p)
        /\ phdr[w] = p
        /\ Older(phdr[1 - w], p.seq)
        /\ Older(dhdr[1 - w], p.seq)
        /\ \/ dhdr[w] = p
           \/ /\ dhdr[1 - w] = phdr[1 - w]
              /\ Covers(dhdr[1 - w])
              /\ dhdr[1 - w].seq = p.seq - 1
              /\ Older(dhdr[w], p.seq - 1)
        /\ \A i \in 1..acked.hdr.count : prec[i].body = acked.log[i]

Unpublished ==
    ~exists => /\ pc = "closed" /\ acked.hdr.count = 0
               /\ \A s \in Slots : dhdr[s] = Torn /\ phdr[s] = Torn

\* The inductive invariant of the journal: at every step of append_batch and
\* checkpoint, and after any crash, one durable header is complete and is the
\* acknowledged one or newer.
JournalInv ==
    /\ TypeOK
    /\ Synced /\ Current /\ Appending /\ Counted /\ Monotone /\ Parity
    /\ acked.hdr.count > 0 => Redundant
    /\ Unpublished

-----------------------------------------------------------------------------
\* The version of the log that load returns for an image.
Version(hdr, rec) ==
    IF ~exists THEN [log |-> <<>>, phase |-> FirstPhase]
    ELSE IF Loadable(hdr, rec)
         THEN [log |-> LogOf(rec, Newest(hdr).count), phase |-> Newest(hdr).phase]
         ELSE Torn

Log == INSTANCE JournalLog WITH
           Unreadable <- Torn, request <- batch,
           visible <- Version(phdr, prec), stable <- Version(dhdr, drec)

\* The file format implements the log of JournalLog: each batch becomes visible
\* whole or not at all, in order, and what is stable is never taken back.
ImplementsLog == Log!Spec
=============================================================================
