---------------------------- MODULE JournalProofs ----------------------------
(***************************************************************************)
(* Proofs about the transaction journal, for every capacity, batch size,   *)
(* set of payloads and set of phases.                                      *)
(***************************************************************************)
EXTENDS Journal, TLAPS

\* Sequence numbers alternate between the two slots.
LEMMA Alternate ==
    ASSUME NEW n \in Nat
    PROVE  /\ n % 2 \in Slots
           /\ 1 - (n % 2) \in Slots
           /\ (n + 1) % 2 = 1 - (n % 2)
           /\ Slots = {n % 2, 1 - (n % 2)}
BY DEF Slots

\* load picks a valid header with the highest sequence, if there is one.
LEMMA NewestHeader ==
    ASSUME NEW hdr \in [Slots -> Headers \cup {Torn}]
    PROVE  /\ \E s \in Slots : Newest(hdr) = hdr[s]
           /\ Newest(hdr) = Torn => \A s \in Slots : hdr[s] = Torn
           /\ Newest(hdr) # Torn =>
                 /\ Newest(hdr) \in Headers
                 /\ \A s \in Slots : hdr[s] = Torn \/ hdr[s].seq <= Newest(hdr).seq
<1>1. hdr[0] \in Headers \cup {Torn} /\ hdr[1] \in Headers \cup {Torn} /\ 0 \in Slots /\ 1 \in Slots
  BY DEF Slots
<1>2. \A s \in Slots : s = 0 \/ s = 1
  BY DEF Slots
<1>3. \A h \in Headers : h.seq \in Nat
  BY DEF Headers
<1> QED
  BY <1>1, <1>2, <1>3 DEF Newest

\* A header in its own slot, with only older ones beside it, is the newest.
LEMMA NewestIs ==
    ASSUME NEW hdr \in [Slots -> Headers \cup {Torn}], NEW h \in Headers,
           NEW s \in Slots, hdr[s] = h, Older(hdr[1 - s], h.seq)
    PROVE  Newest(hdr) = h
<1>1. s = 0 \/ s = 1
  BY DEF Slots
<1>2. hdr[0] \in Headers \cup {Torn} /\ hdr[1] \in Headers \cup {Torn}
  BY DEF Slots
<1>3. h # Torn /\ h.seq \in Nat /\ \A g \in Headers : g.seq \in Nat
  BY TornAssumption DEF Headers
<1>4. CASE s = 0
  BY <1>2, <1>3, <1>4 DEF Newest, Older
<1>5. CASE s = 1
  BY <1>2, <1>3, <1>5 DEF Newest, Older
<1> QED
  BY <1>1, <1>4, <1>5

\* The status of a closed handle and the next headers have their types.
LEMMA NoHandleType == NoHandle \in Headers
BY ConstantsAssumption DEF NoHandle, Headers

\* The header append_batch or checkpoint_phase publishes next has its type.
LEMMA NextHeaders ==
    ASSUME JournalInv
    PROVE  /\ pc \in {"header", "flush_header"} => BatchHeader \in Headers
           /\ pc \in {"phase", "flush_phase"} => PhaseHeader \in Headers
           /\ BatchHeader.seq = status.seq + 1
           /\ BatchHeader.count = status.count + Len(batch)
           /\ PhaseHeader.seq = status.seq + 1
           /\ PhaseHeader.count = status.count
<1>1. status.seq \in Nat /\ status.count \in 0..Capacity /\ status.phase \in Phases
  BY DEF JournalInv, TypeOK, Headers
<1>2. Len(batch) \in Nat
  BY DEF JournalInv, TypeOK
<1>3. pc \in {"header", "flush_header"} => status.count + Len(batch) \in 0..Capacity
  BY <1>1, <1>2, ConstantsAssumption DEF JournalInv, Appending
<1>4. pc \in {"phase", "flush_phase"} => next \in Phases
  BY DEF JournalInv, Current
<1> QED
  BY <1>1, <1>3, <1>4 DEF BatchHeader, PhaseHeader, Headers

\* The invariant holds of a file that does not exist yet.
LEMMA InitInv == Init => JournalInv
<1> SUFFICES ASSUME Init PROVE JournalInv
  OBVIOUS
<1>1. TypeOK
  <2>1. acked = [hdr |-> acked.hdr, log |-> acked.log] /\ acked.hdr = NoHandle /\ acked.log = <<>>
    BY DEF Init
  <2>2. acked.log \in [1..acked.hdr.count -> Bodies]
    BY <2>1 DEF NoHandle
  <2>3. exists \in BOOLEAN
    BY Zenon DEF Init
  <2>4. batch \in Seq(Bodies)
    BY DEF Init
  <2> QED
    BY <2>1, <2>2, <2>3, <2>4, NoHandleType DEF Init, TypeOK
<1>2. Written = {}
  BY DEF Init, Written, Slots
<1>3. Newest(phdr) = Torn
  BY DEF Init, Newest, Slots
<1> QED
  BY <1>1, <1>2, <1>3, TornAssumption DEF Init, JournalInv, Synced, Current, Appending, Counted,
     Monotone, Parity, Unpublished, NoHandle

\* Every step keeps the types; the bounds on record counts come from the checks
\* at the start of append_batch.
LEMMA TypeStep == JournalInv /\ [Next]_vars => TypeOK'
<1> SUFFICES ASSUME JournalInv, [Next]_vars PROVE TypeOK'
  OBVIOUS
<1> USE DEF disk, cache, proc, vars
<1>t. TypeOK
  BY DEF JournalInv
<1>1. CASE create
  <2>1. \A s \in Slots : [seq |-> 1 - s, phase |-> FirstPhase, count |-> 0] \in Headers
    BY ConstantsAssumption DEF Slots, Headers
  <2>2. status' \in Headers
    BY <1>1, ConstantsAssumption DEF create, Headers
  <2>3. exists' \in BOOLEAN
    BY <1>1, Zenon DEF create
  <2>4. phdr' \in [Slots -> Headers \cup {Torn}] /\ dhdr' = phdr'
    BY <1>1, <2>1 DEF create
  <2> QED
    BY <1>t, <1>1, <2>2, <2>3, <2>4 DEF create, TypeOK
<1>2. CASE open
  <2>1. Newest(phdr) \in Headers
    BY <1>t, <1>2, NewestHeader DEF open, Loadable, TypeOK
  <2> QED
    BY <1>t, <1>2, <2>1 DEF open, TypeOK
<1>3. CASE append_batch
  <2>0. PICK n \in 1..MaxBatch : \E r \in [1..n -> Payloads] : Begin(r, NoPhase)
    BY <1>3 DEF append_batch
  <2>1. PICK r \in [1..n -> Payloads] : Begin(r, NoPhase)
    BY <2>0
  <2>2. n \in Nat
    BY ConstantsAssumption
  <2>3. r \in Seq(Bodies)
    BY <2>2 DEF Bodies
  <2> QED
    BY <1>t, <2>1, <2>3 DEF Begin, TypeOK
<1>4. CASE checkpoint
  <2>1. PICK ph \in Phases : Begin(<<ph>>, ph)
    BY <1>4 DEF checkpoint
  <2>2. <<ph>> \in Seq(Bodies)
    BY DEF Bodies
  <2> QED
    BY <1>t, <2>1, <2>2 DEF Begin, TypeOK
<1>5. CASE JournalFull
  BY <1>t, <1>5, NoHandleType DEF JournalFull, Close, Return, TypeOK
<1>6. CASE WriteRecord
  <2>1. batch[done + 1] \in Bodies
    BY <1>t, <1>6 DEF WriteRecord, JournalInv, Appending, TypeOK
  <2>2. status.count + done + 1 \in Nat
    BY <1>t DEF TypeOK, Headers
  <2>3. prec' \in [Index -> Records \cup {Torn}]
    BY <1>t, <1>6, <2>1, <2>2, Zenon DEF WriteRecord, TypeOK, Records
  <2> QED
    BY <1>t, <1>6, <2>3 DEF WriteRecord, TypeOK
<1>7. CASE FlushRecords
  BY <1>t, <1>7 DEF FlushRecords, TypeOK
<1>8. CASE WriteBatchHeader
  <2>1. BatchHeader \in Headers
    BY <1>8, NextHeaders DEF WriteBatchHeader
  <2>2. phdr' \in [Slots -> Headers \cup {Torn}]
    BY <1>t, <1>8, <2>1, Zenon DEF WriteBatchHeader, write_header, TypeOK
  <2> QED
    BY <1>t, <1>8, <2>2 DEF WriteBatchHeader, TypeOK
<1>9. CASE FlushBatchHeader
  <2>1. BatchHeader \in Headers /\ BatchHeader.count = status.count + Len(batch)
    BY <1>9, NextHeaders DEF FlushBatchHeader
  <2>2. BatchHeader.count \in 0..Capacity
    BY <2>1 DEF Headers
  <2>3. \A i \in 1..BatchHeader.count : prec[i] \in Records
    <3>1. \A i \in 1..BatchHeader.count : i \in Index
      BY <2>2, ConstantsAssumption DEF Index
    <3>2. \A i \in 1..BatchHeader.count : prec[i] # Torn
      BY <1>9, <2>1 DEF FlushBatchHeader, JournalInv, Appending, RecordsValid
    <3> QED
      BY <1>t, <3>1, <3>2 DEF TypeOK
  <2>4. \A r \in Records : r.body \in Bodies
    BY DEF Records
  <2>5. acked' = [hdr |-> BatchHeader, log |-> LogOf(prec, BatchHeader.count)]
    BY <1>9 DEF FlushBatchHeader
  <2>6. acked'.log \in [1..acked'.hdr.count -> Bodies]
    BY <2>3, <2>4, <2>5 DEF LogOf
  <2>7. batch' \in Seq(Bodies) /\ done' \in Nat /\ next' \in Phases \cup {NoPhase}
    <3>1. \/ batch' = <<>> /\ done' = 0 /\ next' = NoPhase
          \/ UNCHANGED <<batch, done, next>>
      BY <1>9 DEF FlushBatchHeader, Return
    <3>2. CASE batch' = <<>> /\ done' = 0 /\ next' = NoPhase
      BY <3>2
    <3>3. CASE UNCHANGED <<batch, done, next>>
      BY <1>t, <3>3 DEF TypeOK
    <3> QED
      BY <3>1, <3>2, <3>3
  <2> QED
    BY <1>t, <1>9, <2>1, <2>5, <2>6, <2>7 DEF FlushBatchHeader, TypeOK
<1>10. CASE WritePhaseHeader
  <2>1. PhaseHeader \in Headers
    BY <1>10, NextHeaders DEF WritePhaseHeader
  <2>2. phdr' \in [Slots -> Headers \cup {Torn}]
    BY <1>t, <1>10, <2>1, Zenon DEF WritePhaseHeader, write_header, TypeOK
  <2> QED
    BY <1>t, <1>10, <2>2 DEF WritePhaseHeader, TypeOK
<1>11. CASE FlushPhaseHeader
  <2>1. PhaseHeader \in Headers /\ PhaseHeader.count = status.count
    BY <1>11, NextHeaders DEF FlushPhaseHeader
  <2>2. acked.hdr = status
    BY <1>11 DEF FlushPhaseHeader, JournalInv, Current
  <2>3. acked' = [hdr |-> PhaseHeader, log |-> acked.log]
    BY <1>t, <1>11 DEF FlushPhaseHeader, TypeOK
  <2>4. acked'.log \in [1..acked'.hdr.count -> Bodies]
    BY <1>t, <2>1, <2>2, <2>3 DEF TypeOK
  <2> QED
    BY <1>t, <1>11, <2>1, <2>3, <2>4 DEF FlushPhaseHeader, Return, TypeOK
<1>12. CASE Writeback
  <2>1. dhdr' \in [Slots -> Headers \cup {Torn}] /\ drec' \in [Index -> Records \cup {Torn}]
    BY <1>t, <1>12 DEF Writeback, TypeOK
  <2> QED
    BY <1>t, <1>12, <2>1 DEF Writeback, TypeOK
<1>13. CASE Abandon
  BY <1>t, <1>13, NoHandleType DEF Abandon, Close, Return, TypeOK
<1>14. CASE TearWrite
  <2>1. phdr' \in [Slots -> Headers \cup {Torn}] /\ prec' \in [Index -> Records \cup {Torn}]
    BY <1>t, <1>14 DEF TearWrite, TypeOK
  <2> QED
    BY <1>t, <1>14, <2>1, NoHandleType DEF TearWrite, Close, Return, TypeOK
<1>15. CASE PowerLoss
  <2>1. dhdr' \in [Slots -> Headers \cup {Torn}] /\ drec' \in [Index -> Records \cup {Torn}]
    BY <1>t, <1>15 DEF PowerLoss, TypeOK
  <2> QED
    BY <1>t, <1>15, <2>1, NoHandleType DEF PowerLoss, Close, Return, TypeOK
<1>16. CASE UNCHANGED vars
  BY <1>t, <1>16 DEF TypeOK
<1> QED
  BY <1>1, <1>2, <1>3, <1>4, <1>5, <1>6, <1>7, <1>8, <1>9, <1>10, <1>11, <1>12,
     <1>13, <1>14, <1>15, <1>16 DEF Next, Step

\* What the invariant says of the file alone.
Files ==
    /\ Counted /\ Monotone /\ Parity
    /\ acked.hdr.count > 0 => Redundant

\* The newest header of the cache is one of the valid headers.
LEMMA NewestWritten ==
    ASSUME TypeOK
    PROVE  /\ Newest(phdr) # Torn => Newest(phdr) \in Written
           /\ Written \subseteq Headers
<1>1. \E s \in Slots : Newest(phdr) = phdr[s]
  BY NewestHeader DEF TypeOK
<1> QED
  BY <1>1 DEF Written, TypeOK

\* A header's fields have their types, one by one.
LEMMA HeaderFields ==
    \A h \in Headers : h.seq \in Nat /\ h.count \in Nat /\ h.count <= Capacity /\ h # Torn
BY ConstantsAssumption, TornAssumption DEF Headers

\* A step that touches neither image keeps what the invariant says of them.
LEMMA FilesFrame ==
    ASSUME Files, UNCHANGED <<dhdr, drec, phdr, prec, acked>>
    PROVE  Files'
<1>1. Written' = Written /\ Newest(phdr)' = Newest(phdr)
  BY DEF Written, Newest
<1>2. Counted' /\ Monotone' /\ Parity'
  BY <1>1 DEF Files, Counted, Monotone, Parity
<1>3. ASSUME acked.hdr.count > 0 PROVE Redundant'
  BY <1>1, <1>3 DEF Files, Redundant, Covers, Older
<1> QED
  BY <1>2, <1>3 DEF Files

\* Flushing keeps what the invariant says of the file.
LEMMA FlushFiles ==
    ASSUME TypeOK, Files, dhdr' = phdr, drec' = prec, UNCHANGED <<phdr, prec>>
    PROVE  /\ Counted' /\ Monotone' /\ Parity'
           /\ acked' = acked => Files'
<1>1. Written' \subseteq Written
  BY DEF Written
<1>2. Newest(phdr)' = Newest(phdr)
  BY DEF Newest
<1>3. Counted'
  BY <1>1 DEF Files, Counted
<1>4. Monotone'
  BY <1>1, <1>2 DEF Files, Monotone
<1>5. Parity'
  BY DEF Files, Parity
<1>6. ASSUME acked' = acked, acked.hdr.count > 0 PROVE Redundant'
  BY <1>2, <1>6 DEF Files, Redundant, Covers, Older
<1> QED
  BY <1>3, <1>4, <1>5, <1>6 DEF Files

\* Overwriting the older slot with the next header, when everything before it
\* is durable, leaves the newest header in the other slot.
LEMMA WriteHeaderFiles ==
    ASSUME TypeOK, Files, dhdr = phdr, drec = prec, Newest(phdr) = status,
           NEW h \in Headers, h.seq = status.seq + 1, h.count >= status.count,
           RecordsValid(prec, h.count), write_header(h),
           UNCHANGED <<dhdr, drec, prec, acked>>
    PROVE  /\ Files'
           /\ phdr'[h.seq % 2] = h
           /\ Older(phdr'[1 - (h.seq % 2)], h.seq)
<1> DEFINE w == status.seq % 2
           o == 1 - w
<1>1. status \in Headers /\ status # Torn /\ status \in Written
  BY NewestWritten, HeaderFields DEF TypeOK
<1>2. /\ w \in Slots /\ o \in Slots /\ h.seq % 2 = o /\ 1 - (h.seq % 2) = w
      /\ Slots = {w, o} /\ w # o
  BY <1>1, HeaderFields, Alternate DEF Slots
<1>3. \A s \in Slots : phdr[s] = Torn \/ (phdr[s] \in Headers /\ phdr[s].seq <= status.seq)
  BY <1>1, NewestHeader DEF TypeOK
<1>4. phdr' = [phdr EXCEPT ![o] = h] /\ phdr'[o] = h /\ phdr'[w] = phdr[w]
  BY <1>2, Zenon DEF write_header, TypeOK
<1>5. Older(phdr'[w], h.seq)
  BY <1>1, <1>2, <1>3, <1>4, HeaderFields DEF Older
<1>6. phdr' \in [Slots -> Headers \cup {Torn}]
  BY <1>4, Zenon DEF TypeOK
<1>7. Newest(phdr') = h
  BY <1>2, <1>4, <1>5, <1>6, NewestIs, Zenon
<1>8. Written' \subseteq Written \cup {h}
  BY <1>2, <1>4 DEF Written
<1>9. \A g \in Written : g \in Headers /\ g.seq <= status.seq /\ g.count <= status.count
  BY <1>1, <1>3, NewestWritten DEF Files, Monotone, Written
<1>10. Counted'
  BY <1>8 DEF Files, Counted, RecordsValid
<1>11. Monotone'
  BY <1>1, <1>7, <1>8, <1>9, HeaderFields DEF Monotone, Files
<1>12. Parity'
  BY <1>2, <1>4 DEF Parity, Files
<1>13. ASSUME acked.hdr.count > 0 PROVE Redundant'
  <2>1. /\ Covers(status) /\ phdr[w] = status
        /\ Older(phdr[o], status.seq)
        /\ \A i \in 1..acked.hdr.count : prec[i].body = acked.log[i]
    BY <1>13 DEF Files, Redundant
  <2>2. acked.hdr.seq \in Nat /\ acked.hdr.count \in Nat
    BY HeaderFields DEF TypeOK
  <2>3. Covers(h)'
    BY <1>1, <2>1, <2>2, HeaderFields DEF Covers
  <2>4. Covers(status) /\ dhdr'[w] = status /\ phdr'[w] = status
    BY <1>4, <2>1
  <2>5. Older(dhdr'[w], h.seq)
    BY <1>1, <2>4, HeaderFields DEF Older
  <2>6. Older(dhdr'[o], h.seq - 1)
    BY <1>1, <2>1, HeaderFields DEF Older
  <2>7. dhdr'[w].seq = h.seq - 1
    BY <1>1, <2>4, HeaderFields
  <2>8. PICK a \in Slots, b \in Slots : a = o /\ b = w
    BY <1>2
  <2>9. /\ h.seq % 2 = a /\ 1 - (h.seq % 2) = b
        /\ phdr'[a] = h /\ phdr'[b] = status /\ dhdr'[b] = status
        /\ status.seq = h.seq - 1
        /\ Older(phdr'[b], h.seq) /\ Older(dhdr'[b], h.seq) /\ Older(dhdr'[a], h.seq - 1)
    BY <1>2, <1>4, <1>5, <2>4, <2>5, <2>6, <2>7, <2>8, Zenon
  <2> HIDE DEF w, o
  <2>10. \A i \in 1..acked'.hdr.count : prec'[i].body = acked'.log[i]
    BY <2>1
  <2> QED
    BY <1>7, <2>3, <2>4, <2>9, <2>10, Zenon DEF Redundant, Covers
<1> QED
  BY <1>2, <1>4, <1>5, <1>10, <1>11, <1>12, <1>13 DEF Files

\* Writing, or tearing, a record no header counts yet.
LEMMA WriteRecordFiles ==
    ASSUME TypeOK, Files, Newest(phdr) = status,
           NEW i \in Nat, i > status.count, NEW r,
           prec' = [prec EXCEPT ![i] = r], UNCHANGED <<dhdr, drec, phdr, acked>>
    PROVE  Files'
<1>1. status \in Headers /\ status # Torn
  BY HeaderFields DEF TypeOK
<1>2. Written' = Written /\ Newest(phdr)' = Newest(phdr) /\ Written \subseteq Headers
  BY NewestWritten DEF Written, Newest
<1>3. \A k \in Nat : k <= status.count => prec'[k] = prec[k]
  BY <1>1, HeaderFields DEF TypeOK
<1>4. \A h \in Written : h \in Headers /\ h.count <= status.count
  BY <1>1, <1>2 DEF Files, Monotone
<1>5. \A h \in Written : \A k \in 1..h.count : prec'[k] = prec[k]
  BY <1>1, <1>3, <1>4, HeaderFields
<1>6. Counted'
  BY <1>2, <1>5 DEF Files, Counted
<1>7. Monotone' /\ Parity'
  BY <1>2 DEF Files, Monotone, Parity
<1>8. ASSUME acked.hdr.count > 0 PROVE Redundant'
  <2>1. acked.hdr.count <= status.count
    BY <1>8 DEF Files, Redundant, Covers
  <2>2. \A k \in 1..acked.hdr.count : prec'[k] = prec[k]
    BY <1>1, <1>3, <2>1, HeaderFields DEF TypeOK
  <2> QED
    BY <1>2, <1>8, <2>2 DEF Files, Redundant, Covers, Older
<1> QED
  BY <1>6, <1>7, <1>8 DEF Files

\* Tearing the slot that the next header goes to.
LEMMA TearHeaderFiles ==
    ASSUME TypeOK, Files, dhdr = phdr, Newest(phdr) = status,
           phdr' = [phdr EXCEPT ![(status.seq + 1) % 2] = Torn],
           UNCHANGED <<dhdr, drec, prec, acked>>
    PROVE  Files'
<1> DEFINE w == status.seq % 2
           o == 1 - w
<1>1. status \in Headers /\ status # Torn /\ status \in Written /\ status.seq \in Nat
  BY NewestWritten, HeaderFields DEF TypeOK
<1>2. /\ w \in Slots /\ o \in Slots /\ (status.seq + 1) % 2 = o
      /\ Slots = {w, o} /\ w # o
  BY <1>1, Alternate DEF Slots
<1>3. phdr'[o] = Torn /\ phdr'[w] = phdr[w] /\ phdr' \in [Slots -> Headers \cup {Torn}]
  BY <1>2 DEF TypeOK
<1>4. Written' = Written /\ Written \subseteq Headers
  BY <1>2, <1>3, NewestWritten DEF Written
<1>5. Counted'
  BY <1>4 DEF Files, Counted
<1>6. Parity'
  BY <1>2, <1>3 DEF Files, Parity
<1>7. Monotone'
  <2>1. CASE phdr[w] = status
    <3>1. Newest(phdr') = status
      BY <1>1, <1>2, <1>3, <2>1, NewestIs, Zenon DEF Older
    <3> QED
      BY <1>4, <3>1, <1>1, Zenon DEF Files, Monotone
  <2>2. CASE phdr[w] # status
    <3>1. phdr[o] = status
      BY <1>2, <2>2, NewestHeader, Zenon DEF TypeOK
    <3>2. status.count = 0
      BY <1>1, <1>2, <3>1 DEF Files, Parity
    <3>3. \A h \in Written : h.count = 0
      BY <1>1, <1>4, <3>2, HeaderFields DEF Files, Monotone
    <3>4. Newest(phdr') # Torn => Newest(phdr') \in Written'
      BY <1>3, NewestHeader, Zenon DEF Written
    <3>5. \A g, h \in Written' : g.count <= h.count
      BY <1>4, <3>3
    <3> QED
      BY <3>4, <3>5, Zenon DEF Monotone
  <2> QED
    BY <2>1, <2>2
<1>8. ASSUME acked.hdr.count > 0 PROVE Redundant'
  <2>1. phdr[w] = status /\ Covers(status) /\ Older(phdr[o], status.seq)
    BY <1>8 DEF Files, Redundant
  <2>2. Newest(phdr') = status
    BY <1>1, <1>2, <1>3, <2>1, NewestIs, Zenon DEF Older
  <2>3. /\ status # Torn
        /\ status.seq >= acked'.hdr.seq
        /\ status.seq = acked'.hdr.seq => status = acked'.hdr
        /\ status.count >= acked'.hdr.count
        /\ Older(phdr'[o], status.seq)
    BY <1>3, <2>1 DEF Covers, Older
  <2>4. dhdr'[w] = status /\ Older(dhdr'[o], status.seq) /\ phdr'[w] = status
    BY <1>3, <2>1
  <2>5. \A i \in 1..acked'.hdr.count : prec'[i].body = acked'.log[i]
    BY <1>8 DEF Files, Redundant
  <2> QED
    BY <2>2, <2>3, <2>4, <2>5, Zenon DEF Redundant, Covers, Older
<1> QED
  BY <1>5, <1>6, <1>7, <1>8 DEF Files

\* The kernel writes one header or one record back.
LEMMA WritebackFiles ==
    ASSUME TypeOK, Files, Writeback
    PROVE  Files'
<1> USE DEF cache
<1>1. Newest(phdr)' = Newest(phdr)
  BY DEF Writeback, Newest
<1>2. CASE \E s \in Slots : dhdr' = [dhdr EXCEPT ![s] = phdr[s]] /\ UNCHANGED drec
  <2>1. \A s \in Slots : dhdr'[s] = dhdr[s] \/ dhdr'[s] = phdr[s]
    BY <1>2 DEF TypeOK
  <2>2. Written' \subseteq Written
    BY <2>1 DEF Written, Writeback
  <2>3. Counted' /\ Monotone'
    BY <1>1, <1>2, <2>2 DEF Files, Counted, Monotone, Writeback
  <2>4. Parity'
    BY <2>1 DEF Files, Parity, Writeback
  <2>5. ASSUME acked.hdr.count > 0 PROVE Redundant'
    <3> DEFINE p == Newest(phdr)
               w == p.seq % 2
    <3>1. p \in Headers /\ w \in Slots /\ 1 - w \in Slots
      BY <2>5, NewestHeader, HeaderFields, Alternate DEF Files, Redundant, Covers, TypeOK
    <3>2. /\ dhdr'[w] = dhdr[w] \/ dhdr'[w] = phdr[w]
          /\ dhdr'[1 - w] = dhdr[1 - w] \/ dhdr'[1 - w] = phdr[1 - w]
      BY <2>1, <3>1
    <3> QED
      BY <1>1, <2>5, <3>2 DEF Files, Redundant, Covers, Older, Writeback
  <2> QED
    BY <2>3, <2>4, <2>5 DEF Files, Writeback
<1>3. CASE \E i \in Index : drec' = [drec EXCEPT ![i] = prec[i]] /\ UNCHANGED dhdr
  <2>1. \A i : drec[i] = prec[i] => drec'[i] = prec[i]
    BY <1>3 DEF TypeOK
  <2>2. Written' = Written
    BY <1>3 DEF Written, Writeback
  <2>3. Counted' /\ Monotone' /\ Parity'
    BY <1>1, <1>3, <2>1, <2>2 DEF Files, Counted, Monotone, Parity, Writeback
  <2>4. ASSUME acked.hdr.count > 0 PROVE Redundant'
    BY <1>1, <1>3, <2>4 DEF Files, Redundant, Covers, Older, Writeback
  <2> QED
    BY <2>3, <2>4 DEF Files, Writeback
<1> QED
  BY <1>2, <1>3 DEF Writeback

\* A power loss: of the newest header and the one before it, one is durable and
\* is not dirty, and so are the records it counts.
LEMMA PowerLossFiles ==
    ASSUME TypeOK, Files, PowerLoss
    PROVE  Files'
<1>1. PICK S \in SUBSET {s \in Slots : dhdr[s] # phdr[s]} :
          dhdr' = [s \in Slots |-> IF s \in S THEN Torn ELSE dhdr[s]]
  BY DEF PowerLoss
<1>2. PICK I \in SUBSET {i \in Index : drec[i] # prec[i]} :
          drec' = [i \in Index |-> IF i \in I THEN Torn ELSE drec[i]]
  BY DEF PowerLoss
<1>3. phdr' = dhdr' /\ prec' = drec' /\ acked' = acked
  BY DEF PowerLoss
<1>4. /\ dhdr' \in [Slots -> Headers \cup {Torn}]
      /\ \A s \in Slots : dhdr'[s] = dhdr[s] \/ dhdr'[s] = Torn
      /\ \A s \in Slots : dhdr[s] = phdr[s] => dhdr'[s] = dhdr[s]
  BY <1>1 DEF TypeOK
<1>5. \A i \in Index : drec[i] = prec[i] => drec'[i] = prec[i]
  BY <1>2
<1>6. Written' \subseteq Written /\ Written \subseteq Headers
  BY <1>3, <1>4, NewestWritten DEF Written
<1>7. \A h \in Written : \A i \in 1..h.count : i \in Index /\ drec'[i] = prec[i]
  BY <1>5, <1>6, HeaderFields, ConstantsAssumption DEF Files, Counted, Index
<1>8. Counted'
  BY <1>3, <1>6, <1>7 DEF Files, Counted
<1>9. Monotone'
  <2>1. \A g, h \in Written' : g.seq <= h.seq => g.count <= h.count
    BY <1>6 DEF Files, Monotone
  <2>2. \A h \in Written' : \E s \in Slots : h = phdr'[s] /\ h # Torn
    BY <1>3 DEF Written
  <2>3. ASSUME Newest(phdr') # Torn PROVE \A h \in Written' : h.count <= Newest(phdr').count
    <3>1. /\ Newest(phdr') \in Written'
          /\ \A s \in Slots : phdr'[s] = Torn \/ phdr'[s].seq <= Newest(phdr').seq
      BY <1>3, <1>4, <2>3, NewestHeader DEF Written
    <3> QED
      BY <2>1, <2>2, <3>1
  <2> QED
    BY <2>1, <2>3 DEF Monotone
<1>10. Parity'
  BY <1>3, <1>4 DEF Files, Parity
<1>11. ASSUME acked.hdr.count > 0 PROVE Redundant'
  <2> DEFINE p == Newest(phdr)
             w == p.seq % 2
             o == 1 - w
             q == dhdr[o]
  <2>1. p \in Headers /\ p # Torn /\ p.seq \in Nat /\ p \in Written /\ Covers(p)
    BY <1>11, NewestHeader, NewestWritten, HeaderFields DEF Files, Redundant, Covers, TypeOK
  <2>2. w \in Slots /\ o \in Slots /\ 1 - o = w /\ Slots = {w, o} /\ w # o
    BY <2>1, Alternate DEF Slots
  <2>3. \A i \in 1..acked.hdr.count : prec'[i].body = acked'.log[i]
    <3>1. \A i \in 1..acked.hdr.count : i \in 1..p.count
      BY <2>1, HeaderFields DEF Covers, TypeOK
    <3> QED
      BY <1>3, <1>7, <1>11, <2>1, <3>1 DEF Files, Redundant
  <2>4. CASE dhdr[w] = p
    <3>1. dhdr'[w] = p /\ Older(dhdr'[o], p.seq)
      BY <1>4, <1>11, <2>2, <2>4 DEF Files, Redundant, Older
    <3>2. Newest(phdr') = p
      BY <1>3, <1>4, <2>1, <2>2, <3>1, NewestIs, Zenon
    <3> QED
      BY <1>3, <2>1, <2>3, <3>1, <3>2 DEF Redundant, Covers, Older
  <2>5. CASE dhdr[w] # p
    <3>1. /\ q = phdr[o] /\ Covers(q) /\ q.seq = p.seq - 1
          /\ Older(dhdr[w], p.seq - 1)
      BY <1>11, <2>5 DEF Files, Redundant
    <3>2. q \in Headers /\ q.seq \in Nat
      BY <2>2, <3>1, HeaderFields DEF Covers, TypeOK
    <3>3. q.seq % 2 = o
      <4>1. p.seq = q.seq + 1
        BY <2>1, <3>1, <3>2
      <4>2. w = 1 - (q.seq % 2) /\ q.seq % 2 \in Slots
        BY <3>2, <4>1, Alternate
      <4> QED
        BY <4>2 DEF Slots
    <3>4. dhdr'[o] = q /\ Older(dhdr'[w], q.seq)
      BY <1>4, <2>2, <3>1 DEF Older
    <3>5. Newest(phdr') = q
      BY <1>3, <1>4, <2>2, <3>2, <3>4, NewestIs, Zenon
    <3> QED
      BY <1>3, <2>2, <2>3, <3>1, <3>3, <3>4, <3>5, Zenon DEF Redundant, Covers, Older
  <2> QED
    BY <2>4, <2>5
<1> QED
  BY <1>3, <1>8, <1>9, <1>10, <1>11 DEF Files

\* A handle that is dropped leaves only what is in the file.
LEMMA Closed == ASSUME pc' = "closed" PROVE Synced' /\ Current' /\ Appending'
BY DEF Synced, Current, Appending

\* When the flush of header h returns, h is durable and is the newest header.
LEMMA FlushedHeader ==
    ASSUME TypeOK, Files, NEW h \in Headers, Overwrote(h),
           dhdr' = phdr, drec' = prec, UNCHANGED <<phdr, prec>>, acked'.hdr = h,
           \A i \in 1..h.count : prec[i].body = acked'.log[i]
    PROVE  Files' /\ Newest(phdr') = h
<1>1. h.seq \in Nat /\ h.count \in Nat /\ h # Torn
  BY HeaderFields
<1>2. h.seq % 2 \in Slots /\ 1 - (h.seq % 2) \in Slots
  BY <1>1, Alternate
<1>3. Newest(phdr) = h /\ Older(phdr[1 - (h.seq % 2)], h.seq)
  BY <1>2, NewestIs DEF Overwrote, Older, TypeOK
<1>4. Redundant'
  BY <1>1, <1>3 DEF Redundant, Covers, Older, Overwrote
<1> QED
  BY <1>3, <1>4, FlushFiles DEF Files

\* Starting a batch: the checks leave room for it behind the counted records.
LEMMA BeginStep ==
    ASSUME JournalInv, NEW r \in Seq(Bodies), r # <<>>, NEW ph, Begin(r, ph)
    PROVE  Synced' /\ Current' /\ Appending' /\ Files' /\ Unpublished'
<1> USE DEF disk, cache
<1>1. /\ pc = "idle" /\ pc' = "record" /\ batch' = r /\ done' = 0 /\ status' = status
      /\ UNCHANGED <<exists, dhdr, drec, phdr, prec, acked>>
      /\ Len(r) <= Capacity - status.count
  BY DEF Begin
<1>2. Files'
  BY <1>1, FilesFrame DEF JournalInv, Files
<1>3. Newest(phdr) = status /\ Newest(phdr') = status'
  BY <1>1 DEF JournalInv, Current
<1>4. status \in Headers /\ status.count \in Nat /\ status \in Written
  BY <1>3, NewestWritten, HeaderFields DEF JournalInv, TypeOK
<1>5. RecordsValid(prec, status.count + 0)
  BY <1>4 DEF JournalInv, Counted, RecordsValid
<1>6. Len(r) \in Nat /\ 0 < Len(r)
  OBVIOUS
<1>7. Appending'
  BY <1>1, <1>4, <1>5, <1>6, ConstantsAssumption DEF Appending, RecordsValid
<1> QED
  BY <1>1, <1>2, <1>3, <1>7 DEF Synced, Current, Unpublished, JournalInv

\* The invariant is inductive, one case per action.
LEMMA NextInv == JournalInv /\ [Next]_vars => JournalInv'
<1> SUFFICES ASSUME JournalInv, [Next]_vars
             PROVE  Synced' /\ Current' /\ Appending' /\ Files' /\ Unpublished'
  BY TypeStep DEF JournalInv, Files
<1> USE DEF disk, cache, proc, vars
<1>t. TypeOK /\ Files
  BY DEF JournalInv, Files
<1>1. CASE create
  <2>1. acked.hdr.count = 0 /\ acked' = acked
    BY <1>1 DEF create, JournalInv, Unpublished
  <2>2. \A h \in Written' : h.count = 0
    BY <1>1 DEF create, Written
  <2>3. /\ phdr'[0] = [seq |-> 1, phase |-> FirstPhase, count |-> 0]
        /\ phdr'[1] = [seq |-> 0, phase |-> FirstPhase, count |-> 0]
    BY <1>1 DEF create, Slots
  <2>4. phdr'[0] \in Headers /\ phdr'[1] \in Headers
    BY <2>3, ConstantsAssumption DEF Headers
  <2>5. Newest(phdr') = status' /\ status'.count = 0
    BY <1>1, <2>3, <2>4, HeaderFields DEF create, Newest
  <2>6. Counted'
    BY <2>2 DEF Counted
  <2>7. Monotone'
    BY <2>2, <2>5 DEF Monotone
  <2>8. Parity'
    BY <1>1 DEF create, Parity
  <2>9. Files'
    BY <2>1, <2>6, <2>7, <2>8 DEF Files
  <2>10. pc' = "idle" /\ exists' = TRUE
    BY <1>1 DEF create
  <2>11. Synced' /\ Appending' /\ Unpublished'
    BY <2>10 DEF Synced, Appending, Unpublished
  <2>12. Current'
    BY <2>5, <2>10 DEF Current
  <2> QED
    BY <2>9, <2>11, <2>12
<1>2. CASE open
  <2>1. Files'
    BY <1>t, <1>2, FilesFrame DEF open
  <2> QED
    BY <1>2, <2>1 DEF open, Synced, Current, Appending, Unpublished
<1>3. CASE append_batch
  <2>0. PICK n \in 1..MaxBatch : \E r \in [1..n -> Payloads] : Begin(r, NoPhase)
    BY <1>3 DEF append_batch
  <2>1. PICK r \in [1..n -> Payloads] : Begin(r, NoPhase)
    BY <2>0
  <2>2. n \in Nat /\ n > 0
    BY ConstantsAssumption
  <2>3. r \in Seq(Bodies) /\ Len(r) = n
    BY <2>2 DEF Bodies
  <2> QED
    BY <2>1, <2>2, <2>3, BeginStep
<1>4. CASE checkpoint
  <2>1. PICK ph \in Phases : Begin(<<ph>>, ph)
    BY <1>4 DEF checkpoint
  <2>2. <<ph>> \in Seq(Bodies) /\ <<ph>> # <<>>
    BY DEF Bodies
  <2> QED
    BY <2>1, <2>2, BeginStep, Zenon
<1>5. CASE JournalFull \/ Abandon
  <2>1. Files'
    BY <1>t, <1>5, FilesFrame DEF JournalFull, Abandon
  <2> QED
    BY <1>5, <2>1, Closed DEF JournalFull, Abandon, Close, JournalInv, Unpublished
<1>6. CASE WriteRecord
  <2> DEFINE i == status.count + done + 1
             r == [seq |-> i, body |-> batch[done + 1]]
  <2>1. status \in Headers /\ status.count \in Nat /\ done \in Nat /\ Len(batch) \in Nat
    BY <1>t, HeaderFields DEF TypeOK
  <2>2. /\ Newest(phdr) = status /\ status.count + Len(batch) <= Capacity /\ done < Len(batch)
        /\ RecordsValid(prec, status.count + done)
    BY <1>6 DEF WriteRecord, JournalInv, Current, Appending
  <2>3. i \in Nat /\ i > status.count /\ i \in Index
    BY <2>1, <2>2, ConstantsAssumption DEF Index
  <2>4. prec' = [prec EXCEPT ![i] = r] /\ UNCHANGED <<exists, dhdr, drec, phdr, acked, status, batch>>
    BY <1>6 DEF WriteRecord
  <2>5. Files'
    BY <1>t, <2>2, <2>3, <2>4, WriteRecordFiles, Zenon
  <2>6. RecordsValid(prec', status.count + done + 1)
    <3>1. prec'[i] = r
      BY <1>t, <2>3, <2>4 DEF TypeOK
    <3>2. r # Torn /\ r.seq = i
      <4>1. batch[done + 1] \in Bodies
        BY <1>t, <2>1, <2>2 DEF TypeOK
      <4> QED
        BY <2>3, <4>1, TornAssumption DEF Records
    <3>3. \A k \in 1..(status.count + done) : prec'[k] = prec[k]
      BY <1>t, <2>1, <2>4 DEF TypeOK
    <3>4. \A k \in 1..i : k = i \/ k \in 1..(status.count + done)
      BY <2>1
    <3>5. \A k \in 1..i : prec'[k] # Torn /\ prec'[k].seq = k
      BY <2>2, <3>1, <3>2, <3>3, <3>4 DEF RecordsValid
    <3> QED
      BY <3>5 DEF RecordsValid
  <2>7. done' = done + 1 /\ pc' = IF done' = Len(batch) THEN "flush_records" ELSE "record"
    BY <1>6 DEF WriteRecord
  <2>8. batch # <<>>
    BY <1>6 DEF WriteRecord, JournalInv, Appending
  <2>9. Appending'
    <3>1. RecordsValid(prec', status.count + done')
      BY <2>6, <2>7, <2>1
    <3> QED
      BY <2>1, <2>2, <2>4, <2>7, <2>8, <3>1 DEF Appending
  <2>10. Current' /\ Synced'
    BY <2>2, <2>4, <2>7 DEF Current, Synced
  <2>11. Unpublished'
    BY <1>6, <2>4 DEF WriteRecord, JournalInv, Unpublished
  <2> QED
    BY <2>5, <2>9, <2>10, <2>11
<1>7. CASE FlushRecords
  <2>1. Files'
    BY <1>t, <1>7, FlushFiles DEF FlushRecords
  <2> QED
    BY <1>7, <2>1 DEF FlushRecords, JournalInv, Synced, Current, Appending, Unpublished, RecordsValid
<1>8. CASE WriteBatchHeader
  <2>1. /\ dhdr = phdr /\ drec = prec /\ Newest(phdr) = status
        /\ RecordsValid(prec, status.count + Len(batch))
    BY <1>8 DEF WriteBatchHeader, JournalInv, Synced, Current, Appending
  <2>2. /\ BatchHeader \in Headers /\ BatchHeader.seq = status.seq + 1
        /\ BatchHeader.count = status.count + Len(batch)
    BY <1>8, NextHeaders DEF WriteBatchHeader
  <2>3. BatchHeader.count >= status.count
    BY <1>t, <2>2, HeaderFields DEF TypeOK
  <2>4. /\ Files' /\ phdr'[BatchHeader.seq % 2] = BatchHeader
        /\ Older(phdr'[1 - (BatchHeader.seq % 2)], BatchHeader.seq)
    BY <1>t, <1>8, <2>1, <2>2, <2>3, WriteHeaderFiles DEF WriteBatchHeader
  <2>5. BatchHeader' = BatchHeader
    BY <1>8 DEF WriteBatchHeader, BatchHeader
  <2>6. Current'
    BY <1>8, <2>4, <2>5 DEF WriteBatchHeader, Current, Overwrote, Older
  <2>7. Appending' /\ Synced' /\ Unpublished'
    BY <1>8, <2>1 DEF WriteBatchHeader, JournalInv, Appending, Synced, Unpublished, RecordsValid
  <2> QED
    BY <2>4, <2>6, <2>7
<1>9. CASE FlushBatchHeader
  <2>1. BatchHeader \in Headers /\ Overwrote(BatchHeader)
    BY <1>9, NextHeaders DEF FlushBatchHeader, JournalInv, Current
  <2>2. acked' = [hdr |-> BatchHeader, log |-> LogOf(prec, BatchHeader.count)]
    BY <1>9 DEF FlushBatchHeader
  <2>3. \A i \in 1..BatchHeader.count : prec[i].body = acked'.log[i]
    BY <2>2 DEF LogOf
  <2>4. Files' /\ Newest(phdr') = BatchHeader
    BY <1>t, <1>9, <2>1, <2>2, <2>3, HeaderFields, FlushedHeader DEF FlushBatchHeader
  <2>5. pc' = "idle" \/ (pc' = "phase" /\ next' \in Phases)
    BY <1>t, <1>9 DEF FlushBatchHeader, TypeOK
  <2>6. Synced' /\ Current' /\ Appending'
    BY <1>9, <2>2, <2>4, <2>5 DEF FlushBatchHeader, Synced, Current, Appending
  <2>7. Unpublished'
    BY <1>9 DEF FlushBatchHeader, JournalInv, Unpublished
  <2> QED
    BY <2>4, <2>6, <2>7
<1>10. CASE WritePhaseHeader
  <2>1. /\ dhdr = phdr /\ drec = prec /\ Newest(phdr) = status
        /\ acked.hdr = status /\ next \in Phases
    BY <1>10 DEF WritePhaseHeader, JournalInv, Synced, Current
  <2>2. /\ PhaseHeader \in Headers /\ PhaseHeader.seq = status.seq + 1
        /\ PhaseHeader.count = status.count
    BY <1>10, NextHeaders DEF WritePhaseHeader
  <2>3. status \in Written /\ status.count \in Nat
    BY <1>t, <2>1, NewestWritten, HeaderFields DEF TypeOK
  <2>4. RecordsValid(prec, PhaseHeader.count)
    BY <1>t, <2>2, <2>3 DEF Files, Counted, RecordsValid
  <2>5. /\ Files' /\ phdr'[PhaseHeader.seq % 2] = PhaseHeader
        /\ Older(phdr'[1 - (PhaseHeader.seq % 2)], PhaseHeader.seq)
    BY <1>t, <1>10, <2>1, <2>2, <2>3, <2>4, WriteHeaderFiles DEF WritePhaseHeader
  <2>6. PhaseHeader' = PhaseHeader
    BY <1>10 DEF WritePhaseHeader, PhaseHeader
  <2>7. Current'
    BY <1>10, <2>1, <2>5, <2>6 DEF WritePhaseHeader, Current, Overwrote, Older
  <2>8. Appending' /\ Synced' /\ Unpublished'
    BY <1>10 DEF WritePhaseHeader, JournalInv, Appending, Synced, Unpublished
  <2> QED
    BY <2>5, <2>7, <2>8
<1>11. CASE FlushPhaseHeader
  <2>1. /\ PhaseHeader \in Headers /\ Overwrote(PhaseHeader) /\ acked.hdr = status
        /\ PhaseHeader.count = status.count
    BY <1>11, NextHeaders DEF FlushPhaseHeader, JournalInv, Current
  <2>2. acked' = [hdr |-> PhaseHeader, log |-> acked.log]
    BY <1>t, <1>11 DEF FlushPhaseHeader, TypeOK
  <2>3. \A i \in 1..PhaseHeader.count : prec[i].body = acked'.log[i]
    <3>1. CASE acked.hdr.count > 0
      BY <1>t, <2>1, <2>2, <3>1 DEF Files, Redundant
    <3>2. CASE ~(acked.hdr.count > 0)
      BY <1>t, <2>1, <3>2, HeaderFields DEF TypeOK
    <3> QED
      BY <3>1, <3>2
  <2>4. Files' /\ Newest(phdr') = PhaseHeader
    BY <1>t, <1>11, <2>1, <2>2, <2>3, HeaderFields, FlushedHeader DEF FlushPhaseHeader
  <2>5. Synced' /\ Current' /\ Appending'
    BY <1>11, <2>4 DEF FlushPhaseHeader, Synced, Current, Appending
  <2>6. Unpublished'
    BY <1>11 DEF FlushPhaseHeader, JournalInv, Unpublished
  <2> QED
    BY <2>4, <2>5, <2>6
<1>12. CASE Writeback
  <2>1. Files'
    BY <1>t, <1>12, WritebackFiles
  <2>2. Newest(phdr)' = Newest(phdr)
    BY <1>12 DEF Writeback, Newest
  <2>3. Synced' /\ Unpublished'
    BY <1>t, <1>12 DEF Writeback, JournalInv, Synced, Unpublished, TypeOK
  <2>4. Current'
    BY <1>12, <2>2 DEF Writeback, JournalInv, Current, Overwrote, BatchHeader, PhaseHeader
  <2>5. Appending'
    BY <1>12 DEF Writeback, JournalInv, Appending, RecordsValid
  <2> QED
    BY <2>1, <2>3, <2>4, <2>5
<1>13. CASE TearWrite
  <2>1. pc' = "closed" /\ pc # "closed" /\ UNCHANGED <<exists, dhdr, drec, acked>>
    BY <1>13 DEF TearWrite, Close
  <2>2. Files'
    <3>1. CASE /\ pc = "record" /\ UNCHANGED phdr
               /\ prec' = [prec EXCEPT ![status.count + done + 1] = Torn]
      <4>1. /\ status.count + done + 1 \in Nat /\ status.count + done + 1 > status.count
            /\ Newest(phdr) = status
        BY <1>t, <3>1, HeaderFields DEF JournalInv, Current, TypeOK
      <4> QED
        BY <1>t, <2>1, <3>1, <4>1, WriteRecordFiles, Zenon
    <3>2. CASE /\ pc \in {"header", "phase"} /\ UNCHANGED prec
               /\ phdr' = [phdr EXCEPT ![(status.seq + 1) % 2] = Torn]
      <4>1. dhdr = phdr /\ Newest(phdr) = status
        BY <3>2 DEF JournalInv, Synced, Current
      <4> QED
        BY <1>t, <2>1, <3>2, <4>1, TearHeaderFiles
    <3> QED
      BY <1>13, <3>1, <3>2 DEF TearWrite
  <2> QED
    BY <2>1, <2>2, Closed DEF JournalInv, Unpublished
<1>14. CASE PowerLoss
  <2>1. Files'
    BY <1>t, <1>14, PowerLossFiles
  <2>2. Unpublished'
    BY <1>14 DEF PowerLoss, Close, JournalInv, Unpublished
  <2> QED
    BY <1>14, <2>1, <2>2, Closed DEF PowerLoss, Close
<1>15. CASE UNCHANGED vars
  <2>1. Files'
    BY <1>t, <1>15, FilesFrame
  <2>2. Newest(phdr)' = Newest(phdr)
    BY <1>15 DEF Newest
  <2> QED
    BY <1>15, <2>1, <2>2 DEF JournalInv, Synced, Current, Overwrote, BatchHeader, PhaseHeader,
       Appending, RecordsValid, Unpublished
<1> QED
  BY <1>1, <1>2, <1>3, <1>4, <1>5, <1>6, <1>7, <1>8, <1>9, <1>10, <1>11, <1>12,
     <1>13, <1>14, <1>15 DEF Next, Step

\* Every state of the journal satisfies the inductive invariant: headers,
\* records and the in-memory status keep their types and their agreement
\* through appends, checkpoints, process deaths and power losses.
THEOREM JournalCorrect == Spec => []JournalInv
<1>1. Init => JournalInv
  BY InitInv
<1>2. JournalInv /\ [Next]_vars => JournalInv'
  BY NextInv
<1> QED
  BY <1>1, <1>2, PTL DEF Spec

\* An image whose newest header covers the acknowledged one holds the log.
LEMMA HoldsFrom ==
    ASSUME TypeOK, Files, acked.hdr.count > 0, Redundant,
           NEW hdr, NEW rec, NEW h \in Written, Newest(hdr) = h, Covers(h),
           rec = prec \/ rec = drec
    PROVE  Holds(hdr, rec)
<1>1. h \in Headers /\ h # Torn /\ h.count \in Nat /\ h.count <= Capacity
  BY NewestWritten, HeaderFields
<1>2. \A i \in 1..h.count : rec[i] = prec[i] /\ prec[i] # Torn /\ prec[i].seq = i
  BY DEF Files, Counted
<1>3. \A i \in 1..acked.hdr.count : i \in 1..h.count
  BY <1>1, HeaderFields DEF Covers, TypeOK
<1>4. \A i \in 1..acked.hdr.count : rec[i].body = acked.log[i]
  BY <1>2, <1>3 DEF Redundant
<1>5. LogOf(rec, acked.hdr.count) = acked.log
  BY <1>4, Zenon DEF LogOf, TypeOK
<1>6. Loadable(hdr, rec)
  BY <1>1, <1>2 DEF Loadable, RecordsValid
<1> QED
  BY <1>5, <1>6 DEF Holds, Covers

\* What append_batch and checkpoint have acknowledged survives any sequence of
\* process deaths, torn writes and power losses: both the disk and the page
\* cache load, at the acknowledged header or a later one.
THEOREM AcknowledgedIsDurable == Spec => []AckedSurvives
<1>1. JournalInv => AckedSurvives
  <2> SUFFICES ASSUME JournalInv, acked.hdr.count > 0
               PROVE  Holds(dhdr, drec) /\ Holds(phdr, prec)
    BY DEF AckedSurvives
  <2> DEFINE p == Newest(phdr)
             w == p.seq % 2
  <2>1. TypeOK /\ Files /\ Redundant
    BY DEF JournalInv, Files
  <2>2. p \in Written /\ p \in Headers /\ Covers(p)
    BY <2>1, NewestWritten DEF Redundant, Covers
  <2>3. Holds(phdr, prec)
    BY <2>1, <2>2, HoldsFrom
  <2>4. w \in Slots /\ 1 - w \in Slots /\ 1 - (1 - w) = w
    BY <2>2, HeaderFields, Alternate DEF Slots
  <2>5. CASE dhdr[w] = p
    <3>1. Newest(dhdr) = p
      BY <2>1, <2>2, <2>4, <2>5, NewestIs DEF Redundant, TypeOK
    <3> QED
      BY <2>1, <2>2, <2>3, <3>1, HoldsFrom
  <2>6. CASE dhdr[w] # p
    <3> DEFINE q == dhdr[1 - w]
    <3>1. Covers(q) /\ q.seq = p.seq - 1 /\ Older(dhdr[w], p.seq - 1)
      BY <2>1, <2>6 DEF Redundant
    <3>2. q \in Headers /\ q \in Written
      BY <2>1, <2>4, <3>1 DEF Covers, Written, TypeOK
    <3>3. Newest(dhdr) = q
      BY <2>1, <2>4, <3>1, <3>2, NewestIs DEF TypeOK
    <3> QED
      BY <2>1, <2>3, <3>1, <3>2, <3>3, HoldsFrom
  <2> QED
    BY <2>5, <2>6
<1> QED
  BY <1>1, JournalCorrect, PTL

-----------------------------------------------------------------------------
\* The headers of create, which are not in the slot of their parity.
Fresh(s) == [seq |-> 1 - s, phase |-> FirstPhase, count |-> 0]

\* Every other header is; the first to be overwritten is the newer one of create.
Placed(hdr) ==
    /\ \A s \in Slots : hdr[s] # Torn => hdr[s] = Fresh(s) \/ (hdr[s].seq % 2 = s /\ hdr[s].seq > 0)
    /\ hdr[0] = Fresh(0) => hdr[1] \in {Torn, Fresh(1)}

\* The slot can be torn: another header is newer, or nothing has been appended.
Spare(hdr, s) ==
    \/ hdr[s] = Torn
    \/ hdr[1 - s] # Torn /\ hdr[s].seq < hdr[1 - s].seq
    \/ hdr[s] = Fresh(s) /\ hdr[1 - s] \in {Torn, Fresh(1 - s)}

\* At most one header is not flushed, and it is in such a slot.
OneDirty == \E s \in Slots : dhdr[1 - s] = phdr[1 - s] /\ (dhdr[s] # phdr[s] => Spare(dhdr, s))

\* The records written so far say what the batch says.
Filled ==
    /\ pc = "record" => \A k \in 1..done : prec[status.count + k].body = batch[k]
    /\ pc \in {"flush_records", "header"} => \A k \in 1..Len(batch) : prec[status.count + k].body = batch[k]

LogInv == JournalInv /\ Placed(dhdr) /\ Placed(phdr) /\ OneDirty /\ Filled

\* The headers of create are intact.
LEMMA FreshIsIntact ==
    /\ \A s \in Slots : Fresh(s) # Torn /\ Fresh(s).count = 0 /\ Fresh(s).phase = FirstPhase
    /\ Fresh(0).seq = 1 /\ 0 \in Slots /\ 1 \in Slots
<1>1. 0 \in Slots /\ 1 \in Slots /\ \A s \in Slots : 1 - s \in Nat
  BY DEF Slots
<1>2. ASSUME NEW s \in Slots PROVE Fresh(s) \in Headers
  <2>1. 1 - s \in Nat /\ 0 \in 0..Capacity /\ FirstPhase \in Phases
    BY <1>1, ConstantsAssumption
  <2>. QED
    BY <2>1 DEF Fresh, Headers
<1>3. \A s \in Slots : Fresh(s) # Torn
  BY <1>2, TornAssumption
<1>4. \A s \in Slots : Fresh(s).count = 0 /\ Fresh(s).phase = FirstPhase /\ Fresh(s).seq = 1 - s
  BY DEF Fresh
<1>5. Fresh(0).seq = 1
  BY DEF Fresh
<1>. QED
  BY <1>1, <1>3, <1>4, <1>5

\* What a step does to the headers: nothing, create, a flush, the write of the
\* next one (or a part of it), a write-back or a loss of power.
HeadersMove ==
    \/ UNCHANGED <<dhdr, phdr>>
    \/ dhdr' = phdr' /\ phdr' = [s \in Slots |-> Fresh(s)]
    \/ dhdr' = phdr /\ phdr' = phdr
    \/ /\ pc \in {"header", "phase"} /\ dhdr' = dhdr
       /\ \E h \in Headers \cup {Torn} : /\ phdr' = [phdr EXCEPT ![(status.seq + 1) % 2] = h]
                                         /\ h # Torn => h.seq = status.seq + 1
    \/ phdr' = phdr /\ \E s \in Slots : dhdr' = [dhdr EXCEPT ![s] = phdr[s]]
    \/ /\ phdr' = dhdr'
       /\ \E S \in SUBSET {s \in Slots : dhdr[s] # phdr[s]} :
             dhdr' = [s \in Slots |-> IF s \in S THEN Torn ELSE dhdr[s]]

\* Every step is one of these.
LEMMA StepMoves == JournalInv /\ [Next]_vars => HeadersMove
<1>. SUFFICES ASSUME JournalInv, [Next]_vars PROVE HeadersMove
  OBVIOUS
<1>. USE DEF disk, cache, proc, vars
<1>1. CASE create
  BY <1>1, Zenon DEF create, HeadersMove, Fresh
<1>2. CASE open \/ append_batch \/ checkpoint \/ JournalFull \/ WriteRecord \/ Abandon \/ UNCHANGED vars
  BY <1>2 DEF open, append_batch, checkpoint, Begin, JournalFull, WriteRecord, Abandon, HeadersMove
<1>3. CASE FlushRecords \/ FlushBatchHeader \/ FlushPhaseHeader
  BY <1>3 DEF FlushRecords, FlushBatchHeader, FlushPhaseHeader, HeadersMove
<1>4. CASE WriteBatchHeader
  BY <1>4, NextHeaders, Zenon DEF WriteBatchHeader, write_header, HeadersMove
<1>5. CASE WritePhaseHeader
  BY <1>5, NextHeaders, Zenon DEF WritePhaseHeader, write_header, HeadersMove
<1>6. CASE Writeback
  BY <1>6 DEF Writeback, HeadersMove
<1>7. CASE TearWrite
  BY <1>7 DEF TearWrite, HeadersMove
<1>8. CASE PowerLoss
  BY <1>8, Zenon DEF PowerLoss, HeadersMove
<1>. QED
  BY <1>1, <1>2, <1>3, <1>4, <1>5, <1>6, <1>7, <1>8 DEF Next, Step

\* The slot of the next header is one that can be torn, and the header goes well
\* with the other one.
LEMMA NextSlot ==
    ASSUME NEW hdr \in [Slots -> Headers \cup {Torn}], Placed(hdr), Newest(hdr) # Torn
    PROVE  LET n == Newest(hdr).seq
               w == (n + 1) % 2
           IN  /\ w \in Slots /\ 1 - w \in Slots /\ w # 1 - w
               /\ Spare(hdr, w)
               /\ hdr[0] = Fresh(0) => w = 0
<1>. USE DEF Spare
<1>1. hdr[0] \in Headers \cup {Torn} /\ hdr[1] \in Headers \cup {Torn} /\ Slots = {0, 1}
  BY DEF Slots
<1>2. \A h \in Headers : h.seq \in Nat /\ h # Torn
  BY TornAssumption DEF Headers
<1>3. Fresh(0).seq = 1 /\ Fresh(1).seq = 0
  BY DEF Fresh
<1>4. \A n \in Nat : n % 2 \in {0, 1} /\ (n + 1) % 2 = 1 - (n % 2)
  OBVIOUS
<1>5. /\ hdr[0] # Torn => hdr[0] = Fresh(0) \/ (hdr[0].seq % 2 = 0 /\ hdr[0].seq > 0)
      /\ hdr[1] # Torn => hdr[1] = Fresh(1) \/ (hdr[1].seq % 2 = 1 /\ hdr[1].seq > 0)
      /\ hdr[0] = Fresh(0) => hdr[1] \in {Torn, Fresh(1)}
  BY <1>1 DEF Placed
<1>6. Newest(hdr).seq \in Nat
  BY <1>1, <1>2 DEF Newest
<1>7. CASE hdr[0] = Torn
  <2>1. Newest(hdr) = hdr[1] /\ hdr[1] # Torn /\ hdr[1].seq \in Nat
    BY <1>1, <1>2, <1>7 DEF Newest
  <2>2. CASE hdr[1] = Fresh(1)
    <3>1. Fresh(0) # Torn
      BY TornAssumption, ConstantsAssumption DEF Fresh, Headers
    <3>. QED
      BY <1>1, <1>3, <1>7, <2>1, <2>2, <3>1
  <2>3. CASE hdr[1].seq % 2 = 1
    <3>1. (hdr[1].seq + 1) % 2 = 0
      BY <2>1, <2>3
    <3>. QED
      BY <1>1, <1>7, <2>1, <2>3, <3>1
  <2>. QED
    BY <1>5, <2>1, <2>2, <2>3
<1>8. CASE hdr[1] = Torn
  <2>1. Newest(hdr) = hdr[0] /\ hdr[0] # Torn /\ hdr[0].seq \in Nat
    BY <1>1, <1>2, <1>8 DEF Newest
  <2>2. CASE hdr[0] = Fresh(0)
    BY <1>1, <1>3, <1>8, <2>1, <2>2
  <2>3. CASE hdr[0].seq % 2 = 0 /\ hdr[0] # Fresh(0)
    <3>1. (hdr[0].seq + 1) % 2 = 1
      BY <2>1, <2>3
    <3>. QED
      BY <1>1, <1>8, <2>1, <2>3, <3>1
  <2>. QED
    BY <1>5, <2>1, <2>2, <2>3
<1>9. CASE hdr[0] # Torn /\ hdr[1] # Torn
  <2>. DEFINE a == hdr[0].seq
              b == hdr[1].seq
  <2>1. a \in Nat /\ b \in Nat
    BY <1>1, <1>2, <1>9
  <2>2. CASE a >= b
    <3>1. Newest(hdr) = hdr[0]
      BY <1>9, <2>2 DEF Newest
    <3>2. CASE hdr[0] = Fresh(0)
      BY <1>1, <1>2, <1>3, <1>4, <1>5, <1>9, <3>1, <3>2
    <3>3. CASE a % 2 = 0 /\ a > 0 /\ hdr[0] # Fresh(0)
      <4>1. (a + 1) % 2 = 1
        BY <2>1, <3>3
      <4>2. b < a
        BY <1>3, <1>5, <1>9, <2>1, <2>2, <3>3
      <4>. QED
        BY <1>1, <1>9, <3>1, <3>3, <4>1, <4>2
    <3>. QED
      BY <1>5, <1>9, <3>2, <3>3
  <2>3. CASE ~(a >= b)
    <3>1. Newest(hdr) = hdr[1] /\ a < b
      BY <1>9, <2>1, <2>3 DEF Newest
    <3>2. b % 2 = 1 /\ hdr[0] # Fresh(0)
      BY <1>3, <1>5, <1>9, <2>1, <3>1
    <3>3. (b + 1) % 2 = 0
      BY <2>1, <3>2
    <3>. QED
      BY <1>1, <1>9, <3>1, <3>2, <3>3
  <2>. QED
    BY <2>2, <2>3
<1>. QED
  BY <1>7, <1>8, <1>9

\* The headers stay in their slots, and at most one of them is not flushed.
LEMMA HeadersStay ==
    ASSUME LogInv, HeadersMove
    PROVE  Placed(dhdr)' /\ Placed(phdr)' /\ OneDirty'
<1>0. /\ dhdr \in [Slots -> Headers \cup {Torn}] /\ phdr \in [Slots -> Headers \cup {Torn}]
      /\ status.seq \in Nat /\ Slots = {0, 1}
      /\ Placed(dhdr) /\ Placed(phdr) /\ OneDirty
  BY DEF LogInv, JournalInv, TypeOK, Headers, Slots
<1>1. CASE UNCHANGED <<dhdr, phdr>>
  BY <1>0, <1>1 DEF OneDirty, Spare, Placed
<1>2. CASE dhdr' = phdr' /\ phdr' = [s \in Slots |-> Fresh(s)]
  BY <1>0, <1>2 DEF OneDirty, Placed
<1>3. CASE dhdr' = phdr /\ phdr' = phdr
  BY <1>0, <1>3 DEF OneDirty, Placed
<1>4. ASSUME pc \in {"header", "phase"}, dhdr' = dhdr, NEW h \in Headers \cup {Torn},
             phdr' = [phdr EXCEPT ![(status.seq + 1) % 2] = h], h # Torn => h.seq = status.seq + 1
      PROVE  Placed(dhdr)' /\ Placed(phdr)' /\ OneDirty'
  <2>. DEFINE w == (status.seq + 1) % 2
  <2>1. dhdr = phdr /\ Newest(phdr) = status /\ status # Torn
    BY <1>4, TornAssumption DEF LogInv, JournalInv, Synced, Current, TypeOK
  <2>2. /\ w \in Slots /\ 1 - w \in Slots /\ w # 1 - w
        /\ Spare(phdr, w)
        /\ phdr[0] = Fresh(0) => w = 0
    BY <1>0, <2>1, NextSlot
  <2>3. phdr'[w] = h /\ phdr'[1 - w] = phdr[1 - w]
    BY <1>0, <1>4, <2>2
  <2>4. OneDirty'
    BY <1>4, <2>1, <2>2, <2>3 DEF OneDirty, Spare
  <2>5. Placed(phdr)'
    <3>1. h # Torn => h.seq % 2 = w /\ h.seq > 0
      BY <1>0, <1>4
    <3>2. \A s \in Slots : phdr'[s] # Torn => phdr'[s] = Fresh(s) \/ (phdr'[s].seq % 2 = s /\ phdr'[s].seq > 0)
      <4>1. \A s \in Slots : s = w \/ s = 1 - w
        BY <1>0, <2>2
      <4>. QED
        BY <1>0, <2>2, <2>3, <3>1, <4>1 DEF Placed
    <3>3. ASSUME phdr'[0] = Fresh(0) PROVE phdr'[1] \in {Torn, Fresh(1)}
      <4>1. Fresh(0) # Torn /\ Fresh(0).seq = 1
        BY FreshIsIntact
      <4>2. w # 0
        BY <2>3, <3>1, <3>3, <4>1
      <4>3. w = 1 /\ phdr[0] = Fresh(0)
        BY <1>0, <2>2, <2>3, <3>3, <4>2
      <4>. QED
        BY <2>2, <4>3
    <3>. QED
      BY <3>2, <3>3 DEF Placed
  <2>. QED
    BY <1>0, <1>4, <2>4, <2>5
<1>5. ASSUME phdr' = phdr, NEW s \in Slots, dhdr' = [dhdr EXCEPT ![s] = phdr[s]]
      PROVE  Placed(dhdr)' /\ Placed(phdr)' /\ OneDirty'
  <2>1. dhdr' = dhdr \/ dhdr' = phdr
    BY <1>0, <1>5 DEF OneDirty
  <2>. QED
    BY <1>0, <1>5, <2>1 DEF OneDirty, Spare, Placed
<1>6. ASSUME phdr' = dhdr', NEW S \in SUBSET {s \in Slots : dhdr[s] # phdr[s]},
             dhdr' = [s \in Slots |-> IF s \in S THEN Torn ELSE dhdr[s]]
      PROVE  Placed(dhdr)' /\ Placed(phdr)' /\ OneDirty'
  <2>1. /\ dhdr'[0] \in {Torn, dhdr[0]} /\ dhdr'[1] \in {Torn, dhdr[1]}
        /\ \A s \in Slots : dhdr'[s] \in {Torn, dhdr[s]}
    BY <1>0, <1>6
  <2>2. Fresh(0) # Torn
    BY TornAssumption, ConstantsAssumption DEF Fresh, Headers
  <2>3. Placed(dhdr)'
    BY <1>0, <2>1, <2>2 DEF Placed
  <2>4. OneDirty'
    BY <1>0, <1>6 DEF OneDirty
  <2>. QED
    BY <1>6, <2>3, <2>4
<1>. QED
  BY <1>1, <1>2, <1>3, <1>4, <1>5, <1>6, Zenon DEF HeadersMove

\* The records written so far say what the batch says.
LEMMA FilledStays ==
    ASSUME LogInv, [Next]_vars
    PROVE  Filled'
<1>. USE DEF disk, cache, proc, vars
<1>0. TypeOK /\ Filled /\ Appending
  BY DEF LogInv, JournalInv
<1>1. CASE pc' \notin {"record", "flush_records", "header"}
  BY <1>1 DEF Filled
<1>2. CASE append_batch \/ checkpoint
  <2>1. pc' = "record" /\ done' = 0
    BY <1>2 DEF append_batch, checkpoint, Begin
  <2>. QED
    BY <2>1 DEF Filled
<1>3. CASE WriteRecord
  <2>. DEFINE i == status.count + done + 1
  <2>1. /\ status.count \in Nat /\ done \in Nat /\ Len(batch) \in Nat /\ i \in Index /\ done < Len(batch)
        /\ prec \in [Index -> Records \cup {Torn}]
    BY <1>0, <1>3, ConstantsAssumption, SMTT(30) DEF WriteRecord, TypeOK, Headers, Appending, Index
  <2>2. /\ prec' = [prec EXCEPT ![i] = [seq |-> i, body |-> batch[done + 1]]]
        /\ done' = done + 1 /\ UNCHANGED <<status, batch>>
        /\ pc' = IF done' = Len(batch) THEN "flush_records" ELSE "record"
    BY <1>3 DEF WriteRecord
  <2>3. \A k \in 1..done : prec[status.count + k].body = batch[k]
    BY <1>0, <1>3 DEF Filled, WriteRecord
  <2>4. \A k \in 1..done + 1 : prec'[status.count + k].body = batch[k]
    <3>1. prec'[i].body = batch[done + 1] /\ i = status.count + (done + 1)
      BY <2>1, <2>2
    <3>2. \A k \in 1..done : prec'[status.count + k] = prec[status.count + k]
      <4>1. ASSUME NEW k \in 1..done PROVE status.count + k \in Index /\ status.count + k # i
        BY <2>1, ConstantsAssumption DEF Index
      <4>. QED
        BY <2>1, <2>2, <4>1
    <3>3. \A k \in 1..done + 1 : k \in 1..done \/ k = done + 1
      BY <2>1
    <3>. QED
      BY <2>3, <3>1, <3>2, <3>3
  <2>. QED
    BY <2>1, <2>2, <2>4 DEF Filled
<1>4. CASE UNCHANGED <<pc, prec, status, batch, done>>
  BY <1>0, <1>4 DEF Filled
<1>5. CASE FlushRecords
  BY <1>0, <1>5 DEF FlushRecords, Filled
<1>6. CASE create \/ open \/ JournalFull \/ Abandon \/ TearWrite \/ PowerLoss
  BY <1>1, <1>6 DEF create, open, JournalFull, Abandon, TearWrite, PowerLoss, Close
<1>7. CASE WriteBatchHeader \/ FlushBatchHeader \/ WritePhaseHeader \/ FlushPhaseHeader
  BY <1>1, <1>7 DEF WriteBatchHeader, FlushBatchHeader, WritePhaseHeader, FlushPhaseHeader
<1>8. CASE Writeback \/ UNCHANGED vars
  BY <1>4, <1>8 DEF Writeback
<1>. QED
  BY <1>2, <1>3, <1>5, <1>6, <1>7, <1>8 DEF Next, Step

\* The invariant behind the refinement.
LEMMA LogInvariant == Spec => []LogInv
<1>1. Init => LogInv
  <2>1. Init => JournalInv
    BY InitInv
  <2>2. Init => Placed(dhdr) /\ Placed(phdr) /\ OneDirty /\ Filled
    <3>1. Fresh(0) # Torn /\ 0 \in Slots /\ 1 \in Slots
      BY FreshIsIntact
    <3>. QED
      BY <3>1 DEF Init, Placed, OneDirty, Filled, Slots
  <2>. QED
    BY <2>1, <2>2 DEF LogInv
<1>2. LogInv /\ [Next]_vars => LogInv'
  BY NextInv, StepMoves, HeadersStay, FilledStays DEF LogInv
<1>. QED
  BY <1>1, <1>2, PTL DEF Spec

-----------------------------------------------------------------------------
\* What load returns when the records a header counts are valid.
Read(hdr, rec) ==
    IF Newest(hdr) = Torn THEN Torn
    ELSE [log |-> LogOf(rec, Newest(hdr).count), phase |-> Newest(hdr).phase]

\* A published journal is read by its newest header alone, and the records on the
\* disk are as good as those in the cache.
ReadsWell ==
    /\ Version(phdr, prec) = Read(phdr, prec)
    /\ Version(dhdr, drec) = Read(dhdr, prec)
    /\ \A hdr \in {phdr, dhdr} : Newest(hdr) # Torn => Newest(hdr) \in Written /\ Newest(hdr) \in Headers

\* It is so whenever the invariant holds.
LEMMA ReadsNewest == JournalInv /\ exists => ReadsWell
<1>. SUFFICES ASSUME JournalInv, exists PROVE ReadsWell
  OBVIOUS
<1>0. TypeOK /\ Counted
  BY DEF JournalInv
<1>1. ASSUME NEW hdr \in {phdr, dhdr}, Newest(hdr) # Torn
      PROVE  Newest(hdr) \in Written /\ Newest(hdr) \in Headers
  <2>1. hdr \in [Slots -> Headers \cup {Torn}]
    BY <1>0 DEF TypeOK
  <2>2. Newest(hdr) \in Headers /\ \E s \in Slots : Newest(hdr) = hdr[s]
    BY <1>1, <2>1, NewestHeader
  <2>. QED
    BY <1>1, <2>2 DEF Written
<1>2. ASSUME NEW hdr \in {phdr, dhdr}, NEW rec \in {prec, drec}, Newest(hdr) # Torn
      PROVE  Loadable(hdr, rec) /\ LogOf(rec, Newest(hdr).count) = LogOf(prec, Newest(hdr).count)
  <2>1. /\ Newest(hdr).count \in 0..Capacity
        /\ \A i \in 1..Newest(hdr).count : prec[i] = drec[i] /\ prec[i] # Torn /\ prec[i].seq = i
    BY <1>0, <1>1, <1>2 DEF Counted, Headers
  <2>2. Loadable(hdr, rec)
    BY <1>2, <2>1, ConstantsAssumption DEF Loadable, RecordsValid
  <2>3. LogOf(rec, Newest(hdr).count) = LogOf(prec, Newest(hdr).count)
    BY <1>2, <2>1 DEF LogOf
  <2>. QED
    BY <2>2, <2>3
<1>3. \A hdr \in {phdr, dhdr}, rec \in {prec, drec} : Newest(hdr) = Torn => ~Loadable(hdr, rec)
  BY DEF Loadable
<1>. QED
  BY <1>1, <1>2, <1>3 DEF Version, Read, ReadsWell

\* The same after a step.
LEMMA ReadsNewestNext == JournalInv' /\ exists' => ReadsWell'
BY ReadsNewest, PTL

\* A torn slot of that kind leaves what is read, or an empty log is lost.
LEMMA TearSlot ==
    ASSUME NEW hdr \in [Slots -> Headers \cup {Torn}], NEW s \in Slots, Spare(hdr, s), NEW rec
    PROVE  \/ Read([hdr EXCEPT ![s] = Torn], rec) = Read(hdr, rec)
           \/ /\ Read([hdr EXCEPT ![s] = Torn], rec) = Torn
              /\ Read(hdr, rec) = [log |-> <<>>, phase |-> FirstPhase]
<1>. DEFINE new == [hdr EXCEPT ![s] = Torn]
<1>0. /\ new[s] = Torn /\ new[1 - s] = hdr[1 - s] /\ (s = 0 \/ s = 1)
      /\ hdr[0] \in Headers \cup {Torn} /\ hdr[1] \in Headers \cup {Torn}
      /\ new \in [Slots -> Headers \cup {Torn}] /\ 1 - s \in Slots
  BY DEF Slots
<1>1. \A h \in Headers : h.seq \in Nat /\ h # Torn
  BY TornAssumption DEF Headers
<1>. HIDE DEF new
<1>2. Newest(new) = hdr[1 - s]
  BY <1>0 DEF Newest
<1>3. \A t \in Slots : Read(hdr, rec) = [log |-> <<>>, phase |-> FirstPhase] \/ Newest(hdr) # Fresh(t)
  <2>1. \A t \in Slots : Fresh(t).count = 0 /\ Fresh(t).phase = FirstPhase /\ Fresh(t) # Torn
    BY FreshIsIntact
  <2>2. LogOf(rec, 0) = <<>>
    BY DEF LogOf
  <2>. QED
    BY <2>1, <2>2 DEF Read
<1>4. CASE hdr[s] = Torn
  <2>1. new = hdr
    BY <1>4 DEF new
  <2>. QED
    BY <2>1, Zenon DEF new
<1>5. CASE hdr[1 - s] # Torn /\ hdr[s].seq < hdr[1 - s].seq /\ hdr[s] # Torn
  <2>1. Newest(hdr) = hdr[1 - s]
    BY <1>0, <1>1, <1>5 DEF Newest
  <2>. QED
    BY <1>2, <2>1 DEF new, Read
<1>6. CASE hdr[s] = Fresh(s) /\ hdr[1 - s] = Torn
  <2>1. Newest(hdr) = Fresh(s)
    BY <1>0, <1>6 DEF Newest
  <2>. QED
    BY <1>2, <1>3, <1>6, <2>1 DEF new, Read
<1>7. CASE hdr[s] = Fresh(s) /\ hdr[1 - s] = Fresh(1 - s)
  <2>1. Newest(hdr) = Fresh(s) \/ Newest(hdr) = Fresh(1 - s)
    BY <1>0, <1>7 DEF Newest
  <2>2. Read(hdr, rec) = [log |-> <<>>, phase |-> FirstPhase]
    BY <1>0, <1>3, <2>1
  <2>3. Fresh(1 - s).count = 0 /\ Fresh(1 - s).phase = FirstPhase /\ Fresh(1 - s) # Torn
    BY <1>0, TornAssumption, ConstantsAssumption DEF Fresh, Headers
  <2>4. LogOf(rec, 0) = <<>>
    BY DEF LogOf
  <2>5. Read(new, rec) = [log |-> <<>>, phase |-> FirstPhase]
    BY <1>2, <1>7, <2>3, <2>4 DEF Read
  <2>. QED
    BY <2>2, <2>5 DEF new
<1>. QED
  BY <1>4, <1>5, <1>6, <1>7 DEF Spare

\* No step changes a record that a header counts.
LEMMA RecordsStay ==
    ASSUME JournalInv, [Next]_vars
    PROVE  \A h \in Written : LogOf(prec', h.count) = LogOf(prec, h.count)
<1>. USE DEF disk, cache, proc, vars
<1>0. TypeOK /\ Counted /\ Monotone /\ Current /\ Appending
  BY DEF JournalInv
<1>w. \A h \in Written : h.count \in Nat /\ h.count <= Capacity
  BY <1>0, HeaderFields DEF Written, TypeOK
<1>1. CASE prec' = prec
  BY <1>1
<1>2. ASSUME pc = "record", NEW v, prec' = [prec EXCEPT ![status.count + done + 1] = v]
      PROVE  \A h \in Written : LogOf(prec', h.count) = LogOf(prec, h.count)
  <2>1. status.count \in Nat /\ done \in Nat /\ Newest(phdr) = status /\ status # Torn
    BY <1>0, <1>2, TornAssumption DEF TypeOK, Headers, Current
  <2>2. \A h \in Written : h.count \in Nat /\ h.count <= status.count
    BY <1>0, <1>w, <2>1 DEF Monotone
  <2>3. \A h \in Written : \A i \in 1..h.count : prec'[i] = prec[i]
    BY <1>0, <1>2, <2>1, <2>2 DEF TypeOK, Index
  <2>. QED
    BY <2>3 DEF LogOf
<1>3. CASE PowerLoss
  <2>1. PICK I \in SUBSET {i \in Index : drec[i] # prec[i]} :
           drec' = [i \in Index |-> IF i \in I THEN Torn ELSE drec[i]] /\ prec' = drec'
    BY <1>3 DEF PowerLoss
  <2>2. \A h \in Written : \A i \in 1..h.count : i \in Index /\ drec[i] = prec[i]
    BY <1>0, <1>w, ConstantsAssumption DEF Counted, Index
  <2>3. \A h \in Written : \A i \in 1..h.count : prec'[i] = prec[i]
    BY <2>1, <2>2
  <2>. QED
    BY <2>3 DEF LogOf
<1>4. CASE WriteRecord
  BY <1>2, <1>4, Zenon DEF WriteRecord
<1>5. CASE TearWrite
  BY <1>1, <1>2, <1>5 DEF TearWrite
<1>6. CASE create \/ open \/ append_batch \/ checkpoint \/ JournalFull \/ Writeback \/ Abandon \/ UNCHANGED vars
  BY <1>1, <1>6 DEF create, open, append_batch, checkpoint, Begin, JournalFull, Writeback, Abandon
<1>7. CASE FlushRecords \/ FlushBatchHeader \/ WritePhaseHeader \/ FlushPhaseHeader \/ WriteBatchHeader
  BY <1>1, <1>7 DEF FlushRecords, FlushBatchHeader, WritePhaseHeader, FlushPhaseHeader, WriteBatchHeader
<1>. QED
  BY <1>3, <1>4, <1>5, <1>6, <1>7 DEF Next, Step

\* The records a written header counts are whole, so what it reads is a log.
LEMMA LogTyped ==
    ASSUME TypeOK, Counted, NEW h \in Written, h \in Headers
    PROVE  /\ \A i \in 1..h.count : prec[i].body \in Bodies
           /\ LogOf(prec, h.count) \in Seq(Bodies) /\ Len(LogOf(prec, h.count)) = h.count
<1>1. h.count \in Nat /\ h.count <= Capacity
  BY HeaderFields
<1>2. \A i \in 1..h.count : prec[i] # Torn
  BY DEF Counted
<1>3. \A i \in 1..h.count : i \in Index
  BY <1>1, ConstantsAssumption DEF Index
<1>4. \A i \in 1..h.count : prec[i] \in Records
  BY <1>2, <1>3 DEF TypeOK
<1>5. \A i \in 1..h.count : prec[i].body \in Bodies
  BY <1>4 DEF Records
<1>. DEFINE n == h.count
            body(i) == prec[i].body
            log == [i \in 1..n |-> body(i)]
<1>6. LogOf(prec, n) = log /\ n \in Nat /\ \A i \in 1..n : body(i) \in Bodies
  BY <1>1, <1>5 DEF LogOf
<1>7. log \in Seq(Bodies) /\ Len(log) = n
  <2>. HIDE DEF n, body
  <2>. QED
    BY <1>6
<1>. QED
  BY <1>5, <1>6, <1>7

\* Every step of the journal file is a step of the log.
LEMMA LogStep == LogInv /\ LogInv' /\ [Next]_vars => [Log!Next]_(Log!vars)
<1>. SUFFICES ASSUME LogInv, LogInv', [Next]_vars PROVE [Log!Next]_(Log!vars)
  OBVIOUS
<1>. USE DEF disk, cache, proc, vars
<1>. DEFINE A == Version(phdr, prec)
            B == Version(dhdr, drec)
<1>1. JournalInv /\ JournalInv' /\ TypeOK /\ TypeOK' /\ batch' \in Seq(Bodies)
  BY DEF LogInv, JournalInv, TypeOK
<1>0. exists' = exists \/ (create /\ ~exists /\ exists')
  BY DEF Next, Step, create, open, append_batch, checkpoint, Begin, JournalFull, WriteRecord, FlushRecords,
         WriteBatchHeader, FlushBatchHeader, WritePhaseHeader, FlushPhaseHeader, Writeback, Abandon,
         TearWrite, PowerLoss
<1>2. CASE ~exists /\ ~exists'
  <2>1. pc = "closed"
    BY <1>1, <1>2 DEF JournalInv, Unpublished
  <2>2. batch' = batch \/ batch' = <<>>
    BY <1>2, <2>1 DEF Next, Step, create, open, append_batch, checkpoint, Begin, JournalFull, WriteRecord,
         FlushRecords, WriteBatchHeader, FlushBatchHeader, WritePhaseHeader, FlushPhaseHeader, Writeback,
         Abandon, TearWrite, PowerLoss, Close, Return
  <2>3. A = B /\ A' = A /\ B' = B
    BY <1>2 DEF Version
  <2>. HIDE DEF A, B
  <2>. QED
    BY <1>0, <1>2, <2>2, <2>3 DEF A, B, Log!Next, Log!Revert, Log!vars
<1>3. CASE create
  <2>1. ~exists /\ exists' /\ batch' = batch /\ dhdr' = phdr' /\ phdr' = [s \in Slots |-> Fresh(s)]
    BY <1>3 DEF create, Fresh
  <2>2. A = [log |-> <<>>, phase |-> FirstPhase] /\ B = A
    BY <2>1 DEF Version
  <2>3. Newest(phdr') = Fresh(0) /\ Fresh(0) # Torn /\ Fresh(0).count = 0 /\ Fresh(0).phase = FirstPhase
    <3>1. /\ Fresh(0) # Torn /\ Fresh(0).count = 0 /\ Fresh(0).phase = FirstPhase
          /\ Fresh(1) # Torn /\ Fresh(0).seq = 1 /\ Fresh(1).seq = 0
      BY TornAssumption, ConstantsAssumption DEF Fresh, Headers
    <3>2. phdr'[0] = Fresh(0) /\ phdr'[1] = Fresh(1)
      BY <2>1 DEF Slots
    <3>. QED
      BY <3>1, <3>2 DEF Newest
  <2>4. LogOf(prec', 0) = <<>>
    BY DEF LogOf
  <2>5. A' = Read(phdr', prec') /\ B' = Read(phdr', prec')
    BY <1>1, <2>1, ReadsNewestNext DEF ReadsWell
  <2>6. A' = A /\ B' = B
    BY <2>2, <2>3, <2>4, <2>5 DEF Read
  <2>. HIDE DEF A, B
  <2>. QED
    BY <2>1, <2>6 DEF A, B, Log!Next, Log!Create
<1>4. CASE exists /\ exists'
  <2>1. /\ A = Read(phdr, prec) /\ B = Read(dhdr, prec)
        /\ A' = Read(phdr', prec') /\ B' = Read(dhdr', prec')
    BY <1>1, <1>4, ReadsNewest, ReadsNewestNext DEF ReadsWell
  <2>2. \A hdr \in {phdr, dhdr} : Read(hdr, prec') = Read(hdr, prec)
    <3>1. \A hdr \in {phdr, dhdr} : Newest(hdr) # Torn => Newest(hdr) \in Written
      BY <1>1, <1>4, ReadsNewest DEF ReadsWell
    <3>. QED
      BY <1>1, <3>1, RecordsStay DEF Read
  <2>. HIDE DEF A, B
  <2>. USE <1>4
  <2>3. CASE UNCHANGED <<dhdr, phdr>>
    <3>1. A' = A /\ B' = B
      BY <2>1, <2>2, <2>3
    <3>. QED
      BY <1>1, <3>1 DEF A, B, Log!Next, Log!Ask
  <2>4. CASE dhdr' = phdr /\ phdr' = phdr /\ batch' \in {batch, <<>>}
    <3>1. A' = A /\ B' = A
      BY <2>1, <2>2, <2>4
    <3>. QED
      BY <2>4, <3>1 DEF A, B, Log!Next, Log!Harden
  <2>5. CASE WriteBatchHeader
    <3>. DEFINE n == status.count
                m == Len(batch)
                old == LogOf(prec, n)
    <3>1. /\ pc = "header" /\ pc' = "flush_header" /\ UNCHANGED <<dhdr, prec, status, batch>>
          /\ Newest(phdr) = status /\ status # Torn /\ dhdr = phdr
      BY <1>1, <2>5, TornAssumption DEF WriteBatchHeader, JournalInv, Synced, Current, TypeOK
    <3>2. Newest(phdr') = BatchHeader /\ BatchHeader # Torn
      <4>1. Overwrote(BatchHeader)' /\ BatchHeader' = BatchHeader
        BY <1>1, <3>1 DEF JournalInv, Current, BatchHeader
      <4>2. BatchHeader \in Headers /\ BatchHeader.seq % 2 \in Slots
        BY <1>1, <3>1, NextHeaders, Alternate DEF Headers
      <4>3. /\ phdr'[BatchHeader.seq % 2] = BatchHeader
            /\ Older(phdr'[1 - (BatchHeader.seq % 2)], BatchHeader.seq)
        BY <4>1 DEF Overwrote, Older
      <4>4. phdr' \in [Slots -> Headers \cup {Torn}]
        BY <1>1 DEF TypeOK
      <4>. QED
        BY <4>2, <4>3, <4>4, NewestIs, TornAssumption
    <3>3. A = [log |-> old, phase |-> status.phase] /\ B = A
      BY <2>1, <3>1 DEF Read
    <3>4. A' = [log |-> LogOf(prec, n + m), phase |-> status.phase] /\ B' = B
      BY <2>1, <3>1, <3>2, <3>3 DEF Read, BatchHeader
    <3>5. /\ n \in Nat /\ m \in Nat /\ batch \in Seq(Bodies) /\ n + m <= Capacity
          /\ \A k \in 1..m : prec[n + k].body = batch[k]
          /\ \A i \in 1..n : prec[i].body \in Bodies
      <4>1. n \in Nat /\ m \in Nat /\ batch \in Seq(Bodies) /\ n + m <= Capacity
        <5>1. status \in Headers /\ batch \in Seq(Bodies)
          BY <1>1 DEF TypeOK
        <5>2. n + m <= Capacity
          BY <1>1, <3>1 DEF JournalInv, Appending
        <5>. QED
          BY <5>1, <5>2, HeaderFields
      <4>2. \A k \in 1..m : prec[n + k].body = batch[k]
        BY <3>1 DEF LogInv, Filled
      <4>3. status \in Written /\ status \in Headers
        BY <1>1, <3>1, ReadsNewest DEF ReadsWell
      <4>4. \A i \in 1..n : prec[i].body \in Bodies
        BY <1>1, <4>3, LogTyped DEF JournalInv
      <4>. QED
        BY <4>1, <4>2, <4>4
    <3>6. old \in Seq(Bodies) /\ Len(old) = n
      <4>1. status \in Written /\ status \in Headers
        BY <1>1, <3>1, ReadsNewest DEF ReadsWell
      <4>. QED
        BY <1>1, <4>1, LogTyped DEF JournalInv
    <3>7. LogOf(prec, n + m) = old \o batch
      <4>. DEFINE new == LogOf(prec, n + m)
      <4>1. /\ new = [i \in 1..n + m |-> prec[i].body]
            /\ \A i \in 1..n : old[i] = prec[i].body
        BY <3>5 DEF LogOf
      <4>2. old \o batch = [i \in 1..n + m |-> IF i <= n THEN old[i] ELSE batch[i - n]]
        BY <3>5, <3>6, SMTT(30)
      <4>3. ASSUME NEW i \in 1..n + m PROVE prec[i].body = IF i <= n THEN old[i] ELSE batch[i - n]
        <5>1. CASE i <= n
          BY <3>5, <4>1, <5>1
        <5>2. CASE i > n
          <6>1. i - n \in 1..m /\ n + (i - n) = i
            BY <3>5, <5>2
          <6>2. prec[n + (i - n)].body = batch[i - n]
            BY <3>5, <6>1
          <6>. QED
            BY <3>5, <5>2, <6>1, <6>2
        <5>. QED
          BY <3>5, <5>1, <5>2
      <4>. HIDE DEF n, m, old, new
      <4>. QED
        BY <4>1, <4>2, <4>3, Zenon DEF new
    <3>8. A # Torn
      <4>1. status.phase \in Phases
        BY <1>1 DEF TypeOK, Headers
      <4>. HIDE DEF old
      <4>2. [log |-> old, phase |-> status.phase] \in [log : Seq(Bodies), phase : Phases]
        BY <3>6, <4>1
      <4>. QED
        BY <3>3, <4>2, TornAssumption
    <3>9. A' = [A EXCEPT !.log = @ \o batch]
      <4>. HIDE DEF old, n, m
      <4>1. A.log = old /\ A' = [log |-> old \o batch, phase |-> status.phase]
        BY <3>3, <3>4, <3>7, Zenon
      <4>2. [A EXCEPT !.log = @ \o batch] = [log |-> A.log \o batch, phase |-> status.phase]
        <5>. DEFINE x == A.log \o batch
        <5>. HIDE DEF x
        <5>1. [A EXCEPT !.log = x] = [log |-> x, phase |-> status.phase]
          BY <3>3
        <5>. QED
          BY <5>1 DEF x
      <4>3. A' = [log |-> A.log \o batch, phase |-> status.phase]
        BY <4>1
      <4>. QED
        BY <4>2, <4>3
    <3>. QED
      BY <3>1, <3>3, <3>4, <3>8, <3>9, Zenon DEF A, B, Log!Next, Log!Extend
  <2>6. CASE WritePhaseHeader
    <3>1. /\ pc = "phase" /\ pc' = "flush_phase" /\ UNCHANGED <<dhdr, prec, status, batch, next>>
          /\ Newest(phdr) = status /\ status # Torn /\ dhdr = phdr /\ next \in Phases
      BY <1>1, <2>6, TornAssumption DEF WritePhaseHeader, JournalInv, Synced, Current, TypeOK
    <3>2. Newest(phdr') = PhaseHeader /\ PhaseHeader # Torn
      <4>1. Overwrote(PhaseHeader)' /\ PhaseHeader' = PhaseHeader
        BY <1>1, <3>1 DEF JournalInv, Current, PhaseHeader
      <4>2. PhaseHeader \in Headers /\ PhaseHeader.seq % 2 \in Slots
        BY <1>1, <3>1, NextHeaders, Alternate DEF Headers
      <4>3. /\ phdr'[PhaseHeader.seq % 2] = PhaseHeader
            /\ Older(phdr'[1 - (PhaseHeader.seq % 2)], PhaseHeader.seq)
        BY <4>1 DEF Overwrote, Older
      <4>4. phdr' \in [Slots -> Headers \cup {Torn}]
        BY <1>1 DEF TypeOK
      <4>. QED
        BY <4>2, <4>3, <4>4, NewestIs, TornAssumption
    <3>. DEFINE old == LogOf(prec, status.count)
    <3>3. A = [log |-> old, phase |-> status.phase] /\ B = A
      BY <2>1, <3>1 DEF Read
    <3>4. A' = [log |-> old, phase |-> next] /\ B' = B
      BY <2>1, <3>1, <3>2, <3>3 DEF Read, PhaseHeader
    <3>5. old \in Seq(Bodies)
      <4>1. status \in Written /\ status \in Headers
        BY <1>1, <3>1, ReadsNewest DEF ReadsWell
      <4>. QED
        BY <1>1, <4>1, LogTyped DEF JournalInv
    <3>6. A # Torn
      <4>1. status.phase \in Phases
        BY <1>1 DEF TypeOK, Headers
      <4>. HIDE DEF old
      <4>2. [log |-> old, phase |-> status.phase] \in [log : Seq(Bodies), phase : Phases]
        BY <3>5, <4>1
      <4>. QED
        BY <3>3, <4>2, TornAssumption
    <3>. HIDE DEF old
    <3>7. A' = [A EXCEPT !.phase = next]
      BY <3>3, <3>4
    <3>. QED
      BY <3>1, <3>3, <3>4, <3>6, <3>7 DEF A, B, Log!Next, Log!SetPhase
  <2>7. CASE TearWrite
    <3>1. CASE UNCHANGED phdr
      BY <2>3, <2>7, <3>1 DEF TearWrite
    <3>2. CASE pc \in {"header", "phase"} /\ phdr' = [phdr EXCEPT ![(status.seq + 1) % 2] = Torn]
      <4>1. dhdr' = dhdr /\ dhdr = phdr /\ Newest(phdr) = status /\ status # Torn /\ batch' = <<>>
        BY <1>1, <2>7, <3>2, TornAssumption DEF TearWrite, Close, Return, JournalInv, Synced, Current, TypeOK
      <4>2. /\ phdr \in [Slots -> Headers \cup {Torn}] /\ (status.seq + 1) % 2 \in Slots
            /\ Spare(phdr, (status.seq + 1) % 2)
        BY <1>1, <4>1, NextSlot DEF TypeOK, LogInv
      <4>3. A' = A \/ (A' = Torn /\ A = [log |-> <<>>, phase |-> FirstPhase])
        <5>1. A' = Read([phdr EXCEPT ![(status.seq + 1) % 2] = Torn], prec') /\ A = Read(phdr, prec')
          BY <2>1, <2>2, <3>2
        <5>. QED
          BY <4>2, <5>1, TearSlot, Zenon
      <4>4. B' = B /\ B = A
        BY <2>1, <2>2, <4>1
      <4>5. CASE A' = A
        BY <1>1, <4>4, <4>5 DEF A, B, Log!Next, Log!Ask
      <4>6. CASE A' = Torn /\ A = [log |-> <<>>, phase |-> FirstPhase]
        <5>1. B # Torn => B.log = <<>>
          BY <4>4, <4>6
        <5>. QED
          BY <4>1, <4>4, <4>6, <5>1 DEF A, B, Log!Next, Log!Spoil
      <4>. QED
        BY <4>3, <4>5, <4>6
    <3>. QED
      BY <2>7, <3>1, <3>2 DEF TearWrite
  <2>8. CASE Writeback
    <3>1. phdr' = phdr /\ batch' = batch /\ (dhdr' = dhdr \/ dhdr' = phdr)
      <4>1. phdr' = phdr /\ batch' = batch
        BY <2>8 DEF Writeback
      <4>2. CASE dhdr' = dhdr
        BY <4>1, <4>2
      <4>3. ASSUME NEW r \in Slots, dhdr' = [dhdr EXCEPT ![r] = phdr[r]]
            PROVE  dhdr' = dhdr \/ dhdr' = phdr
        <5>1. dhdr \in [Slots -> Headers \cup {Torn}] /\ phdr \in [Slots -> Headers \cup {Torn}]
          BY <1>1 DEF TypeOK
        <5>2. PICK q \in Slots : dhdr[1 - q] = phdr[1 - q]
          BY <1>1 DEF LogInv, OneDirty
        <5>3. \A x \in Slots : x = q \/ x = 1 - q
          BY DEF Slots
        <5>4. CASE r = q
          <6>1. \A x \in Slots : dhdr'[x] = phdr[x]
            BY <4>3, <5>1, <5>2, <5>3, <5>4
          <6>2. dhdr' \in [Slots -> Headers \cup {Torn}]
            BY <4>3, <5>1
          <6>. QED
            BY <5>1, <6>1, <6>2
        <5>5. CASE r = 1 - q
          <6>1. phdr[r] = dhdr[r]
            BY <5>2, <5>5
          <6>. QED
            BY <4>3, <5>1, <6>1
        <5>. QED
          BY <5>3, <5>4, <5>5
      <4>. QED
        BY <2>8, <4>1, <4>2, <4>3 DEF Writeback
    <3>. QED
      BY <2>3, <2>4, <3>1
  <2>9. CASE PowerLoss
    <3>1. PICK S \in SUBSET {s \in Slots : dhdr[s] # phdr[s]} :
             dhdr' = [s \in Slots |-> IF s \in S THEN Torn ELSE dhdr[s]]
      BY <2>9 DEF PowerLoss
    <3>2. phdr' = dhdr' /\ batch' = <<>> /\ dhdr \in [Slots -> Headers \cup {Torn}]
      BY <1>1, <2>9 DEF PowerLoss, Close, Return, TypeOK
    <3>3. dhdr' = dhdr \/ \E s \in Slots : Spare(dhdr, s) /\ dhdr' = [dhdr EXCEPT ![s] = Torn]
      <4>1. PICK s \in Slots : dhdr[1 - s] = phdr[1 - s] /\ (dhdr[s] # phdr[s] => Spare(dhdr, s))
        BY DEF LogInv, OneDirty
      <4>2. S = {} \/ S = {s}
        <5>1. \A t \in Slots : t = s \/ t = 1 - s
          BY DEF Slots
        <5>2. \A t \in S : t = s
          BY <4>1, <5>1
        <5>. QED
          BY <5>2
      <4>3. CASE S = {}
        BY <3>1, <3>2, <4>3
      <4>4. CASE S = {s}
        <5>1. dhdr' = [t \in Slots |-> IF t = s THEN Torn ELSE dhdr[t]]
          BY <3>1, <4>4
        <5>2. dhdr' = [dhdr EXCEPT ![s] = Torn]
          BY <3>2, <5>1, Zenon
        <5>3. Spare(dhdr, s)
          BY <4>1, <4>4
        <5>. QED
          BY <5>2, <5>3, Zenon
      <4>. QED
        BY <4>2, <4>3, <4>4
    <3>4. B' = B \/ (B' = Torn /\ B = [log |-> <<>>, phase |-> FirstPhase])
      <4>1. B' = Read(dhdr', prec') /\ B = Read(dhdr, prec')
        BY <2>1, <2>2
      <4>. QED
        BY <3>2, <3>3, <4>1, TearSlot
    <3>5. A' = B'
      BY <2>1, <3>2
    <3>6. CASE B' = B
      BY <3>2, <3>5, <3>6 DEF A, B, Log!Next, Log!Revert
    <3>7. CASE B' = Torn /\ B = [log |-> <<>>, phase |-> FirstPhase]
      <4>1. B # Torn => B.log = <<>>
        BY <3>7
      <4>. QED
        BY <3>2, <3>5, <3>7, <4>1 DEF A, B, Log!Next, Log!Spoil
    <3>. QED
      BY <3>4, <3>6, <3>7
  <2>10. CASE open \/ append_batch \/ checkpoint \/ JournalFull \/ WriteRecord \/ Abandon \/ UNCHANGED vars
    BY <2>3, <2>10 DEF open, append_batch, checkpoint, Begin, JournalFull, WriteRecord, Abandon
  <2>11. CASE FlushRecords \/ FlushBatchHeader \/ FlushPhaseHeader
    BY <2>4, <2>11 DEF FlushRecords, FlushBatchHeader, FlushPhaseHeader, Return
  <2>. QED
    BY <2>5, <2>6, <2>7, <2>8, <2>9, <2>10, <2>11 DEF Next, Step, create
<1>. QED
  BY <1>0, <1>2, <1>3, <1>4

\* The file format implements the log of JournalLog, for every capacity: a batch
\* becomes visible whole or not at all, in order, and no crash takes back what is
\* stable.
THEOREM JournalImplementsLog == Spec => ImplementsLog
<1>1. Init => Log!Init
  BY DEF Init, Log!Init, Log!Empty, Version
<1>. QED
  BY <1>1, LogStep, LogInvariant, PTL DEF Spec, ImplementsLog, Log!Spec
=============================================================================
