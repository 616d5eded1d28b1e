------------------------------- MODULE Image --------------------------------
(***************************************************************************)
(* fsx image create, verify and restore (ops/image.cpp).                   *)
(*                                                                         *)
(* An image is a header, a record per chunk with its payload (none for a   *)
(* chunk of zeros), and a footer; the header is written a second time with *)
(* the completion bit before the file is flushed and published.  A restore *)
(* checks each record and payload before it writes the chunk, flushes the  *)
(* target, and reads it back against the records.  A published image may   *)
(* be damaged where it is stored; the checksums find out.  The target is   *)
(* written and read through the page cache, so that what its medium stores *)
(* wrongly is found only where the page has left the cache by then.        *)
(***************************************************************************)
EXTENDS Publish, Sequences

CONSTANTS Image,       \* the command that creates images
          Chunks,      \* info.chunks
          Sources,     \* the contents a source may have
          MaxDamage    \* bound: damaged chunks and chunks stored wrongly

VARIABLES source,     \* the data of each chunk of the source
          damage,     \* the damaged records and payloads, by file and chunk
          target,     \* the data of each chunk of the target of a restore, as written
          dtarget,    \* as it is on the medium
          tdirty,     \* the chunks of it that are not flushed
          uncached,   \* the chunks stored wrongly that are read from the medium
          restoring,  \* where the restore is
          from, at,   \* the file it reads and the chunk it is at
          faults

disk == <<target, dtarget, tdirty, uncached>>
restoreVars == <<disk, restoring, from, at>>
imageVars == <<source, damage, restoreVars, faults>>

\* What a target holds that no source does.
Old == -1
Bad == -2

ImageInit ==
    /\ source \in Sources
    /\ damage = {}
    /\ target = [i \in 1 .. Chunks |-> Old] /\ dtarget = target
    /\ tdirty = {} /\ uncached = {}
    /\ restoring = "idle" /\ from = None /\ at = 0
    /\ faults = 0

Content == data[file[Image]]

-----------------------------------------------------------------------------
\* create: lstat, mkstemp, and the header without the completion bit.
CreateStart(q) ==
    /\ pc[Image] = "idle"
    /\ dir[q] = None
    /\ CreateTemp(Image, q)
    /\ Goes(Image, "header")
    /\ UNCHANGED imageVars

WriteHeader ==
    /\ pc[Image] = "header"
    /\ WriteTemp(Image, [complete |-> FALSE, records |-> <<>>, footer |-> FALSE])
    /\ Goes(Image, "chunks")
    /\ UNCHANGED imageVars

\* A record is the data its checksum is of; a chunk of zeros has no payload.
WriteChunk ==
    /\ pc[Image] = "chunks"
    /\ WriteTemp(Image, [Content EXCEPT !.records = Append(@, source[Len(@) + 1])])
    /\ Goes(Image, IF Len(Content.records) + 1 = Chunks THEN "footer" ELSE "chunks")
    /\ UNCHANGED imageVars

WriteFooter ==
    /\ pc[Image] = "footer"
    /\ WriteTemp(Image, [Content EXCEPT !.footer = TRUE])
    /\ Goes(Image, "complete")
    /\ UNCHANGED imageVars

WriteComplete ==
    /\ pc[Image] = "complete"
    /\ WriteTemp(Image, [Content EXCEPT !.complete = TRUE])
    /\ Goes(Image, "flush")
    /\ UNCHANGED imageVars

FlushImageLazy ==
    /\ pc[Image] = "flush"
    /\ Goes(Image, "publish")
    /\ UNCHANGED <<dir, ddir, data, ddata, file, path, runs, limit, acked, imageVars>>

FlushImage ==
    /\ pc[Image] = "flush"
    /\ FlushTemp(Image)
    /\ Goes(Image, "publish")
    /\ UNCHANGED imageVars

\* A read or write fails, or the user cancels.
CreateFails ==
    /\ pc[Image] \in {"header", "chunks", "footer", "complete", "flush"}
    /\ Fail(Image)
    /\ UNCHANGED imageVars

CreatePublishes ==
    /\ publish_file_noreplace(Image) \/ (pc[Image] = "published" /\ Succeed(Image))
    /\ UNCHANGED imageVars

-----------------------------------------------------------------------------
\* parse_header, parse_record and the payload's checksum, parse_footer.
parse_header(f) == data[f] # Torn /\ data[f] # Empty /\ data[f].complete
parse_record(f, i) == i <= Len(data[f].records) /\ <<f, i, "record">> \notin damage
PayloadIntact(f, i) == <<f, i, "payload">> \notin damage
parse_footer(f) == data[f].footer

\* walk_image, as verify calls it.
walk_image(f) ==
    /\ parse_header(f)
    /\ \A i \in 1 .. Chunks : parse_record(f, i) /\ PayloadIntact(f, i)
    /\ Len(data[f].records) = Chunks
    /\ parse_footer(f)

Published(q) == dir[q] # None /\ dir[q][1] = Image

\* A chunk of a published image goes bad where it is stored.
Decay(f, i, what) ==
    /\ faults < MaxDamage
    /\ \E q \in Paths : dir[q] = f /\ f[1] = Image
    /\ (what = "payload") => data[f].records[i] # 0
    /\ damage' = damage \cup {<<f, i, what>>}
    /\ faults' = faults + 1
    /\ UNCHANGED <<publish, source, restoreVars>>

RestoreReturns(r) == restoring' = r /\ UNCHANGED <<disk, from, at>>

\* restore, to the first write: the image is opened and its header checked.
RestoreStart(q) ==
    /\ restoring = "idle"
    /\ Published(q) /\ parse_header(dir[q])
    /\ restoring' = "write" /\ from' = dir[q] /\ at' = 1
    /\ UNCHANGED <<publish, source, damage, disk, faults>>

RestoreWriteUnchecked ==
    /\ restoring = "write"
    /\ IF parse_record(from, at)
       THEN /\ target' = [target EXCEPT ![at] = IF PayloadIntact(from, at) THEN data[from].records[at] ELSE -3]
            /\ tdirty' = tdirty \cup {at}
            /\ at' = at + 1
            /\ restoring' = IF at = Chunks THEN "footer" ELSE "write"
            /\ UNCHANGED <<from, dtarget, uncached>>
       ELSE RestoreReturns("error")
    /\ UNCHANGED <<publish, source, damage, faults>>

\* The write pass.
RestoreWrite ==
    /\ restoring = "write"
    /\ IF parse_record(from, at) /\ PayloadIntact(from, at)
       THEN /\ target' = [target EXCEPT ![at] = data[from].records[at]]
            /\ tdirty' = tdirty \cup {at}
            /\ at' = at + 1
            /\ restoring' = IF at = Chunks THEN "footer" ELSE "write"
            /\ UNCHANGED <<from, dtarget, uncached>>
       ELSE RestoreReturns("error")
    /\ UNCHANGED <<publish, source, damage, faults>>

\* target.flush(): every chunk is stored, those in spoilt wrongly.  The pages of
\* the chunks in gone leave the cache before they are read back.
FlushTarget(spoilt, gone) ==
    /\ Cardinality(spoilt) <= MaxDamage - faults
    /\ faults' = faults + Cardinality(spoilt)
    /\ dtarget' = [i \in 1 .. Chunks |-> IF i \in spoilt THEN Bad ELSE target[i]]
    /\ uncached' = gone /\ tdirty' = {}

\* The footer is read, and the target flushed.
RestoreFlush ==
    /\ restoring = "footer"
    /\ IF parse_footer(from)
       THEN /\ \E spoilt \in SUBSET (1 .. Chunks) : \E gone \in SUBSET spoilt : FlushTarget(spoilt, gone)
            /\ restoring' = "check" /\ at' = 1
            /\ UNCHANGED <<target, from>>
       ELSE RestoreReturns("error") /\ UNCHANGED faults
    /\ UNCHANGED <<publish, source, damage>>

\* target.read_exact: from the page cache where it has the chunk.
ReadBack(i) == IF i \in uncached THEN dtarget[i] ELSE target[i]

\* The read-back pass, against the records only.
RestoreCheck ==
    /\ restoring = "check"
    /\ IF parse_record(from, at) /\ ReadBack(at) = data[from].records[at]
       THEN /\ at' = at + 1
            /\ restoring' = IF at = Chunks THEN "ok" ELSE "check"
            /\ UNCHANGED <<disk, from>>
       ELSE RestoreReturns("error")
    /\ UNCHANGED <<publish, source, damage, faults>>

\* A read, a write or the flush fails, or the user cancels; a write that fails
\* may have stored a part of the chunk.
RestoreFails ==
    /\ restoring \in {"write", "footer", "check"}
    /\ restoring' = "error"
    /\ \/ UNCHANGED <<target, tdirty>>
       \/ /\ restoring = "write" /\ parse_record(from, at) /\ PayloadIntact(from, at)
          /\ target' = [target EXCEPT ![at] = Bad]
          /\ tdirty' = tdirty \cup {at}
    /\ UNCHANGED <<publish, source, damage, dtarget, uncached, from, at, faults>>

ImageNext ==
    \/ \E q \in Paths : CreateStart(q) \/ RestoreStart(q)
    \/ WriteHeader \/ WriteChunk \/ WriteFooter \/ WriteComplete \/ FlushImage
    \/ CreateFails \/ CreatePublishes
    \/ \E f \in Files, i \in 1 .. Chunks, what \in {"record", "payload"} : Decay(f, i, what)
    \/ RestoreWrite \/ RestoreFlush \/ RestoreCheck \/ RestoreFails

\* A restore does not survive a loss of power, nor does the page cache: a chunk
\* that is not flushed was stored, was not, or in part.
ImageLosePower ==
    /\ restoring' = IF restoring \in {"write", "footer", "check"} THEN "error" ELSE restoring
    /\ \E kept \in SUBSET tdirty, torn \in SUBSET tdirty :
          dtarget' = [i \in 1 .. Chunks |-> IF i \in torn THEN Bad ELSE IF i \in kept THEN target[i] ELSE dtarget[i]]
    /\ target' = dtarget' /\ tdirty' = {}
    /\ UNCHANGED <<source, damage, uncached, from, at, faults>>

-----------------------------------------------------------------------------
ImageTypeOK ==
    /\ restoring \in {"idle", "write", "footer", "check", "ok", "error"}
    /\ tdirty \subseteq 1 .. Chunks /\ uncached \subseteq 1 .. Chunks
    /\ from \in Files \cup {None} /\ at \in 0 .. Chunks + 1

\* "A successful restore therefore means the target was verified after the
\* durability flush" (docs/IMAGE_FORMAT.md): its medium holds every chunk of the
\* source that was imaged, whatever decayed in the image meanwhile, but for
\* chunks that the medium stored wrongly while the page cache answered the
\* read-back; one that is read from the medium does not pass.  No restore writes
\* what did not come from the source.
RestoreExact ==
    /\ \A i \in 1 .. Chunks : {target[i], dtarget[i]} \subseteq {Old, Bad, source[i]}
    /\ restoring = "ok" =>
          /\ tdirty = {}
          /\ \A i \in 1 .. Chunks : dtarget[i] = source[i] \/ (dtarget[i] = Bad /\ i \notin uncached)

\* What that sentence is easily read to say, and "Durable read-back verification"
\* (image.cpp:571): after a successful restore the medium holds the source.
RestoredOnMedium == restoring = "ok" => dtarget = source
=============================================================================
