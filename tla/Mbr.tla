-------------------------------- MODULE Mbr ---------------------------------
(***************************************************************************)
(* fsx mbr resize and restore (partition/mbr.cpp): the table in sector 0,  *)
(* and the undo file that is published before the sector is written.       *)
(*                                                                         *)
(* A table is its entries; an entry is its type, first_lba and sectors.    *)
(* The sector is one write; it is on stable storage after the flush, or    *)
(* earlier if the device writes it back.                                   *)
(***************************************************************************)
EXTENDS Publish

CONSTANTS Mbr,          \* the command
          Entries,      \* the indices of the entries
          DiskSectors,  \* size_bytes / logical_sector
          Tables,       \* what the sector may hold at first
          Edits         \* the index, first and sectors a user may ask for

VARIABLES sector, dsector,  \* sector 0; as it is on stable storage
          edited,           \* b: the sector to be written
          original          \* what the sector held at first

mbrVars == <<sector, dsector, edited, original>>

MbrInit ==
    /\ sector \in Tables /\ dsector = sector /\ original = sector
    /\ edited = None

-----------------------------------------------------------------------------
\* decode: the entries in use, and whether one of them is a GPT protective one.
Used(t) == {i \in Entries : t[i].type # 0 /\ t[i].sectors # 0}
Protective(t) == \E i \in Used(t) : t[i].type = 238  \* 0xee

\* last_lba, in 64 bits: no 32-bit first and sectors overflow it.
last_lba(e) == IF e.sectors = 0 THEN e.first_lba ELSE e.first_lba + e.sectors - 1

\* validate: nothing past the end, and in the order of their first and last
\* sectors no partition begins before the one before it has ended.
Ranges(t) == {<<t[i].first_lba, last_lba(t[i]), i>> : i \in {j \in Used(t) : t[j].type # 238}}

Precedes(a, b) ==
    \/ a[1] < b[1]
    \/ a[1] = b[1] /\ a[2] < b[2]
    \/ a[1] = b[1] /\ a[2] = b[2] /\ a[3] < b[3]

Neighbours(r) ==
    {ab \in r \X r : Precedes(ab[1], ab[2]) /\ ~\E c \in r : Precedes(ab[1], c) /\ Precedes(c, ab[2])}

validateTouching(t) ==
    /\ \A i \in Used(t) : last_lba(t[i]) < DiskSectors
    /\ \A ab \in Neighbours(Ranges(t)) : ab[2][1] >= ab[1][2]

validate(t) ==
    /\ \A i \in Used(t) : last_lba(t[i]) < DiskSectors
    /\ \A ab \in Neighbours(Ranges(t)) : ab[2][1] > ab[1][2]

-----------------------------------------------------------------------------
\* resize_partition, to the temporary file.
ResizeStart(q, e) ==
    LET new == [sector EXCEPT ![e.index].first_lba = e.first, ![e.index].sectors = e.sectors]
    IN  /\ pc[Mbr] = "idle"
        /\ e.sectors # 0
        /\ ~Protective(sector)
        /\ sector[e.index].type # 0
        /\ validate(new)
        /\ edited' = new
        /\ CreateTemp(Mbr, q)
        /\ Goes(Mbr, "undo")
        /\ UNCHANGED <<sector, dsector, original>>

\* The original sector is written to it and flushed.
WriteUndo ==
    /\ pc[Mbr] = "undo"
    /\ WriteTemp(Mbr, sector)
    /\ Goes(Mbr, "flush_undo")
    /\ UNCHANGED mbrVars

FlushUndo ==
    /\ pc[Mbr] = "flush_undo"
    /\ FlushTemp(Mbr)
    /\ Goes(Mbr, "publish")
    /\ UNCHANGED mbrVars

ResizeFails ==
    /\ pc[Mbr] \in {"undo", "flush_undo"}
    /\ Fail(Mbr)
    /\ UNCHANGED mbrVars

ResizePublishes ==
    /\ publish_file_noreplace(Mbr)
    /\ UNCHANGED mbrVars

\* dev.write_exact, or its failure, with or without an effect.
WriteSector ==
    /\ pc[Mbr] = "published"
    /\ \/ sector' = edited /\ Goes(Mbr, "flush_sector")
       \/ sector' \in {sector, edited} /\ Goes(Mbr, "idle")
    /\ UNCHANGED <<dsector, edited, original, dir, ddir, data, ddata, file, path, runs, limit, acked>>

FlushSector ==
    /\ pc[Mbr] = "flush_sector"
    /\ \/ dsector' = sector /\ Succeed(Mbr)
       \/ Goes(Mbr, "idle") /\ UNCHANGED <<dsector, dir, ddir, data, ddata, file, path, runs, limit, acked>>
    /\ UNCHANGED <<sector, edited, original>>

\* restore_sector: a file of one sector with a signature is written back.
RestoreSector(q) ==
    /\ pc[Mbr] = "idle"
    /\ dir[q] # None /\ dir[q][1] = Mbr
    /\ data[dir[q]] # Torn /\ data[dir[q]] # Empty
    /\ \/ sector' = data[dir[q]] /\ dsector' = sector'
       \/ sector' = data[dir[q]] /\ UNCHANGED dsector
    /\ UNCHANGED <<publish, edited, original>>

\* The device writes back what it has cached.
WriteBack ==
    /\ dsector # sector
    /\ dsector' = sector
    /\ UNCHANGED <<publish, sector, edited, original>>

MbrNext ==
    \/ \E q \in Paths, e \in Edits : ResizeStart(q, e)
    \/ WriteUndo \/ FlushUndo \/ ResizeFails \/ ResizePublishes
    \/ WriteSector \/ FlushSector \/ WriteBack
    \/ \E q \in Paths : RestoreSector(q)

MbrLosePower == sector' = dsector /\ UNCHANGED <<dsector, edited, original>>

-----------------------------------------------------------------------------
\* The table the disk had can always be had back: unless the sector still holds
\* it, a durable undo file does ("Publish a durable undo sector before touching
\* the disk", partition/mbr.cpp), whatever runs, failures and crashes there were.
OriginalKept ==
    (sector # original \/ dsector # original) =>
        \E q \in Paths : ddir[q] # None /\ ddir[q][1] = Mbr /\ ddata[ddir[q]] = original

Covers(t, i) == t[i].first_lba .. t[i].first_lba + t[i].sectors - 1

Sound(t) ==
    \A i \in Used(t) : /\ Covers(t, i) \subseteq 0 .. DiskSectors - 1
                       /\ \A j \in Used(t) \ {i} : Covers(t, i) \cap Covers(t, j) = {}

\* No table on the disk or on its way there has partitions that share a sector
\* or lie past the end.
TablesSound == Sound(sector) /\ Sound(dsector)
=============================================================================
