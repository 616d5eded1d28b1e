--------------------------- MODULE PartitionSync ---------------------------
(***************************************************************************)
(* Cutting a partition to the filesystem it contains:                      *)
(* sync_gpt_partition_to_ext4 (src/partition/sync.cpp), among the other    *)
(* commands on the partition table (module Gpt) and a filesystem that may  *)
(* grow again (module Resize shows how it came to be smaller).             *)
(***************************************************************************)
EXTENDS Gpt

CONSTANTS Part,     \* the partition of the filesystem
          Target,   \* the size the shrink journal is for
          Worlds    \* sets of what may happen in one behaviour: the commands "sync",
                    \* "edit", "restore", "grow"; the failures "interrupt", "power",
                    \* "damage"; "stale", a kernel that does not read the table
                    \* when asked, and "reread", one that reads it unasked

SizeOf(t) == t[Part].last - t[Part].first + 1

ASSUME SyncAssumption ==
    /\ Part \in Parts /\ Target \in 1..SizeOf(First)
    /\ \A t \in Edits : Target <= SizeOf(t)
    /\ Worlds \subseteq SUBSET {"sync", "edit", "restore", "grow", "interrupt", "power",
                                "damage", "stale", "reread"}

VARIABLES fs,       \* the filesystem: its size and clean flag
          phase,    \* phase of the shrink journal
          journal,  \* the running synchronization has that journal
          world

syncVars == <<fs, phase, journal, world>>
vars == <<gptVars, syncVars>>

Init ==
    /\ GptInit
    /\ fs = [size |-> Target, clean |-> TRUE]
    /\ phase = "filesystem_shrunk" /\ journal = FALSE
    /\ world \in Worlds

-----------------------------------------------------------------------------
\* sync_gpt_partition_to_ext4

validate_journal ==
    /\ fs.size = Target
    /\ phase \in {"filesystem_shrunk", "partition_pending", "complete"}

\* The device of the filesystem is as long as the kernel's idea of the partition.
SyncAccepts ==
    /\ fs.clean
    /\ AllSound(cache)
    /\ kernel # None /\ SizeOf(kernel) = SizeOf(Canonical(cache))
    /\ fs.size <= SizeOf(Canonical(cache))

Old == Canonical(cache)[Part]

CutShort == [first |-> Old.first, last |-> Old.first + fs.size - 2]

\* The range that holds just the filesystem.
Cut == [first |-> Old.first, last |-> Old.first + fs.size - 1]

\* The partition has that size already.
SyncNothingToDo(log) ==
    /\ pc = "idle" /\ SyncAccepts /\ Cut = Old
    /\ log /\ validate_journal /\ phase # "complete"
    /\ phase' = "complete"
    /\ UNCHANGED <<gptVars, fs, journal, world>>

SyncPendingIsComplete(log) ==
    /\ pc = "idle" /\ SyncAccepts /\ Cut # Old
    /\ log => validate_journal /\ phase # "complete"
    /\ pc' = "sync_resize" /\ journal' = log
    /\ phase' = IF log THEN "complete" ELSE phase
    /\ UNCHANGED <<cache, disk, todo, goal, caller, sidecar, kernel, choices, fs, world>>

\* The intent and the phase partition_pending are logged before the cut.
sync_gpt_partition_to_ext4(log) ==
    /\ pc = "idle" /\ SyncAccepts /\ Cut # Old
    /\ log => validate_journal /\ phase # "complete"
    /\ pc' = "sync_resize" /\ journal' = log
    /\ phase' = IF log THEN "partition_pending" ELSE phase
    /\ UNCHANGED <<cache, disk, todo, goal, caller, sidecar, kernel, choices, fs, world>>

SyncResize ==
    /\ pc = "sync_resize"
    /\ resize_partition(Part, Cut, "sync_done")
    /\ UNCHANGED syncVars

SyncDone ==
    /\ pc = "sync_done"
    /\ Return("idle")
    /\ phase' = IF journal THEN "complete" ELSE phase
    /\ journal' = FALSE
    /\ UNCHANGED <<cache, disk, sidecar, kernel, choices, fs, world>>

Sync ==
    /\ "sync" \in world
    /\ \/ \E log \in BOOLEAN : sync_gpt_partition_to_ext4(log) \/ SyncNothingToDo(log)
       \/ SyncResize \/ SyncDone

-----------------------------------------------------------------------------
\* The other commands on the table, and what the environment does.

Table ==
    /\ \/ Step
       \/ Verify(TRUE)
       \/ "stale" \in world /\ Verify(FALSE)
       \/ "edit" \in world /\ part_resize
       \/ repair_redundancy
       \/ backup_metadata
       \/ "restore" \in world /\ restore_metadata
       \/ "reread" \in world /\ Reread
       \/ "damage" \in world /\ Damage
    /\ UNCHANGED syncVars

Failure ==
    /\ \/ "interrupt" \in world /\ Interrupted
       \/ "power" \in world /\ PowerLoss
    /\ journal' = FALSE
    /\ UNCHANGED <<fs, phase, world>>

\* grow_within_last_group, up to the device; it may stop half-way.
GrowFilesystem ==
    /\ "grow" \in world
    /\ pc = "idle" /\ fs.clean /\ kernel # None
    /\ \E n \in (fs.size + 1)..SizeOf(kernel), c \in BOOLEAN : fs' = [size |-> n, clean |-> c]
    /\ UNCHANGED <<gptVars, phase, journal, world>>

Fsck ==
    /\ pc = "idle" /\ ~fs.clean
    /\ fs' = [fs EXCEPT !.clean = TRUE]
    /\ UNCHANGED <<gptVars, phase, journal, world>>

Next == Sync \/ Table \/ Failure \/ GrowFilesystem \/ Fsck

Spec == Init /\ [][Next]_vars

-----------------------------------------------------------------------------
TypeOK ==
    /\ DOMAIN cache = Cells /\ DOMAIN disk = Cells
    /\ pc \in {"idle", "write", "sync_resize", "sync_done"}
    /\ phase \in {"filesystem_shrunk", "partition_pending", "complete"}
    /\ kernel \in Layouts \cup {None} /\ choices \subseteq Layouts
    /\ fs.size \in Target..LastUsable /\ world \in Worlds

\* "Never release the only authoritative copy before a verified replacement
\* exists": whenever write_pair or restore_metadata is cut off, one of the two
\* copies of the table is valid, or a sidecar holds one.  Violated by
\* resize_partition on a disk of which an interruption left only the backup
\* valid: it takes the backup as its source, and then overwrites it first.
NeverLost == Canonical(cache) # None \/ sidecar # None

\* A reader that takes the primary copy, or else the backup, finds a table that
\* was asked for, the one before or the one being written, never a mixture of
\* the two: after any interruption or power loss in write_pair or restore.
AtomicTable == Canonical(cache) \in choices \cup {None}

\* "Partition synchronization never shortens a containing partition before the
\* filesystem is already smaller": what a reader finds has room for it.
PartitionHoldsFilesystem ==
    Canonical(cache) # None => fs.size <= SizeOf(Canonical(cache))

\* A journal that says complete is not contradicted by the disk: the partition
\* was cut to the target, and no power loss brings the longer one back.
CompleteIsCut ==
    phase = "complete" /\ Canonical(cache) # None => SizeOf(Canonical(cache)) = Target

\* "filesystem size transition committed; recovery must finish forward": when
\* nothing runs, an interrupted synchronization can go on, if need be after a
\* repair of the table or the restore of a sidecar.  Violated between the flush
\* of the backup side and the write of the primary: two valid tables that
\* disagree are refused by every command that would finish the update.
SyncFinishesForward ==
    pc = "idle" /\ phase = "partition_pending" => RepairAccepts \/ sidecar # None
=============================================================================
