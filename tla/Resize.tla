------------------------------- MODULE Resize -------------------------------
(***************************************************************************)
(* Changing the size of an ext4 filesystem within its last block group:    *)
(* finalize_metadata_only_shrink and grow_within_last_group                *)
(* (src/ext4/resize.cpp), with the commands that may run between their     *)
(* attempts: a commit that has nothing left to move (src/ext4/mutate.cpp), *)
(* repair_metadata_counters and set_volume_label                           *)
(* (src/ext4/maintenance.cpp), and a mount or a check of the filesystem.   *)
(*                                                                         *)
(* Blocks are numbered from the start of the last group; the groups before *)
(* it do not change.  The device is a function from cells to values, as in *)
(* module Relocation: a cell is what one write_exact replaces.  The        *)
(* superblock and the last group's descriptor have a primary copy, 0, and  *)
(* Backups more.                                                           *)
(***************************************************************************)
EXTENDS Integers, Sequences, FiniteSets

CONSTANTS GroupEnd,   \* blocks per group: where the last group may end
          Device,     \* blocks of the containing device
          Size,       \* blocks of the filesystem at first
          Target,     \* the size the shrink journal is for
          Fixed,      \* bitmaps and inode table of the group
          Backups,    \* backup superblocks and descriptor tables
          MaxMounts,  \* bound: mounts between commands
          Worlds      \* sets of what may happen in one behaviour: "interrupt",
                      \* "power", "shrink", "commit", and "crash" of a mount

ASSUME GeometryAssumption ==
    /\ Target \in 1..(Size - 1) /\ Size \in 1..Device /\ Device \in Nat
    /\ GroupEnd \in Nat /\ Size <= GroupEnd
    /\ Fixed \subseteq 0..(Target - 1)
    /\ Backups \in Nat /\ MaxMounts \in Nat
    /\ Worlds \subseteq SUBSET {"interrupt", "power", "shrink", "commit", "crash"}

Bits   == 0..(GroupEnd - 1)
Copies == 0..Backups

Super(k) == <<"super", k>>
Desc(k)  == <<"desc", k>>
Bitmap   == <<"bitmap", 0>>

VARIABLES cache,    \* the device as every process reads it
          disk,     \* the device as last flushed
          phase,    \* phase of the shrink journal
          pc,       \* what the running command does next
          sbraw,    \* the superblock it read, and keeps
          goal,     \* the size it is to reach
          todo,     \* cells still to be written before the next flush
          cont,     \* where to continue after that flush
          owned,    \* the blocks that files own
          pending,  \* blocks that files own once the ext4 journal is replayed
          mounts,   \* mounts so far
          world     \* what may happen in this behaviour

device == <<cache, disk>>
locals == <<sbraw, goal>>
files  == <<owned, pending, mounts, world>>
vars   == <<device, phase, pc, locals, todo, cont, files>>

-----------------------------------------------------------------------------
\* Reading an image c of the device.

SB(c) == c[Super(0)]
End(c) == SB(c).blocks

FreeIn(bits, end) == Cardinality((0..(end - 1)) \ bits)

\* The descriptor of a bitmap: free count, and the checksum, which stands for
\* the bitmap's contents.
DescOf(bits, free) == [free |-> free, crc |-> bits]

verify_metadata(c) ==
    /\ c[Desc(0)].crc = c[Bitmap]
    /\ c[Desc(0)].free = FreeIn(c[Bitmap], End(c))
    /\ SB(c).free = FreeIn(c[Bitmap], End(c))

\* Blocks past the end of the filesystem are marked in the bitmap.
Padding(end) == end..(GroupEnd - 1)

\* The image of a consistent, clean filesystem of this size and contents.
Image(content, end) ==
    LET bits == content \cup Fixed \cup Padding(end)
        free == FreeIn(bits, end)
    IN  [x \in {Bitmap} \cup {Super(k) : k \in Copies} \cup {Desc(k) : k \in Copies} |->
            CASE x[1] = "super"  -> [blocks |-> end, free |-> free,
                                     clean |-> TRUE, recover |-> FALSE]
              [] x[1] = "desc"   -> DescOf(bits, free)
              [] x[1] = "bitmap" -> bits]

NoSuper == [blocks |-> 0, free |-> 0, clean |-> FALSE, recover |-> FALSE]

\* A shrink journal exists: staged, or compacted and then the tail is empty.
Init ==
    /\ owned \in SUBSET ((0..(Size - 1)) \ Fixed)
    /\ phase \in {"staged", "compacted"}
    /\ phase = "compacted" => owned \subseteq 0..(Target - 1)
    /\ cache = Image(owned, Size) /\ disk = cache
    /\ pc = "idle" /\ todo = <<>> /\ cont = "idle"
    /\ sbraw = NoSuper /\ goal = 0
    /\ pending = {} /\ mounts = 0 /\ world \in Worlds

-----------------------------------------------------------------------------
\* Write the cells one by one, flush, and go on at the given place.
WriteThen(cells, place) == todo' = cells /\ cont' = place /\ pc' = "write"

\* write_super_copies, without its flush: the primary first.
SuperCopies(s) == [k \in 1..(Backups + 1) |-> <<Super(k - 1), s>>]

\* write_group_descriptor_raw and write_group_desc_backups.
DescCopies(d) == [k \in 1..(Backups + 1) |-> <<Desc(k - 1), d>>]

Checkpoint(p) == phase' = p

\* The command has returned.
Finish == pc' = "idle" /\ todo' = <<>> /\ cont' = "idle" /\ sbraw' = NoSuper /\ goal' = 0

Write ==
    /\ pc = "write" /\ todo # <<>>
    /\ cache' = [cache EXCEPT ![todo[1][1]] = todo[1][2]]
    /\ todo' = Tail(todo)
    /\ UNCHANGED <<disk, phase, pc, locals, cont, files>>

\* The flush may be the command's last step.
FlushDevice ==
    /\ pc = "write" /\ todo = <<>>
    /\ disk' = cache
    /\ IF cont = "idle" THEN Finish
       ELSE pc' = cont /\ UNCHANGED <<locals, todo, cont>>
    /\ UNCHANGED <<cache, phase, files>>

-----------------------------------------------------------------------------
\* finalize_metadata_only_shrink

\* analyze_shrink_readiness on one group; fixed metadata is below the target.
metadata_only_finalize_possible ==
    /\ Target < End(cache)
    /\ cache[Bitmap] \cap (Target..(End(cache) - 1)) = {}

\* Neither the clean flag nor needs_recovery is looked at.
FinalizeAccepts ==
    /\ metadata_only_finalize_possible
    /\ phase \in {"compacted", "staged"}

finalize_metadata_only_shrink ==
    /\ "shrink" \in world
    /\ pc = "idle"
    /\ FinalizeAccepts
    /\ sbraw' = SB(cache) /\ goal' = Target
    /\ WriteThen(SuperCopies([SB(cache) EXCEPT !.clean = FALSE]), "log_dirty")
    /\ UNCHANGED <<device, phase, files>>

FinalizeLogDirty ==
    /\ pc = "log_dirty"
    /\ Checkpoint("metadata_finalize")
    /\ pc' = "shrink_bitmap"
    /\ UNCHANGED <<device, locals, todo, cont, files>>

Removed == sbraw.blocks - goal

Surplus == goal..(sbraw.blocks - 1)

\* The tail is marked unavailable; the group loses that many free blocks.
FinalizeBitmap ==
    LET bits == cache[Bitmap] \cup Surplus
    IN  /\ pc = "shrink_bitmap"
        /\ cache[Bitmap] \cap Surplus = {} /\ Removed <= cache[Desc(0)].free
        /\ WriteThen(<<<<Bitmap, bits>>>>
                        \o DescCopies(DescOf(bits, cache[Desc(0)].free - Removed)), "shrink_size")
        /\ UNCHANGED <<device, phase, locals, files>>

\* The superblock with the new size.
Shrunk(clean) == [sbraw EXCEPT !.blocks = goal, !.free = @ - Removed, !.clean = clean]

FinalizeSizeShort ==
    /\ pc = "shrink_size"
    /\ Removed <= sbraw.free
    /\ WriteThen(SuperCopies([Shrunk(FALSE) EXCEPT !.blocks = @ - 1]), "shrink_verify")
    /\ UNCHANGED <<device, phase, locals, files>>

FinalizeSizeKeepsState ==
    /\ pc = "shrink_size"
    /\ Removed <= sbraw.free
    /\ WriteThen(SuperCopies(Shrunk(sbraw.clean)), "shrink_verify")
    /\ UNCHANGED <<device, phase, locals, files>>

FinalizeSize ==
    /\ pc = "shrink_size"
    /\ Removed <= sbraw.free
    /\ WriteThen(SuperCopies(Shrunk(FALSE)), "shrink_verify")
    /\ UNCHANGED <<device, phase, locals, files>>

FinalizeCleanUnverified ==
    /\ pc = "shrink_verify"
    /\ WriteThen(SuperCopies(Shrunk(TRUE)), "log_shrunk")
    /\ UNCHANGED <<device, phase, locals, files>>

FinalizeClean ==
    /\ pc = "shrink_verify"
    /\ verify_metadata(cache)
    /\ WriteThen(SuperCopies(Shrunk(TRUE)), "log_shrunk")
    /\ UNCHANGED <<device, phase, locals, files>>

FinalizeDone ==
    /\ pc = "log_shrunk"
    /\ Checkpoint("filesystem_shrunk")
    /\ Finish
    /\ UNCHANGED <<device, files>>

\* A check that fails ends the command where it stands.
FinalizeFails ==
    \/ /\ pc = "shrink_bitmap"
       /\ cache[Bitmap] \cap Surplus # {} \/ Removed > cache[Desc(0)].free
    \/ pc = "shrink_size" /\ Removed > sbraw.free
    \/ pc = "shrink_verify" /\ ~verify_metadata(cache)

FinalizeRefused ==
    /\ FinalizeFails
    /\ Finish
    /\ UNCHANGED <<device, phase, files>>

Finalize ==
    \/ finalize_metadata_only_shrink \/ FinalizeLogDirty \/ FinalizeBitmap
    \/ FinalizeSize \/ FinalizeClean \/ FinalizeDone \/ FinalizeRefused

-----------------------------------------------------------------------------
\* grow_within_last_group

GrowAcceptsUnclean(t) ==
    /\ ~SB(cache).recover
    /\ End(cache) < t /\ t <= Device /\ t <= GroupEnd
    /\ (End(cache)..(t - 1)) \subseteq cache[Bitmap]

GrowAccepts(t) ==
    /\ ~SB(cache).recover /\ SB(cache).clean
    /\ End(cache) < t /\ t <= Device /\ t <= GroupEnd
    /\ (End(cache)..(t - 1)) \subseteq cache[Bitmap]

grow_within_last_group(t) ==
    /\ pc = "idle"
    /\ GrowAccepts(t)
    /\ sbraw' = SB(cache) /\ goal' = t
    /\ WriteThen(SuperCopies([SB(cache) EXCEPT !.clean = FALSE]), "grow_bitmap")
    /\ UNCHANGED <<device, phase, files>>

Added == goal - sbraw.blocks

GrowBitmap ==
    LET bits == cache[Bitmap] \ (sbraw.blocks..(goal - 1))
    IN  /\ pc = "grow_bitmap"
        /\ WriteThen(<<<<Bitmap, bits>>>>
                        \o DescCopies(DescOf(bits, cache[Desc(0)].free + Added)), "grow_size")
        /\ UNCHANGED <<device, phase, locals, files>>

Grown(clean) == [sbraw EXCEPT !.blocks = goal, !.free = @ + Added, !.clean = clean]

GrowSizeKeepsState ==
    /\ pc = "grow_size"
    /\ WriteThen(SuperCopies(Grown(sbraw.clean)), "grow_verify")
    /\ UNCHANGED <<device, phase, locals, files>>

GrowSize ==
    /\ pc = "grow_size"
    /\ WriteThen(SuperCopies(Grown(FALSE)), "grow_verify")
    /\ UNCHANGED <<device, phase, locals, files>>

\* A metadata check that fails ends the command and leaves the mark dirty.
GrowClean ==
    /\ pc = "grow_verify"
    /\ IF verify_metadata(cache)
       THEN WriteThen(SuperCopies(Grown(TRUE)), "idle") /\ UNCHANGED locals
       ELSE Finish
    /\ UNCHANGED <<device, phase, files>>

Grow ==
    \/ \E t \in Bits \cup {GroupEnd} : grow_within_last_group(t)
    \/ GrowBitmap \/ GrowSize \/ GrowClean

-----------------------------------------------------------------------------
\* The other commands that write this metadata.

\* commit_staged_relocation when its plan has no moves: every allocated block
\* of the tail has an owner, and there is none.  (With moves: Relocation.)
CommitAccepts ==
    /\ Target < End(cache) /\ ~SB(cache).recover
    /\ cache[Bitmap] \cap (Target..(End(cache) - 1)) = {}
    /\ owned \subseteq 0..(Target - 1)
    /\ phase \in {"staged", "metadata_finalize", "metadata_paused", "compacted"}

\* mark_filesystem_state writes the primary superblock only.
commit_staged_relocation ==
    /\ "commit" \in world
    /\ pc = "idle"
    /\ CommitAccepts /\ phase # "compacted"
    /\ IF SB(cache).clean
       THEN WriteThen(<<<<Super(0), [SB(cache) EXCEPT !.clean = FALSE]>>>>, "commit_begin")
       ELSE pc' = "commit_begin" /\ UNCHANGED <<todo, cont>>
    /\ UNCHANGED <<device, phase, locals, files>>

CommitBegin ==
    /\ pc = "commit_begin"
    /\ Checkpoint("metadata_finalize")
    /\ pc' = "commit_verify"
    /\ UNCHANGED <<device, locals, todo, cont, files>>

CommitClean ==
    /\ pc = "commit_verify"
    /\ verify_metadata(cache)
    /\ WriteThen(<<<<Super(0), [SB(cache) EXCEPT !.clean = TRUE]>>>>, "commit_done")
    /\ UNCHANGED <<device, phase, locals, files>>

CommitRefused ==
    /\ pc = "commit_verify" /\ ~verify_metadata(cache)
    /\ Finish
    /\ UNCHANGED <<device, phase, files>>

CommitDone ==
    /\ pc = "commit_done"
    /\ Checkpoint("compacted")
    /\ Finish
    /\ UNCHANGED <<device, files>>

Commit ==
    \/ commit_staged_relocation \/ CommitBegin \/ CommitClean \/ CommitRefused \/ CommitDone

\* Counters and checksums again from the bitmap; the clean flag stays as it is.
repair_metadata_counters ==
    LET free == FreeIn(cache[Bitmap], End(cache))
    IN  /\ pc = "idle"
        /\ ~SB(cache).recover
        /\ WriteThen(DescCopies(DescOf(cache[Bitmap], free))
                        \o SuperCopies([SB(cache) EXCEPT !.free = free]), "idle")
        /\ UNCHANGED <<device, phase, locals, files>>

\* The label itself is not modelled; the copies become those of the primary.
set_volume_label ==
    /\ pc = "idle"
    /\ WriteThen(SuperCopies(SB(cache)), "idle")
    /\ UNCHANGED <<device, phase, locals, files>>

-----------------------------------------------------------------------------
\* What the environment does.

\* A call fails or the process is killed: what was written stays in the cache.
Interrupted ==
    /\ "interrupt" \in world
    /\ pc # "idle"
    /\ Finish
    /\ UNCHANGED <<device, phase, files>>

PowerLoss ==
    /\ "power" \in world
    /\ \E kept \in SUBSET {x \in DOMAIN cache : cache[x] # disk[x]} :
          cache' = [x \in DOMAIN cache |-> IF x \in kept THEN cache[x] ELSE disk[x]]
    /\ disk' = cache'
    /\ Finish
    /\ UNCHANGED <<phase, files>>

Mountable == pc = "idle" /\ mounts < MaxMounts /\ SB(cache).clean /\ ~SB(cache).recover

\* A mount in which a file gains or loses a block, and a clean unmount: the
\* bitmap, the primary descriptor and the primary superblock follow.
Mount ==
    /\ Mountable
    /\ \E b \in 0..(End(cache) - 1) :
          LET bits == IF b \in owned THEN cache[Bitmap] \ {b} ELSE cache[Bitmap] \cup {b}
              free == FreeIn(bits, End(cache))
          IN  /\ b \in owned \/ b \notin cache[Bitmap]
              /\ owned' = IF b \in owned THEN owned \ {b} ELSE owned \cup {b}
              /\ cache' = [cache EXCEPT ![Bitmap] = bits, ![Desc(0)] = DescOf(bits, free),
                                        ![Super(0)].free = free]
    /\ disk' = cache'
    /\ mounts' = mounts + 1
    /\ UNCHANGED <<phase, pc, locals, todo, cont, pending, world>>

\* A mount that ends in a crash: a file's new block is in the ext4 journal only.
MountCrash ==
    /\ "crash" \in world
    /\ Mountable
    /\ \E b \in (0..(End(cache) - 1)) \ cache[Bitmap] : pending' = {b}
    /\ cache' = [cache EXCEPT ![Super(0)].recover = TRUE]
    /\ disk' = cache'
    /\ mounts' = mounts + 1
    /\ UNCHANGED <<phase, pc, locals, todo, cont, owned, world>>

\* A filesystem check replays the ext4 journal and rebuilds the rest.
Fsck ==
    /\ pc = "idle"
    /\ ~SB(cache).clean \/ SB(cache).recover
    /\ owned' = owned \cup pending /\ pending' = {}
    /\ cache' = Image(owned', End(cache)) /\ disk' = cache'
    /\ UNCHANGED <<phase, pc, locals, todo, cont, mounts, world>>

Next ==
    \/ Write \/ FlushDevice
    \/ Finalize \/ Grow \/ Commit \/ repair_metadata_counters \/ set_volume_label
    \/ Interrupted \/ PowerLoss \/ Mount \/ MountCrash \/ Fsck

Spec == Init /\ [][Next]_vars

-----------------------------------------------------------------------------
TypeOK ==
    /\ DOMAIN cache = DOMAIN Image({}, Size) /\ DOMAIN disk = DOMAIN cache
    /\ \A c \in {cache, disk} : /\ End(c) \in 1..GroupEnd /\ SB(c).free \in 0..GroupEnd
                                /\ c[Bitmap] \subseteq Bits /\ c[Desc(0)].free \in 0..GroupEnd
    /\ phase \in {"staged", "metadata_finalize", "compacted", "filesystem_shrunk"}
    /\ goal \in 0..GroupEnd /\ mounts \in 0..MaxMounts /\ world \in Worlds

\* "Never advertise a mutated filesystem as clean before post-mutation
\* verification succeeds": inside its end, a clean filesystem has marked exactly
\* what files own and what is fixed, and counters and checksums agree with that;
\* after any interruption, power loss, repair and retry of a shrink or a grow.
CleanIsExact ==
    SB(cache).clean /\ ~SB(cache).recover =>
        /\ verify_metadata(cache)
        /\ cache[Bitmap] \cap (0..(End(cache) - 1)) = owned \cup Fixed

\* "Ambiguous/unsupported metadata causes refusal, not best-effort mutation": no
\* file's block is ever past the end of the filesystem, whatever interrupted
\* shrinks, grows, commits, repairs and mounts came before.  Violated by a shrink
\* after a mount that crashed: finalize, alone among the commands that change allocation, does
\* not refuse a filesystem that needs recovery, and the blocks a replay of the
\* ext4 journal will hand to files still look free to its readiness check.
FilesFit == owned \cup pending \subseteq 0..(End(cache) - 1)

\* "Never shorten a partition before the filesystem is already durably smaller":
\* partition synchronization believes a clean superblock it reads through the
\* cache, so a power loss must not bring back a larger filesystem than that.
DurablySmaller == SB(cache).clean => End(disk) <= End(cache)

\* Superblock copies that say clean agree on the size, whichever of them a
\* power loss or an interrupted write_super_copies left behind: a recovery from
\* a backup never brings back another geometry as clean.
CleanCopiesAgree ==
    \A k, l \in Copies : cache[Super(k)].clean /\ cache[Super(l)].clean =>
        cache[Super(k)].blocks = cache[Super(l)].blocks
=============================================================================
