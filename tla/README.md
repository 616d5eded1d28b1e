# fsx: a TLA+ verification development

fsx is a storage toolkit. Its hard part is the offline shrink of an ext4
filesystem: copy the blocks of the tail elsewhere, switch their owners, release
them, shorten the filesystem, shorten the partition, and survive a crash at any
point. A transaction journal says how far the operation got. Around it are
tools that copy whole devices (clone, image, scrub), on two kinds of worker
pools, and that edit partition tables with an undo file.

## Inventory

| Part | State | Operations | What is hard |
|---|---|---|---|
| transaction journal | two headers, records, phase | create, open, append_batch, checkpoint | torn writes, unflushed headers, reopening |
| relocation planning | none | build_owner_relocation_plan | destinations free and disjoint, straddling extents |
| staging | copies on the device, journal | stage_relocation | worker copies, pause and resume |
| commit | bitmaps, descriptors, owners, clean flag | commit_staged_relocation | crash between reserve, switch, release |
| validation, recovery | none | validate_journal_semantics, assess_recovery | accepts every journal a legal run leaves |
| shrink finalize, grow | superblock and copies, last group | finalize_metadata_only_shrink, grow_within_last_group | crash between size and bitmap |
| GPT, MBR, sync | redundant tables, undo files | write_pair, resize, repair, restore, sync | the two sides disagreeing |
| worker pools | queue, condition variables | submit, worker_loop, drain, stop | lost wakeups, shutdown |
| publication | temporary and final names | publish_file_noreplace | crash between link and fsync |
| image | output file, target | create, verify, restore | partial output, damage, a medium that stores wrongly |
| clone, scrub | target, futures, checksum | clone_device, scrub_read | tasks in flight at an error, a live source, a medium that stores wrongly, order |
| safety | lock, kernel tables | require_offline_for_write, require_nonoverlapping_devices | stacked devices, check then use |

The journal is used by staging, commit, shrink and partition sync; staging and
commit share the plan; sync requires the filesystem to be smaller first. Clone
runs on a `TaskPool` and scrub on an `AsyncIoScheduler`; image creation, the MBR
and the GPT sidecar publish files in the same way; everything that writes a
device asks the safety checks first.

## Modules

- `JournalLog`: what the journal promises. A log seen in two versions, what a
  reader would load now and what would be left after a power loss.
- `Journal`: the file. Header slots and records on the disk and in the page
  cache, one action per write and per flush of `append_batch` and `checkpoint`,
  and process death, partial writes, write-back and power loss between any two.
  A CRC check is the test "is not `Torn`"; identity fields never change and are
  left out. Callers drop the handle on the first error, as those in the code do.
- `JournalProofs`: the proofs.
- `RelocationPlan`: planning, as operators on sets of blocks.
- `Relocation`: staging and commit on a device of cells, a cell being what one
  `write_exact` replaces. `cache` is what processes read, `disk` what was last
  flushed. The journal is the state the validator folds it into, since `Journal`
  shows an append happens whole or not at all. `pc` names the next step of the
  running command. The constant `KeepsPlan` tells a caller that retries with the
  plan it holds (the tests) from the commands, which rebuild it each time.
- `Resize`: the superblock and its copies, the last group's descriptor and its
  copies, and the group's bitmap, as cells of the same kind of device. One action
  per stretch between two flushes of `finalize_metadata_only_shrink` and
  `grow_within_last_group`; the cells of a stretch are written one by one. A
  commit with nothing left to move, `repair_metadata_counters` and
  `set_volume_label` run between attempts. Mount, crashed mount and fsck are
  external. Reserved blocks and the label's text are left out.
- `Gpt`: the two copies of the partition table, an entry array and a header each.
  `todo` is what `write_pair` or `restore_metadata` still has to write and flush.
  A header holds the table its checksum was made for.
- `PartitionSync`: composes `Gpt` with the filesystem's size, the kernel's idea of
  the table and the phase of the shrink journal.
- `TaskPool`: the queue, the workers and the two condition variables. A stretch
  under the mutex is one step, a notification after it a step of its own; a
  waiting thread goes on when it is notified or for no reason. Every pool of the
  program is a local of the function that submits to it, so one thread, the
  owner, submits and later runs the destructor.
- `Safety`: the checks before a device is written, as operators over disks,
  partitions and stacked devices, and, apart from the code, which storage two
  devices share and when one is in use.
- `Clone`: `clone_device` on `TaskPool`, with the checks of `Safety`. Source and
  target are sectors; a sector of the source has a version. The owner thread, the
  workers, somebody who writes the source, and the user who interrupts. `target`
  is the page cache, which writes and reads go through (`BlockDevice` opens
  without `O_DIRECT`), `dtarget` the medium. The flush stores every sector on it,
  some of them wrongly; of these, `uncached` are those whose pages leave the cache
  before they are compared, so that the medium is read (`Reads`).
- `IoScheduler`: the scheduler's queue, count of active requests and three
  condition variables. Several clients call it at once, one may stop it.
- `Scrub`: `scrub_read` on `IoScheduler`, next to a thread that submits and one
  that stops the scheduler, as its tests have them. A checksum is the data it is
  of, in order.
- `Publish`: a directory with names and contents, now and on stable storage, and
  `publish_file_noreplace` on it, by rename or by link and unlink.
- `Image`: image creation, verification and restoration on `Publish`. A record is
  the data its checksum is of; a stored image may be damaged. The target of a
  restore has a page cache and a medium as in `Clone`.
- `Mbr`: `resize_partition` with its undo file on `Publish`, and `restore_sector`.
  `validate` sorts the ranges and compares each with the one before it; here
  `Neighbours` are the pairs that follow one another in that order.
- `Artifacts`: composes `Image` and `Mbr` in one directory.
- `CloneOwnerProofs`: the proofs about the pool and about the owner thread of a
  clone. `CloneProofs`: those about its workers, and the theorems. They are apart
  because the prover slows down with the number of obligations in a module.
- `ScrubProofs`: the proofs about scrub and the scheduler.
- `ArtifactsProofs`: the proofs about publication, images and the MBR.
- `ResizeCommandProofs`: the inductive invariant of `Resize` and the commands that
  keep it. `ResizeProofs`: repair, mounts and fsck, and the theorems.
- `PartitionSyncProofs`: the proofs about the partition table and its
  synchronization with a filesystem.
- `MCJournal`, `MCRelocation`, `MCResize`, `MCPartitionSync`, `MCClone`, `MCScrub`,
  `MCArtifacts`: values for the constants.

`Worlds`, in `Resize` and `PartitionSync`, lists sets of commands and failures; a
behaviour has those of one set. It keeps apart the mixtures under which a
property is known not to hold, named below.

## Runs

| Run | Result | Shows |
|---|---|---|
| journal | pass | acknowledged records and phases survive; the file implements `JournalLog` |
| journal_reopen | violated | two torn first appends destroy both headers |
| relocation | pass | contents, ownership, release order and the meaning of `compacted`, under cancellations, errors, kills and power losses mixed |
| relocation_pauses | pass | a caller that keeps its plan always finishes |
| relocation_resume | violated | the commands refuse to resume a partly made commit |
| resize | pass | clean means exact counters and bitmap; files stay inside; the size a clean superblock shows is durable; clean copies agree |
| partition_sync | pass | one valid table or a sidecar always exists; a reader finds an old or a new table whole; the partition holds the filesystem; complete means cut |
| partition_split | violated | interrupted between the two copies, no command finishes the cut |
| partition_degraded | violated | a resize overwrites the only valid copy first |
| clone | pass | a clone that reports success is exact on the medium, wherever the comparison read the medium; no wakeup of the pool is lost and no task outlives it; only safe requests are admitted; it returns |
| scrub | pass | no wakeup of the scheduler is lost, `active_` is exact, a stop leaves nothing behind; a clean scrub has read everything in every pass, in order; every future gets ready and the scrub returns |
| artifacts | pass | what was acknowledged stays, what a path names is whole, a restore that reports success is exact on the medium, wherever the read-back read the medium, the original MBR can be had back, no table overlaps |

Five more configurations are kept; each checks one property and TLC finds it
violated in seconds:

- `tlc -config RelocationClean.cfg MCRelocation`, `CleanIsExact`. The dirty mark
  is written and flushed only when the superblock reads clean
  (`ext4/mutate.cpp:439`). A kill between the two, a second commit that finds the
  mark in the page cache, and a power loss leave a changed bitmap under a clean
  superblock. "Never advertise a mutated filesystem as clean before post-mutation
  verification succeeds" (docs/SAFETY.md:14).
- `tlc -config RelocationRemount.cfg MCRelocation`, `FilesIntact`. The commit
  compares a destination with the checksum from staging, never with the source
  (`ext4/mutate.cpp:498`). A file rewritten in between is replaced by its older
  copy. "Never release the only authoritative copy before a verified replacement
  exists" (docs/SAFETY.md:8).
- `tlc -config ResizeRecovery.cfg MCResize`, `FilesFit`. The shrink does not look
  at `needs_recovery` (`ext4/resize.cpp:209`) and cuts off a block that the replay
  of the ext4 journal gives to a file. "Ambiguous/unsupported metadata causes
  refusal, not best-effort mutation" (docs/SAFETY.md:17).
- `tlc -config CloneStacked.cfg MCClone`, `AdmittedIsSafe`. The holders of a
  device are read, those of its partitions are not (`io/safety.cpp:175`), and the
  path of an array in sysfs is not below its members. A disk whose partition is a
  member of an assembled array is admitted as a target. "Linux checks mounts,
  swap, block holders, and active descendants" (docs/SAFETY.md:87).
- `tlc -config RestoreReadback.cfg MCArtifacts`, `RestoredOnMedium`. The read-back
  after the flush is a `pread` on the descriptor that was written
  (`ops/image.cpp:585`), answered from the page cache as long as it has the pages.
  A chunk that the medium stored wrongly passes, and the restore reports success.
  "A successful restore therefore means the target was verified after the
  durability flush" (docs/IMAGE_FORMAT.md:29); "Durable read-back verification"
  (`ops/image.cpp:571`). The comparison of a clone (`ops/clone.cpp:24`) is the same.

`CloneExact` and `RestoreExact` therefore except a sector, or chunk, that is wrong
on the medium and was answered for by the cache. They do say that one which is
read from the medium does not pass.

The run `clone` therefore has stacks on whole disks only. Two more things about
the checks, which it leaves out too: a file system on a whole disk that also has
partitions, since the mount of the disk is not looked for when a partition is
the target; and partitions of a stacked device, which have no `slaves` directory
of their own.

The clean flag (`CleanAfterOneKind`) is claimed only where power losses are not
mixed with commands that end early; `RelocationClean.cfg` shows why. `JournalSound`
is claimed for the commands only: a caller that keeps its plan and fails between
the switch and its record later logs `source_released` without `owner_switched`.
`ReleaseAfterSwitch` likewise: that caller, retrying after a failed flush of the
switch, releases the source while the durable owner still names it.

What the worlds of `resize` and `partition_sync` leave out, because TLC finds the
properties violated there:

- kills, power losses and commits together in `Resize`: the commit does not flush
  a dirty mark it finds already set, as in `RelocationClean.cfg`;
- a shrink after a crashed mount: `ResizeRecovery.cfg`;
- an operator's `part resize` with any failure: `partition_degraded`;
- a kill, a re-read of the table by another program, and a power loss: the
  synchronization finds the cut in the page cache and logs `complete` unflushed;
- a bad sector, a kill and a power loss: an interrupted repair looks done in the
  page cache, and a synchronization starts on a disk with one valid copy;
- a kernel with a stale table and a grow: the filesystem outgrows its partition.

More observations, which no run keeps: a shrink interrupted after its bitmap
write is accepted by no command; a grow interrupted after its bitmap write and
followed by a shrink leaves bits past the end unmarked, and later grows refuse;
`repair_redundancy` refuses when a header field is out of range though the other
copy is valid, and `backup_metadata` publishes a sidecar with a bad protective MBR
that `restore_metadata` refuses. `restore_sector` writes an undo sector also to a
disk that has become GPT since, which `resize_partition` would refuse; and it
takes any table with a signature, overlapping or not, so `TablesSound` is about
sidecars that `resize_partition` wrote. The device lock is taken on the node
that was opened: two commands on a disk and on its partition do not exclude each
other.

In `relocation_pauses` files may be rewritten between commands. It checks the
metadata only; the contents are the subject of `RelocationRemount.cfg`.

Skipping the flush of the staged copies breaks no property here: the flush of
the dirty mark covers the same device, and the commit checks the CRC again.

## Bounds

Journal: three records, batches of one or two, two payloads, two phases: enough
for a batch to be torn in the middle, a checkpoint to follow a batch and the
file to fill. Relocation: thirteen blocks in groups of four, four extents. One
straddles the target, one destination spans two groups, one extent is unwritten,
one is mapped from the inode and two from a tree block that moves as well. Two
workers, so there are two batches. `MaxPauses` bounds cancellations. Trees have
depth one; deeper ones are not covered.

Resize: six blocks in the last group, of which the filesystem has four and the
device five, so a grow can end at the device; one backup copy, so copies can
differ; two mounts, so a file can gain a block and lose it. Partitions: two, on
six blocks, and three other layouts. Two of these differ from the first in one
entry and one in both, so a power loss can mix the entries of two tables. Every
layout holds the filesystem: an operator who asks for less is not the subject.

Clone: five sectors in chunks of two, so the last chunk is short, and a target of
six; two workers, so there are two batches and the second is not full. The queue
holds one task: `clone_device` passes at least four, which two workers with
batches of two never fill, and the smaller one makes the owner wait. (The
theorems hold for every limit.) Two faults, so that an error can meet a
sector stored wrongly, and of two such sectors one can be in the cache and one
not; one write to the source. Requests: every pair of seven devices and a
file, with at most one of them mounted or swapped to.

Scrub: two workers, a queue and a window of two, the smallest the constructor and
`scrub_read` allow, so that with the read of a third thread submissions wait for
space; three chunks, so the window moves, and two passes. One fault.

Artifacts: two paths and two commands that race for them, or one of them run
twice; two chunks, one of zeros; one damaged part or chunk stored wrongly; tables with room
between the partitions, without, and protective. Edits that touch, overlap, fill
the disk and go past its end. Its type invariant `TypeOK` holds too; the run
spends its time on the others.

`CHECK_DEADLOCK FALSE` in the relocation, partition, clone, scrub and artifacts
runs: an operation that is finished, or refused, has no further step. That clone
and scrub do not stop earlier is their `Returns`.

## Fairness

`LiveSpec` assumes that a running command continues (weak fairness), and that an
operator who could commit again and again does so (strong fairness: staging
again is always possible and would otherwise starve it). The code offers no
more: nothing is assumed of cancellations but that they are finitely many.

In `Clone` and `Scrub` every thread that can take a step eventually does (weak
fairness per thread): the operating system schedules it, and reads and writes
return. Nobody has to write the source, interrupt, submit or stop, and a waiting
thread is never assumed to wake for no reason. A call that was begun goes on.

## Proofs

`JournalCorrect` and `AcknowledgedIsDurable` hold for every capacity, batch size
and set of payloads, from `ConstantsAssumption` and `TornAssumption`.
`AckedSurvives` is not inductive: it does not say that the slot about to be
overwritten is not the only good one. `JournalInv` adds that everything is
flushed before a header is overwritten (`Synced`), that the process works from
the newest header (`Current`), that counted records are durable (`Counted`),
that counts grow with sequence numbers (`Monotone`), that headers sit in the
slot of their parity (`Parity`), and that the newest header is durable or its
predecessor is, in the other slot (`Redundant`). The proof has one lemma per way
the file changes.

`JournalImplementsLog` is the refinement: under the mapping in `Journal`, every
step of the file is a step of `JournalLog` or leaves the log alone. The mapping
reads the file as `load` would, now and after a power loss. `LogInv` strengthens
`JournalInv` for it: a header is one of the two of create or in the slot of its
parity (`Placed`), at most one header is not flushed, in a slot whose loss costs
an empty log at most (`OneDirty`), and the records already written are those of
the batch (`Filled`). With it both readings
come down to the newest header and the records in the page cache (`ReadsNewest`),
and a step is then read off the header it writes. `TornAssumption` says besides
that a torn header is no log.

`CloneIsExact`, `CloneLosesNoWakeup` and `CloneLeavesNothing` hold for every
size, chunk size, number of workers, queue limit and number of faults and
rewrites, from `PoolAssumption` and `CloneAssumption`. The pool has an invariant
of its own, `PoolInv`, with one lemma per operation of the class, so that another
user of the pool could take it over: it adds to `NoLostWakeup` what the owner may
be doing and which workers hold a task. `CloneExact` is not inductive: it speaks
of the end. `CloneInv` adds that a task is in one place (`Unique`), that only the
tasks of the current batch are not over (`Outstanding`), which futures are ready
and with what (`Counters`, `Futures`), that what a worker has read of the source,
and what a comparison that passed read of the target, from the page cache or from
the medium, is a value the source has held, and that after the flush the medium
has what was written or has it wrong (`Contents`). So no task of the first loop is
left when the second begins, the target does not change under the comparison, and
a chunk that compared equal stays so. That the chunks
cover the source (`ChunksCover`) is arithmetic. There is one lemma per step of
the owner, the workers and the environment.

`WakeupsKept`, `ActiveCounts`, `StopQuiesces` and `ScrubIsSound` hold for every
number of workers, clients and chunks, every window and queue limit and up to 64
passes, from `SchedulerAssumption` and `ScrubAssumption`. `SchedulerInv` adds to
`NoLostWakeup` and `Accounted` which thread may hold a request (`Held`) and what
is left at each point of a stop (`Ending`). `ScrubInv` adds that a read is in one
place, the queue, a worker or its future (`Once`), that a future that is ready
holds its own chunk (`Ready`), and what `scrub_read` has summed up so far and
against which pass it compared it (`Summed`). The assumptions ask that the other
thread's reads are not those of `scrub_read`, and that no outcome is `None`.

`SuccessIsKept`, `NamedIsWhole`, `RestoredIsExact`, `FirstTableIsKept`,
`DiskTablesAreSound` and the action property `NamesAreForGood` hold for every set
of paths, files, sources, tables and edits and every number of attempts, from
`ArtifactsAssumption`. They share `ArtifactsInv`: a file has no path before its
command publishes it, and a durable name is also the current one (`NamesInv`);
what has a path, or is about to get one, is whole and flushed (`WholeInv`); how
far the image has got (`CreateInv`); what a restore has read back is the
source's, and the medium has what was flushed or has it wrong (`RestoreInv`); and until a durable undo file has the first table, the sector and
every undo file do (`MbrInv`). `PublishKeeps` is about publication alone and
serves both commands. `NamesForGood` is stated with its proof; TLC checks what it implies for
the names that were acknowledged, `AckedKept`.

That `validate` is enough for `TablesSound` is `Validated`. It compares neighbours
only, and the claim is about every pair. Of the ranges that come after a given
one in the order of `std::sort` one is first; it is the neighbour, begins past
the end of the given one, and the others begin no earlier. That there is a first
one (`First`) follows from the least element of a set of numbers (`Least`), which
takes the place of induction. The assumption on `Tables` asks that a protective entry is not empty:
`validate` does not compare entries of type 0xee, and `resize_partition` looks for
them before the edit only among those in use, so that an edit which fills such a
slot is outside of what `TablesSound` says.

`TableIsAtomic`, `PartitionSyncTypes`, `FilesystemHasRoom` and `TableIsNeverLost`
hold for every set of partitions, size of the disk, first table, set of edits,
target and set of worlds, from `GptAssumption` and `SyncAssumption`: `None` is no
table, and an edit leaves at least the target. The argument rests on `TableInv`.
A header always carries the checksum of a table that was asked for (`Image`), on
the disk and in the cache, so whichever cells a power loss keeps, a side that is
valid holds such a table. `Writing` says how far the plan of `write_pair` or
`restore_metadata` has got and what that leaves in the cache and on the disk; it
gives `WrittenIsSound`: at the end both sides hold the goal.

`FilesystemHasRoom` adds `Room`: every table a reader may find has room. A
filesystem that grows is in it only under `GrowAlone`, without edits, restores,
interruptions, power losses and a kernel that does not read the table: nothing in
the code would keep those from cutting off what it grew into.

`TableIsNeverLost` adds `Kept`: there is a side that no failure takes away
(`Robust`). That is the primary until the backup is written and flushed; after
that it is the backup. A repair whose source is the backup rewrites it to what it
is. A cut is accepted only when both sides are sound, but an interrupted command
may have left them unflushed, which is why `Kept` also says which tables need no
cut (`Fits`). `Spared` leaves out edits together with interruption, power loss or
damage, and a world with synchronization and all three of these. It is as wide as
it can be in these terms: TLC finds `NeverLost` violated in each of the four
smallest worlds it leaves out.

`CompleteStaysCut` adds `CutInv`. Once a cut is complete no mixture of flushed and
unflushed cells makes a side valid with a longer partition (`NeverLong`): all its
headers are cut, or all its entries are. That, with the goal of a command that is
writing, is `Settled`, and every step but an edit or a restore keeps it
(`StaysSettled`). What remains is why it holds when `complete` is logged. After a
cut of its own the synchronization has verified and flushed both sides. When it
finds nothing to do, it has only the page cache and the kernel's length of the
device to go by. Without power losses nothing else is ever read, and without
interruptions the cache is the disk when no command runs. With both, `TwoTables` says that there are two tables only, the first and the
cut one, and that the backup is cut before the primary; and then a kernel which
knows of the cut read it from a disk that is settled (`Known`). `Trusted` leaves out
edits and restores, which may undo a cut, and interruption and power loss together
with an unasked re-read or with damage. TLC finds `CompleteIsCut` violated in each
of the four smallest worlds it leaves out.

`ResizeCleanIsExact`, `ResizeFilesFit`, `ResizeDurablySmaller`,
`ResizeCleanCopiesAgree` and `ResizeTypes` hold for every size of the group, the
device, the filesystem and the target, every number of copies and of mounts, and
every set of worlds, from `GeometryAssumption`. They share `ResizeInv`. Its centre
is `Guarded`: while the superblock says clean in the page cache, on the disk of a
machine that may lose power, or in a write still to be made, the metadata is exact
and nothing but the clean flag is in flight. `Files` says what does not depend on
being clean: every bitmap, cached, durable or queued, has the files marked, and no
size cuts one off. `OneSize` and `Smaller` are `CleanCopiesAgree` and
`DurablySmaller`, extended to queued writes. `Flushed` says which commands start
from a device with nothing in flight. `Stages` says how far a shrink, a grow or a
commit has got: from the flushed dirty mark until its last write no copy says clean,
and the last write finds the size and the bitmap it verified. `Begin`, `BeginDirty`
and `BeginAlike` say once what a queue of writes must hold to keep all that; each
step of a command is shown to queue such writes. `Spared` leaves out kills, power
losses and commits together, and a shrink after a crashed mount: the two smallest
worlds in which TLC finds `CleanIsExact` violated.

Only model-checked: the invariants of `Relocation` and its `ReleaseAfterSwitch`.
They rest on the plan: that the destinations are free and disjoint and the
transaction ids those of the moves. The plan is a fold over the sorted extents, and
what a fold computes for every input needs induction over data, which the installed
provers cannot do. `AdmittedIsSafe` does not hold for every graph of devices
(`CloneStacked.cfg`), and is checked for the one of `MCClone`. Liveness (`Returns`, `FuturesReady`, `Completes`)
is out of the prover's reach.

## Not modelled

Filesystem probes (read-only parsing), deep verification (it reads and reports),
CRC and hash arithmetic, identifiers, output formatting, progress, the tuning of
`profile_device`, statistics. `submit_write` of the scheduler, which nothing
calls, and the BSD and macOS branches of the safety checks. That a device is
mounted between the checks and the writes: the kernel decides, and the model
takes the checks as one instant. The recovery assessment, other than through
`CommitResumes`: it turns a phase into advice. A tree block whose entry and
checksum are torn apart by a power loss: a cell is written whole. A checksum that
matches other data by accident. Media that store wrongly, other than the target of
a clone or a restore: staging, commit, resize and the partition tables read back
through the page cache too, and in their modules the disk gets what is flushed.
A filesystem without `metadata_csum`: staging then starts without
`verify_metadata` (`ext4/relocate.cpp:309`), and `rewrite_group_bitmap` compares no
checksum of a bitmap, and of a descriptor only with `gdt_csum`
(`ext4/mutate.cpp:81-91`).
