----------------------------- MODULE Relocation -----------------------------
(***************************************************************************)
(* Moving the blocks of a shrinking tail: stage_relocation                 *)
(* (src/ext4/relocate.cpp) copies them to free blocks and journals the     *)
(* verified copies, commit_staged_relocation (src/ext4/mutate.cpp)         *)
(* reserves each destination, switches the owner and releases the source.  *)
(*                                                                         *)
(* The device is a function from cells to values, a cell being what one    *)
(* write_exact replaces: a data or extent-tree block, a group's block      *)
(* bitmap, its descriptor, an inode's extent root, the superblock state.   *)
(* Processes see the cache; flush makes it the disk; a power loss keeps    *)
(* any of the cells written since.  The journal is its abstract log        *)
(* (module Journal): an append or checkpoint either happened or did not,   *)
(* and it is kept as the state validate_journal_semantics folds it into.   *)
(* The filesystem has metadata_csum: without it staging starts unchecked,  *)
(* and the checksum of a group's bitmap is not compared before a change.   *)
(***************************************************************************)
EXTENDS Integers, Sequences, FiniteSets, RelocationPlan

CONSTANTS Size,        \* blocks of the filesystem
          GroupSize,   \* blocks per group
          Target,      \* first block of the tail
          Fixed,       \* blocks of fixed metadata
          Extent,      \* the extents: [kind, home, length, holder, unwritten];
                       \* holder 0 is an inode root, else the tree block's id
          Workers,     \* copies in flight
          KeepsPlan,   \* a caller retries with the plan it holds (tests); the
                       \* commands rebuild it each time
          Failures,    \* sets of what may go wrong in one behaviour:
                       \* "error", "kill", "power"
          MaxPauses,   \* bound: cancellation requests
          Remounts     \* whether the files may be rewritten between commands

ASSUME LayoutAssumption ==
    /\ Size \in Nat /\ GroupSize \in Nat \ {0} /\ Target \in 1..(Size - 1)
    /\ Fixed \subseteq 0..(Size - 1)
    /\ Workers \in Nat \ {0} /\ MaxPauses \in Nat
    /\ KeepsPlan \in BOOLEAN /\ Remounts \in BOOLEAN
    /\ Failures \subseteq SUBSET {"error", "kill", "power"}

Ids    == DOMAIN Extent
Blocks == 0..(Size - 1)
Groups == 0..((Size - 1) \div GroupSize)

Super     == <<"super", 0>>
Bitmap(g) == <<"bitmap", g>>
Desc(g)   == <<"desc", g>>
Inode(i)  == <<"inode", i>>
Block(b)  == <<"block", b>>

VARIABLES cache,     \* the device as every process reads it
          disk,      \* the device as last flushed
          jr,        \* the transaction journal
          pc,        \* what the running command does next
          plan,      \* the plan it works from
          verified,  \* stage: transactions whose copy is verified
          batch,     \* stage: moves being copied
          copied,    \* stage: those of the batch already copied
          pos,       \* commit: the move in progress
          todo,      \* cells still to be written before the next flush
          cont,      \* where to continue after that flush
          version,   \* what the file's owner last wrote in each extent
          pauses,    \* cancellation requests so far
          mode       \* the failures of this behaviour

device == <<cache, disk>>
work   == <<verified, batch, copied, pos, todo, cont>>
world  == <<version, pauses, mode>>
vars   == <<device, jr, pc, plan, work, world>>

-----------------------------------------------------------------------------
\* Reading an image c of the device.

GroupBlocks(g) == {b \in Blocks : b \div GroupSize = g}
Alloc(c) == UNION {c[Bitmap(g)] : g \in Groups}

\* Groups whose descriptor (counts and checksums) is not that of the bitmap.
Stale(c) == {g \in Groups : c[Desc(g)] # c[Bitmap(g)]}

IsTree(value) == "ptr" \in DOMAIN value

\* Where extent i starts, through the inode root or its extent-tree block.
StartOf(c, i) ==
    IF Extent[i].holder = 0 THEN c[Inode(i)]
    ELSE c[Block(c[Inode(Extent[i].holder)])].ptr[i]

\* scan_extent_owners fails on a tree block that is not one.
Scannable(c) == \A i \in Ids : Extent[i].kind = "tree" => IsTree(c[Block(c[Inode(i)])])

OwnerOf(c, i) == [id |-> i, kind |-> Extent[i].kind, start |-> StartOf(c, i),
                  length |-> Extent[i].length, unwritten |-> Extent[i].unwritten]
Owners(c) == {OwnerOf(c, i) : i \in Ids}
Owned(c) == UNION {BlocksOf(x) : x \in Owners(c)}

\* The CRC of a range stands for its contents.
Crc(c, start, length) == [k \in 0..(length - 1) |-> c[Block(start + k)]]

Junk == [id |-> 0, k |-> 0, v |-> 0]
DataValue(i, k, v) == [id |-> i, k |-> k, v |-> v]

InitialAlloc == Fixed \cup UNION {Range2(Extent[i].home, Extent[i].length) : i \in Ids}

\* verify_metadata: descriptors agree with bitmaps, and the bitmaps with the
\* free count of the superblock, which a relocation never changes.
verify_metadata(c) ==
    /\ Stale(c) = {}
    /\ Cardinality(Alloc(c)) = Cardinality(InitialAlloc)

InitialBlock(b) ==
    LET at == {i \in Ids : b \in Range2(Extent[i].home, Extent[i].length)}
        i  == CHOOSE i \in at : TRUE
    IN  IF at = {} THEN Junk
        ELSE IF Extent[i].kind = "tree"
             THEN [ptr |-> [j \in {j \in Ids : Extent[j].holder = i} |-> Extent[j].home]]
             ELSE DataValue(i, b - Extent[i].home, 0)

InitialImage ==
    LET Cells == {Super} \cup {Bitmap(g) : g \in Groups} \cup {Desc(g) : g \in Groups}
                 \cup {Block(b) : b \in Blocks}
                 \cup {Inode(i) : i \in {j \in Ids : Extent[j].holder = 0}}
    IN  [c \in Cells |->
            CASE c[1] = "super" -> TRUE
              [] c[1] \in {"bitmap", "desc"} -> InitialAlloc \cap GroupBlocks(c[2])
              [] c[1] = "inode" -> Extent[c[2]].home
              [] c[1] = "block" -> InitialBlock(c[2])]

-----------------------------------------------------------------------------
\* The journal: phase, and per transaction what its records say.

NoMove == [txn |-> 0]
NoTx   == [intent |-> NoMove, verified |-> FALSE, crc |-> <<>>,
           switched |-> FALSE, released |-> FALSE, committed |-> FALSE]
Txns   == 1..Cardinality(Ids)
NoJournal == [exists |-> FALSE, phase |-> "none", sound |-> TRUE,
              tx |-> [t \in Txns |-> NoTx]]

\* The inode whose extent tree names extent i.
InodeOf(i) == IF Extent[i].holder = 0 THEN i ELSE Extent[i].holder

same_geometry(m, n) ==
    /\ m.txn = n.txn /\ m.src = n.src /\ m.dst = n.dst /\ m.length = n.length
    /\ InodeOf(m.id) = InodeOf(n.id)

\* checkpoint(phase)
Checkpoint(phase) == jr' = [jr EXCEPT !.phase = phase]

\* append(move_record(...)); the rule is the one under which
\* validate_journal_semantics adds no error for the record.
LogSwitched(m) ==
    jr' = [jr EXCEPT !.tx[m.txn].switched = TRUE, !.sound = @ /\ jr.tx[m.txn].verified]
LogReleased(m) ==
    jr' = [jr EXCEPT !.tx[m.txn].released = TRUE, !.sound = @ /\ jr.tx[m.txn].switched]
LogCommitted(m) ==
    jr' = [jr EXCEPT !.tx[m.txn].committed = TRUE, !.sound = @ /\ jr.tx[m.txn].verified]

-----------------------------------------------------------------------------
NoPlan == [moves |-> <<>>, destinations_available |-> FALSE,
           complete_owner_coverage |-> FALSE]

NewPlan(c) == build_owner_relocation_plan(Owners(c), Blocks, Alloc(c), Fixed, Target)

Init ==
    /\ cache = InitialImage /\ disk = cache
    /\ jr = NoJournal
    /\ pc = "idle"
    /\ plan = IF KeepsPlan THEN NewPlan(cache) ELSE NoPlan
    /\ verified = {} /\ batch = {} /\ copied = {}
    /\ pos = 1 /\ todo = <<>> /\ cont = "idle"
    /\ version = [i \in Ids |-> 0]
    /\ pauses = 0
    /\ mode \in Failures

\* The command has returned: its locals are gone.
Forget == verified' = {} /\ batch' = {} /\ copied' = {} /\ pos' = 1
          /\ todo' = <<>> /\ cont' = "idle"
Finish == pc' = "idle" /\ Forget

\* Cancellation::requested()
Cancelled == pauses < MaxPauses /\ pauses' = pauses + 1

\* The plan a command works from: rebuilt from the filesystem as it is now,
\* unless the caller kept the one it has.
HasPlan == KeepsPlan /\ plan # NoPlan
ThePlan == IF HasPlan THEN plan ELSE NewPlan(cache)

\* What planning requires, and what both commands require of a plan.
Plannable ==
    /\ \/ HasPlan
       \/ /\ Scannable(cache)
          /\ validate_owner_ranges({x \in Owners(cache) : x.start + x.length > Target})
    /\ ThePlan.complete_owner_coverage

-----------------------------------------------------------------------------
\* stage_relocation

\* A verified-copy record counts again only if the destination still has that
\* CRC.
StillVerified(p) ==
    {t \in Txns : \E m \in ToSet(p.moves) :
        /\ m.txn = t /\ jr.tx[t].verified
        /\ m.unwritten \/ Crc(cache, m.dst, m.length) = jr.tx[t].crc}

IntentsMatch(p) ==
    /\ Cardinality({t \in Txns : jr.tx[t].intent # NoMove}) = Len(p.moves)
    /\ \A m \in ToSet(p.moves) :
          jr.tx[m.txn].intent # NoMove /\ same_geometry(jr.tx[m.txn].intent, m)

\* Whether staging would start or resume.
StageAccepts ==
    /\ Plannable
    /\ ThePlan.moves # <<>>
    /\ cache[Super]
    /\ verify_metadata(cache)
    /\ jr.exists => /\ jr.phase \in {"prepared", "relocating", "paused", "staged"}
                    /\ IntentsMatch(ThePlan)

stage_relocation ==
    /\ pc = "idle"
    /\ StageAccepts
    /\ plan' = ThePlan
    /\ \/ /\ ~jr.exists
          /\ jr' = [NoJournal EXCEPT !.exists = TRUE, !.phase = "prepared"]
          /\ pc' = "intents" /\ verified' = {}
       \/ /\ jr.exists
          /\ pc' = "copy" /\ verified' = StillVerified(plan')
          /\ UNCHANGED jr
    /\ UNCHANGED <<device, batch, copied, pos, todo, cont, world>>

StageIntents ==
    /\ pc = "intents"
    /\ jr' = [jr EXCEPT !.tx = [t \in Txns |->
                  IF t \in DOMAIN plan.moves THEN [NoTx EXCEPT !.intent = plan.moves[t]]
                  ELSE NoTx]]
    /\ pc' = "relocating"
    /\ UNCHANGED <<device, plan, work, world>>

StageRelocating ==
    /\ pc = "relocating"
    /\ Checkpoint("relocating")
    /\ pc' = "copy"
    /\ UNCHANGED <<device, plan, work, world>>

Unverified == SelectSeq(plan.moves, LAMBDA m : m.txn \notin verified)

StageBatch ==
    /\ pc = "copy"
    /\ Unverified # <<>>
    /\ batch' = {Unverified[k] : k \in 1..(IF Workers < Len(Unverified) THEN Workers
                                            ELSE Len(Unverified))}
    /\ copied' = {}
    /\ pc' = "copying"
    /\ UNCHANGED <<device, jr, plan, verified, pos, todo, cont, world>>

ReadFirstChunk(c, m) == [k \in 0..(m.length - 1) |-> c[Block(m.src)]]

\* What copy_one reads chunk by chunk, writes, and takes the CRC of.
ReadSource(c, m) == Crc(c, m.src, m.length)

CopyTo(c, m) ==
    IF m.unwritten THEN c
    ELSE [x \in DOMAIN c |-> IF x[1] = "block" /\ x[2] \in Range2(m.dst, m.length)
                             THEN ReadSource(c, m)[x[2] - m.dst] ELSE c[x]]

\* One worker's copy.  It is a single step: nobody reads the destination of an
\* unfinished one.
copy_one(m) ==
    /\ pc = "copying"
    /\ m \in batch \ copied
    /\ cache' = CopyTo(cache, m)
    /\ copied' = copied \cup {m}
    /\ pc' = IF copied' = batch THEN "flush_copies" ELSE "copying"
    /\ UNCHANGED <<disk, jr, plan, verified, batch, pos, todo, cont, world>>

FlushCopies ==
    /\ pc = "flush_copies"
    /\ disk' = cache
    /\ pc' = "verify"
    /\ UNCHANGED <<cache, jr, plan, work, world>>

\* verify_one rereads every destination; then one append_batch for the batch.  The
\* source is not written between the copies and here, so its checksum is the one
\* that copy_one took; and the destination is read from the page cache, so it is
\* what was written and no mismatch is reported.
StageVerify ==
    /\ pc = "verify"
    /\ \A m \in batch : m.unwritten \/
          Crc(cache, m.dst, m.length) = ReadSource(cache, m)
    /\ jr' = [jr EXCEPT !.tx = [t \in Txns |->
                  IF \E m \in batch : m.txn = t
                  THEN LET m == plan.moves[t]
                       IN  [jr.tx[t] EXCEPT !.verified = TRUE,
                               !.crc = IF m.unwritten THEN <<>>
                                       ELSE Crc(cache, m.dst, m.length)]
                  ELSE jr.tx[t]]]
    /\ verified' = verified \cup {m.txn : m \in batch}
    /\ batch' = {} /\ copied' = {}
    /\ pc' = "copy"
    /\ UNCHANGED <<device, plan, pos, todo, cont, world>>

\* A cancellation request, seen between batches or by a copy.
StagePaused ==
    /\ \/ pc = "copy" /\ Unverified # <<>>
       \/ pc = "copying"
    /\ Cancelled
    /\ Checkpoint("paused")
    /\ Finish
    /\ UNCHANGED <<device, plan, version, mode>>

StageDone ==
    /\ pc = "copy"
    /\ Unverified = <<>>
    /\ Checkpoint("staged")
    /\ Finish
    /\ UNCHANGED <<device, plan, world>>

Stage ==
    \/ stage_relocation \/ StageIntents \/ StageRelocating \/ StageBatch
    \/ \E m \in batch : copy_one(m)
    \/ FlushCopies \/ StageVerify \/ StageDone

-----------------------------------------------------------------------------
\* commit_staged_relocation

\* Write the cells one by one, flush, and go on at the given place.
WriteThen(cells, place) == todo' = cells /\ cont' = place /\ pc' = "write"

CommitRejectsPaused ==
    /\ Plannable
    /\ jr.exists
    /\ jr.phase \in {"staged", "metadata_finalize", "compacted"}

CommitAccepts ==
    /\ Plannable
    /\ jr.exists
    /\ jr.phase \in {"staged", "metadata_finalize", "metadata_paused", "compacted"}
    /\ Cardinality({t \in Txns : jr.tx[t].verified}) >= Len(ThePlan.moves)
    /\ \A m \in ToSet(ThePlan.moves) :
          jr.tx[m.txn].verified /\ same_geometry(jr.tx[m.txn].intent, m)

CommitWithoutDirty ==
    /\ pc = "idle"
    /\ CommitAccepts
    /\ jr.phase # "compacted"
    /\ plan' = ThePlan
    /\ pc' = "begin" /\ UNCHANGED <<todo, cont>>
    /\ UNCHANGED <<device, jr, verified, batch, copied, pos, world>>

\* In phase compacted it returns a report and changes nothing.  The
\* filesystem_marked_dirty record carries no state of a transaction.
commit_staged_relocation ==
    /\ pc = "idle"
    /\ CommitAccepts
    /\ jr.phase # "compacted"
    /\ plan' = ThePlan
    /\ IF cache[Super] THEN WriteThen(<<<<Super, FALSE>>>>, "begin")
       ELSE pc' = "begin" /\ UNCHANGED <<todo, cont>>
    /\ UNCHANGED <<device, jr, verified, batch, copied, pos, world>>

CommitBeginAtZero ==
    /\ pc = "begin"
    /\ Checkpoint("metadata_finalize")
    /\ pos' = 0
    /\ pc' = "move"
    /\ UNCHANGED <<device, plan, verified, batch, copied, todo, cont, world>>

CommitBegin ==
    /\ pc = "begin"
    /\ Checkpoint("metadata_finalize")
    /\ pos' = 1
    /\ pc' = "move"
    /\ UNCHANGED <<device, plan, verified, batch, copied, todo, cont, world>>

\* One cell; rewrite_group_bitmap refuses a group whose checksums are wrong.
Refused == todo[1][1][1] = "bitmap" /\ todo[1][1][2] \in Stale(cache)

Write ==
    /\ pc = "write"
    /\ todo # <<>>
    /\ ~Refused
    /\ cache' = [cache EXCEPT ![todo[1][1]] = todo[1][2]]
    /\ todo' = SubSeq(todo, 2, Len(todo))
    /\ UNCHANGED <<disk, jr, pc, plan, verified, batch, copied, pos, cont, world>>

FlushDeviceSkipped ==
    /\ pc = "write"
    /\ todo = <<>>
    /\ pc' = cont
    /\ UNCHANGED <<device, jr, plan, work, world>>

FlushDevice ==
    /\ pc = "write"
    /\ todo = <<>>
    /\ disk' = cache
    /\ pc' = cont
    /\ UNCHANGED <<cache, jr, plan, work, world>>

\* set_allocation_range: bitmap, then descriptor, of each group in turn.
AllocationCells(range, allocate) ==
    LET new(g) == IF allocate THEN cache[Bitmap(g)] \cup (range \cap GroupBlocks(g))
                  ELSE cache[Bitmap(g)] \ range
        touched == SetToSortSeq({g \in Groups : range \cap GroupBlocks(g) # {}}, <)
    IN  FlattenSeq([k \in DOMAIN touched |->
            <<<<Bitmap(touched[k]), new(touched[k])>>, <<Desc(touched[k]), new(touched[k])>>>>])

TheMove == plan.moves[pos]
Source  == Range2(TheMove.src, TheMove.length)
Dest    == Range2(TheMove.dst, TheMove.length)
Owner   == StartOf(cache, TheMove.id)

\* What is checked before a move touches anything.
MoveSound ==
    /\ Scannable(cache)
    /\ Owner \in {TheMove.src, TheMove.dst}
    /\ Owner = TheMove.src => Source \subseteq Alloc(cache)
    /\ Owner = TheMove.dst => Dest \subseteq Alloc(cache)
    /\ Dest \subseteq Alloc(cache) \/ Dest \cap Alloc(cache) = {}

CommitReserveSkipped ==
    /\ pc = "move" /\ pos <= Len(plan.moves)
    /\ MoveSound
    /\ pc' = "switch"
    /\ UNCHANGED <<device, jr, plan, work, world>>

CommitReserve ==
    /\ pc = "move" /\ pos <= Len(plan.moves)
    /\ MoveSound
    /\ IF Dest \subseteq Alloc(cache) THEN pc' = "switch" /\ UNCHANGED <<todo, cont>>
       ELSE WriteThen(AllocationCells(Dest, TRUE), "switch")
    /\ UNCHANGED <<device, jr, plan, verified, batch, copied, pos, world>>

\* update_data_owner / update_tree_parent: the one cell that names the block.
OwnerCell(m) ==
    LET holder == Extent[m.id].holder
        leaf   == Block(cache[Inode(holder)])
    IN  IF holder = 0 THEN <<Inode(m.id), m.dst>>
        ELSE <<leaf, [cache[leaf] EXCEPT !.ptr[m.id] = m.dst]>>

CopyIntact(m) == m.unwritten \/ Crc(cache, m.dst, m.length) = jr.tx[m.txn].crc

CommitSwitchNoRefresh ==
    /\ pc = "switch"
    /\ \/ /\ Owner = TheMove.src
          /\ TheMove.kind = "data" => CopyIntact(TheMove)
          /\ WriteThen(<<OwnerCell(TheMove)>>, "log_switched")
       \/ /\ Owner # TheMove.src
          /\ pc' = "release" /\ UNCHANGED <<todo, cont>>
    /\ UNCHANGED <<device, jr, plan, verified, batch, copied, pos, world>>

\* A data extent's copy is checked against its record; a tree block has changed
\* since it was staged and is copied again (refresh_tree_copy).
CommitSwitch ==
    /\ pc = "switch"
    /\ \/ /\ Owner = TheMove.src /\ TheMove.kind = "data"
          /\ CopyIntact(TheMove)
          /\ WriteThen(<<OwnerCell(TheMove)>>, "log_switched")
       \/ /\ Owner = TheMove.src /\ TheMove.kind = "tree"
          /\ WriteThen(<<<<Block(TheMove.dst), cache[Block(TheMove.src)]>>>>, "parent")
       \/ /\ Owner # TheMove.src
          /\ pc' = "release" /\ UNCHANGED <<todo, cont>>
    /\ UNCHANGED <<device, jr, plan, verified, batch, copied, pos, world>>

CommitParent ==
    /\ pc = "parent"
    /\ WriteThen(<<OwnerCell(TheMove)>>, "log_switched")
    /\ UNCHANGED <<device, jr, plan, verified, batch, copied, pos, world>>

CommitSwitchedUnlogged ==
    /\ pc = "log_switched"
    /\ pc' = "release"
    /\ UNCHANGED <<device, jr, plan, work, world>>

CommitLogSwitched ==
    /\ pc = "log_switched"
    /\ LogSwitched(TheMove)
    /\ pc' = "release"
    /\ UNCHANGED <<device, plan, work, world>>

CommitRelease ==
    /\ pc = "release"
    /\ \/ /\ Source \cap Alloc(cache) = {}
          /\ pc' = "log_committed" /\ UNCHANGED <<todo, cont>>
       \/ /\ Source \subseteq Alloc(cache)
          /\ WriteThen(AllocationCells(Source, FALSE), "log_released")
    /\ UNCHANGED <<device, jr, plan, verified, batch, copied, pos, world>>

CommitLogReleased ==
    /\ pc = "log_released"
    /\ LogReleased(TheMove)
    /\ pc' = "log_committed"
    /\ UNCHANGED <<device, plan, work, world>>

CommitLogCommitted ==
    /\ pc = "log_committed"
    /\ LogCommitted(TheMove)
    /\ pos' = pos + 1
    /\ pc' = "move"
    /\ UNCHANGED <<device, plan, verified, batch, copied, todo, cont, world>>

CommitPaused ==
    /\ pc = "move" /\ pos <= Len(plan.moves)
    /\ Cancelled
    /\ Checkpoint("metadata_paused")
    /\ Finish
    /\ UNCHANGED <<device, plan, version, mode>>

CommitClean ==
    /\ pc = "move" /\ pos > Len(plan.moves)
    /\ verify_metadata(cache)
    /\ WriteThen(<<<<Super, TRUE>>>>, "compact")
    /\ UNCHANGED <<device, jr, plan, verified, batch, copied, pos, world>>

CommitDone ==
    /\ pc = "compact"
    /\ Checkpoint("compacted")
    /\ Finish
    /\ UNCHANGED <<device, plan, world>>

\* Every check that fails ends the command where it stands.
CommitRefused ==
    /\ \/ pc = "move" /\ pos <= Len(plan.moves) /\ ~MoveSound
       \/ pc = "move" /\ pos > Len(plan.moves) /\ ~verify_metadata(cache)
       \/ pc = "write" /\ todo # <<>> /\ Refused
       \/ pc = "switch" /\ Owner = TheMove.src /\ TheMove.kind = "data" /\ ~CopyIntact(TheMove)
       \/ pc = "release" /\ Source \cap Alloc(cache) # {} /\ ~(Source \subseteq Alloc(cache))
    /\ Finish
    /\ UNCHANGED <<device, jr, plan, world>>

Commit ==
    \/ commit_staged_relocation \/ CommitBegin \/ Write \/ FlushDevice
    \/ CommitReserve \/ CommitSwitch \/ CommitParent \/ CommitLogSwitched
    \/ CommitRelease \/ CommitLogReleased \/ CommitLogCommitted
    \/ CommitClean \/ CommitDone \/ CommitRefused

-----------------------------------------------------------------------------
\* What the environment does.

\* An I/O call or a journal append fails: the command returns an error, the
\* caller still has its plan.  After a failed copy staging tries to leave the
\* journal paused.
IoError ==
    /\ "error" \in mode
    /\ pc # "idle"
    /\ \/ UNCHANGED jr
       \/ pc = "copying" /\ Checkpoint("paused")
    /\ Finish
    /\ UNCHANGED <<device, plan, world>>

Killed ==
    /\ "kill" \in mode
    /\ pc # "idle" \/ plan # NoPlan
    /\ Finish
    /\ plan' = NoPlan
    /\ UNCHANGED <<device, jr, world>>

PowerLoss ==
    /\ "power" \in mode
    /\ \E kept \in SUBSET {x \in DOMAIN cache : cache[x] # disk[x]} :
          cache' = [x \in DOMAIN cache |-> IF x \in kept THEN cache[x] ELSE disk[x]]
    /\ disk' = cache'
    /\ Finish
    /\ plan' = NoPlan
    /\ UNCHANGED <<jr, world>>

\* Between commands a clean filesystem may be mounted, an extent rewritten in
\* place, and the filesystem unmounted again.
Remount ==
    /\ Remounts
    /\ pc = "idle" /\ cache[Super] /\ Scannable(cache)
    /\ \E i \in Ids :
          /\ Extent[i].kind = "data" /\ ~Extent[i].unwritten /\ version[i] = 0
          /\ version' = [version EXCEPT ![i] = 1]
          /\ cache' = [x \in DOMAIN cache |->
                IF x[1] = "block" /\ x[2] \in BlocksOf(OwnerOf(cache, i))
                THEN DataValue(i, x[2] - StartOf(cache, i), 1) ELSE cache[x]]
    /\ disk' = cache'
    /\ UNCHANGED <<jr, pc, plan, work, pauses, mode>>

Next ==
    \/ Stage \/ StagePaused \/ Commit \/ CommitPaused
    \/ IoError \/ Killed \/ PowerLoss \/ Remount

Spec == Init /\ [][Next]_vars

\* A command that runs goes on to its end, and the operator does not only
\* stage again but at some point commits.
LiveSpec == Spec /\ WF_vars(Stage \/ Commit) /\ SF_vars(commit_staged_relocation)

-----------------------------------------------------------------------------
TypeOK ==
    /\ DOMAIN cache = DOMAIN InitialImage /\ DOMAIN disk = DOMAIN cache
    /\ jr.exists \in BOOLEAN /\ jr.sound \in BOOLEAN
    /\ jr.phase \in {"none", "prepared", "relocating", "paused", "staged",
                     "metadata_finalize", "metadata_paused", "compacted"}
    /\ verified \subseteq Txns
    /\ batch \subseteq ToSet(plan.moves) /\ copied \subseteq batch
    /\ pos \in 1..(Len(plan.moves) + 1)
    /\ version \in [Ids -> 0..1] /\ pauses \in 0..MaxPauses /\ mode \in Failures

\* Every extent reads, through the owner metadata as it is on the device, as
\* what was last written to it: at every step, and after every failure.
FilesIntact ==
    /\ Scannable(cache)
    /\ \A i \in Ids : Extent[i].kind = "data" /\ ~Extent[i].unwritten =>
          \A k \in 0..(Extent[i].length - 1) :
              cache[Block(StartOf(cache, i) + k)] = DataValue(i, k, version[i])

\* The block an owner names is allocated and has no second owner: otherwise the
\* next allocation would overwrite it.
OwnersAllocated ==
    Scannable(cache) =>
        /\ Owned(cache) \cup Fixed \subseteq Alloc(cache)
        /\ validate_owner_ranges(Owners(cache))

\* A filesystem marked clean has exact allocation metadata: nothing leaked,
\* every descriptor agreeing with its bitmap ("Never advertise a mutated
\* filesystem as clean before post-mutation verification succeeds").  It fails
\* when a command dies between writing the dirty mark and flushing it: the next
\* one reads the mark from the page cache and does not flush it either, and a
\* power loss can then keep an allocation change and lose the mark.
CleanIsExact ==
    cache[Super] => /\ Alloc(cache) = Owned(cache) \cup Fixed
                    /\ Stale(cache) = {}

\* CleanIsExact holds when power losses are not combined with commands that end
\* early: every mutation is inside a durable dirty mark.
CleanAfterOneKind == ("power" \in mode => mode = {"power"}) => CleanIsExact

\* The phase compacted means what finalization relies on: the tail is empty
\* but for fixed metadata.
CompactedTail ==
    jr.phase = "compacted" => TailOf(Alloc(cache), Target) \subseteq Fixed

\* "Never release the only authoritative copy before a verified replacement
\* exists": a block leaves the bitmap only when the metadata already on the
\* disk, which a power loss would bring back, names it no more.
ReleaseAfterSwitch ==
    [][Scannable(disk) => (Alloc(cache) \ Alloc(cache')) \cap Owned(disk) = {}]_vars

\* validate_journal_semantics finds no error in the journal of a relocation,
\* however often it is interrupted and resumed ("absent intermediate records
\* are warnings rather than hard errors").  This needs the commands' habit of
\* rebuilding the plan: a caller that keeps it and retries after failing
\* between the switch and its record logs source_released without
\* owner_switched, which the validator rejects.
JournalSound == jr.sound

\* "metadata finalization has begun; reconcile on-disk move state and finish
\* forward": an interrupted commit can be resumed.  It cannot through the
\* commands, which rebuild the plan: moves already made have dropped out of
\* it, the others are renumbered and given other destinations.
CommitResumes ==
    pc = "idle" /\ jr.phase \in {"metadata_finalize", "metadata_paused"} => CommitAccepts

\* Whatever is cancelled and resumed, a caller that keeps its plan and commits
\* ends with the tail empty and the filesystem clean.
Completes == <>(jr.phase = "compacted" /\ cache[Super])
=============================================================================
