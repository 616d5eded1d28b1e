--------------------------- MODULE RelocationPlan ---------------------------
(***************************************************************************)
(* How the blocks to move out of a shrinking tail are chosen and where     *)
(* they go: build_owner_relocation_plan (src/ext4/relocate.cpp) on the     *)
(* allocation graph (src/ext4/allocation.cpp) and the owners that          *)
(* scan_extent_owners found.  An owned extent is a record                  *)
(*    [id, kind, start, length, unwritten]                                 *)
(* where id stands for its inode and logical block, and kind is "data" or  *)
(* "tree" (a block of the extent tree).                                    *)
(***************************************************************************)
EXTENDS Integers, Sequences, FiniteSets, SequencesExt

Range2(start, length) == start .. (start + length - 1)

BlocksOf(x) == Range2(x.start, x.length)

\* build_allocation_graph: the maximal runs of a set of blocks.
Runs(S) ==
    {[start |-> a, length |-> b - a + 1] :
        <<a, b>> \in {p \in S \X S : /\ p[1] <= p[2] /\ (p[1]..p[2]) \subseteq S
                                     /\ p[1] - 1 \notin S /\ p[2] + 1 \notin S}}

\* The free runs below the target, shortest first (ties as scanned).
FreeSlots(free, target) ==
    SetToSortSeq(Runs({b \in free : b < target}),
        LAMBDA r, s : \/ r.length < s.length
                      \/ r.length = s.length /\ r.start < s.start)

NotPlaced == [placed |-> FALSE]

\* The first slot with the least waste; what is left of it stays in place.
allocate_best_fit(slots, length) ==
    LET fits == {i \in DOMAIN slots : slots[i].length >= length}
        best == CHOOSE i \in fits : \A j \in fits :
                    \/ slots[i].length < slots[j].length
                    \/ slots[i].length = slots[j].length /\ i <= j
        left == [start  |-> slots[best].start + length,
                 length |-> slots[best].length - length]
    IN  IF fits = {} THEN NotPlaced
        ELSE [placed |-> TRUE, out |-> slots[best].start,
              slots |-> IF left.length = 0 THEN RemoveAt(slots, best)
                        ELSE [slots EXCEPT ![best] = left]]

ToMoveWhole(owners, target) ==
    LET inTail(k) == {x \in owners : x.kind = k /\ x.start >= target}
    IN  SetToSortSeq(inTail("data"),
            LAMBDA x, y : \/ x.length > y.length
                          \/ x.length = y.length /\ x.start < y.start)
        \o SetToSortSeq(inTail("tree"), LAMBDA x, y : x.id < y.id)

\* The extents that reach into the tail, longest first, then the tree blocks.
ToMove(owners, target) ==
    LET inTail(k) == {x \in owners : x.kind = k /\ x.start + x.length > target}
    IN  SetToSortSeq(inTail("data"),
            LAMBDA x, y : \/ x.length > y.length
                          \/ x.length = y.length /\ x.start < y.start)
        \o SetToSortSeq(inTail("tree"), LAMBDA x, y : x.id < y.id)

\* Transaction ids count the moves of this plan from 1.
Move(txn, x, dst) ==
    [txn |-> txn, id |-> x.id, kind |-> x.kind, src |-> x.start, dst |-> dst,
     length |-> x.length, unwritten |-> x.unwritten]

\* Place one extent after another; the first that does not fit ends the plan.
Place(acc, x) ==
    IF ~acc.placed THEN acc
    ELSE LET fit == allocate_best_fit(acc.slots, x.length)
         IN  IF ~fit.placed THEN [acc EXCEPT !.placed = FALSE]
             ELSE [placed |-> TRUE, slots |-> fit.slots,
                   moves |-> Append(acc.moves, Move(Len(acc.moves) + 1, x, fit.out))]

TailOf(S, target) == {b \in S : b >= target}

\* validate_owner_ranges: no block has two owners.
validate_owner_ranges(owners) ==
    \A x, y \in owners : x # y => BlocksOf(x) \cap BlocksOf(y) = {}

\* Every allocated block of the tail has a known owner.  The counts are
\* compared, as the code does, not the sets.
complete_owner_coverage(owners, alloc, fixed, target) ==
    LET ownedTail == UNION {TailOf(BlocksOf(x), target) : x \in owners}
    IN  Cardinality(TailOf(alloc, target)) <=
            Cardinality(ownedTail) + Cardinality(TailOf(fixed, target))

build_owner_relocation_plan(owners, blocks, alloc, fixed, target) ==
    LET start == [placed |-> TRUE, moves |-> <<>>,
                  slots |-> FreeSlots(blocks \ alloc, target)]
        end   == FoldLeft(Place, start, ToMove(owners, target))
    IN  [moves |-> end.moves,
         destinations_available |-> end.placed,
         complete_owner_coverage |->
             /\ end.placed
             /\ complete_owner_coverage(owners, alloc, fixed, target)]
=============================================================================
