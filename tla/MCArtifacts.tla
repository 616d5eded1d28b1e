---------------------------- MODULE MCArtifacts -----------------------------
(***************************************************************************)
(* Two paths; a source with a chunk of zeros; tables with room between the *)
(* partitions, without, and protective.                                    *)
(***************************************************************************)
EXTENDS Artifacts, TLC

PathSymmetry == Permutations(Paths)

Entry(type, first, sectors) == [type |-> type, first_lba |-> first, sectors |-> sectors]

\* The two commands race for a path, or one of them is run twice.
MCLimits == {[image |-> 1, mbr |-> 1], [image |-> 2, mbr |-> 0], [image |-> 0, mbr |-> 2]}

MCSources == {<<0, 1>>}

MCTables ==
    {<<Entry(131, 1, 2), Entry(131, 5, 2), Entry(0, 0, 0)>>,
     <<Entry(131, 5, 3), Entry(0, 0, 0), Entry(131, 1, 3)>>,
     <<Entry(238, 1, 7), Entry(0, 0, 0), Entry(0, 0, 0)>>}

MCEdits ==
    {[index |-> i, first |-> f, sectors |-> s] : i \in {1}, f \in {1, 4}, s \in {1, 4, 5}}
=============================================================================
