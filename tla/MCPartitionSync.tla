-------------------------- MODULE MCPartitionSync --------------------------
(* Module PartitionSync for TLC: two partitions on six blocks. *)
EXTENDS PartitionSync

Layout(a, b, c, d) == <<[first |-> a, last |-> b], [first |-> c, last |-> d]>>

MCParts == 1..2
MCFirst == Layout(1, 4, 5, 6)
MCEdits == {Layout(1, 3, 5, 6), Layout(1, 3, 4, 6), Layout(1, 4, 6, 6)}

MCWorlds ==
    {{"sync", "interrupt", "power", "stale"}, {"sync", "interrupt", "reread", "stale"},
     {"sync", "grow"}, {"edit", "restore"}, {"restore", "interrupt", "power"},
     {"sync", "damage", "interrupt"}, {"sync", "damage", "power"}}

MCSync == {{"sync", "interrupt"}}

MCEdit == {{"edit", "interrupt"}}
=============================================================================
