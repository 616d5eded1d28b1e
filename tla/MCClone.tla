------------------------------ MODULE MCClone -------------------------------
(***************************************************************************)
(* Two disks, one of them partitioned, and a stacked device; every request *)
(* with at most one device mounted or swapped to.                          *)
(***************************************************************************)
EXTENDS Clone

CONSTANTS w1, w2

MCWorkers == {w1, w2}
MCTasks == {"copy", "verify"} \X (0 .. 2)

MCDevices == {"sda", "sda1", "sda2", "sdb", "sdc", "md0", "dm0"}
MCDisk == [d \in MCDevices |-> IF d \in {"sda1", "sda2"} THEN "sda" ELSE d]

\* A stack of two levels on whole disks.
MCSlaves ==
    [d \in MCDevices |-> CASE d = "md0" -> {"sdb", "sdc"} [] d = "dm0" -> {"md0"} [] OTHER -> {}]

\* The same stack with a partition as a member.
MCSlavesPartition ==
    [d \in MCDevices |-> CASE d = "md0" -> {"sda1", "sdc"} [] d = "dm0" -> {"md0"} [] OTHER -> {}]

\* The kernel mounts, and swaps to, neither a member of another device nor a
\* disk by way of its partitions.
Usable == {d \in MCDevices : /\ ~\E h \in MCDevices : d \in Slaves[h]
                             /\ ~\E c \in MCDevices : c # d /\ MCDisk[c] = d}
Some == {{}} \cup {{d} : d \in Usable}

MCSystems == {s \in [mounted : Some, swaps : Some, locked : {{}, {"sda2"}, {"file"}}] :
                 s.mounted = {} \/ s.swaps = {}}

MCRequests ==
    [source : MCDevices \cup {"file"}, target : MCDevices \cup {"file"}, system : MCSystems,
     allow_live_source : BOOLEAN, allow_block_device : BOOLEAN, fits : BOOLEAN]
=============================================================================
