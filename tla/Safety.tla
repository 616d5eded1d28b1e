------------------------------- MODULE Safety -------------------------------
(***************************************************************************)
(* The checks a command makes before it writes to a device                 *)
(* (io/safety.cpp, the Linux branches), over the devices a machine has: a  *)
(* partition lies in the directory of its disk in sysfs, and a stacked     *)
(* device (md, dm) names the devices it is built on in slaves/.            *)
(***************************************************************************)
EXTENDS FiniteSets

CONSTANTS Devices,  \* the block devices
          File,     \* a regular file: no check but the lock applies to it
          Disk,     \* the disk of each partition; every other device is its own
          Slaves    \* what each device is built on; a partition has no slaves/

ASSUME SafetyAssumption ==
    /\ File \notin Devices
    /\ Disk \in [Devices -> Devices] /\ \A d \in Devices : Disk[Disk[d]] = Disk[d]
    /\ Slaves \in [Devices -> SUBSET Devices]
    /\ \A d \in Devices : Disk[d] # d => Slaves[d] = {}

Objects == Devices \cup {File}

\* What the kernel knows of them: mountinfo, /proc/swaps, the locks others hold.
Systems == [mounted : SUBSET Devices, swaps : SUBSET Devices, locked : SUBSET Objects]

\* same_or_descendant, on sysfs paths: one path is a prefix of the other.
same_or_descendant(base, candidate) == candidate = base \/ Disk[candidate] = base

\* What d is built on, d included: the least set that has d and the slaves of
\* its members, which is what collect_backing_devices visits.
Visited ==
    [d \in Devices |->
        {x \in Devices : \A S \in SUBSET Devices :
            (d \in S /\ \A s \in S : Slaves[s] \subseteq S) => x \in S}]

\* collect_backing_devices, backing_set: the visited devices without slaves.
backing_set(d) == {x \in Visited[d] : Slaves[x] = {}}

\* inspect_device_safety, as the fields the callers look at.
inspect_device_safety(d, sys) ==
    LET below == {c \in Devices : c # d /\ same_or_descendant(d, c)}
    IN  [mounted            |-> d \in sys.mounted,
         active_swap        |-> d \in sys.swaps,
         descendant_mounted |-> below \cap sys.mounted # {},
         descendant_swap    |-> below \cap sys.swaps # {},
         has_holders        |-> \E h \in Devices : d \in Slaves[h]]

SelfOnly(d, sys) ==
    d \in Devices /\ LET s == inspect_device_safety(d, sys)
                     IN  s.mounted \/ s.active_swap \/ s.has_holders

Active(d, sys) ==
    d \in Devices /\ LET s == inspect_device_safety(d, sys)
                     IN  \/ s.mounted \/ s.active_swap
                         \/ s.descendant_mounted \/ s.descendant_swap
                         \/ s.has_holders

\* require_offline_for_write: nothing is active, and the lock is had.
require_offline_for_write(d, sys) == ~Active(d, sys) /\ d \notin sys.locked

\* require_nonoverlapping_devices.  A file is compared by its inode only.
require_nonoverlapping_devices(s, t) ==
    /\ s # t
    /\ {s, t} \subseteq Devices =>
          /\ ~same_or_descendant(s, t) /\ ~same_or_descendant(t, s)
          /\ \A a \in backing_set(s), b \in backing_set(t) :
                ~same_or_descendant(a, b) /\ ~same_or_descendant(b, a)

-----------------------------------------------------------------------------
\* What the checks are there to find out, from the devices alone.  The sectors
\* of a disk are those of its partitions and the space around them; a stacked
\* device, and a partition of one, has its sectors on what it is built on.
Extents(d) == {c \in Devices : same_or_descendant(d, c)}
Sectors(d) == UNION {Extents(x) : x \in {y \in Visited[Disk[d]] : Slaves[y] = {}}}
Storage(d) == IF Slaves[Disk[d]] = {} THEN Extents(d) ELSE Sectors(d)

\* No part of the storage of d is mounted, swapped to, or under another device.
InUse(d, sys) ==
    \E x \in Devices : Storage(x) \cap Storage(d) # {} /\
        \/ x \in sys.mounted \/ x \in sys.swaps
        \/ Slaves[x] # {} /\ x \notin Visited[d]
=============================================================================
