-------------------------------- MODULE Gpt --------------------------------
(***************************************************************************)
(* The redundant GUID partition table and the commands that write it       *)
(* (src/partition/gpt.cpp): resize_partition, repair_redundancy,           *)
(* backup_metadata and restore_metadata.  A table maps a partition's index *)
(* to its first and last block.  The disk holds it twice, as an entry      *)
(* array and a header with the array's checksum; arrays span several       *)
(* sectors, so each entry is a cell of its own, while one write replaces   *)
(* the whole array.  Module PartitionSync runs these commands and the      *)
(* synchronization with a filesystem.                                      *)
(***************************************************************************)
EXTENDS Integers, Sequences, FiniteSets

CONSTANTS Parts,        \* partition indices in use
          LastUsable,   \* usable blocks are 1..LastUsable
          First,        \* the table at first
          Edits,        \* the tables an operator may ask resize_partition for
          None          \* no sidecar, no table

Layouts == [Parts -> [first : 1..LastUsable, last : 1..LastUsable]]

ASSUME GptAssumption ==
    /\ LastUsable \in Nat \ {0}
    /\ First \in Layouts /\ Edits \subseteq Layouts
    /\ None \notin Layouts

VARIABLES cache,     \* the disk as every process reads it
          disk,      \* the disk as last flushed
          pc,        \* what the running command does next
          todo,      \* writes and flushes it still has to do
          goal,      \* the table it writes
          caller,    \* where it returns to
          sidecar,   \* the published backup: a protective MBR and a table
          kernel,    \* the table the kernel last read
          choices    \* auxiliary: the tables asked for since one was verified,
                     \* and that one

gptVars == <<cache, disk, pc, todo, goal, caller, sidecar, kernel, choices>>

Entry(s, i) == <<"entry", s, i>>
Header(s)   == <<"header", s, 0>>
Mbr         == <<"mbr", "both", 0>>

Cells == {Mbr} \cup {Header(s) : s \in {"primary", "backup"}}
               \cup {Entry(s, i) : s \in {"primary", "backup"}, i \in Parts}

-----------------------------------------------------------------------------
\* Reading an image c of the disk.

Entries(c, s) == [i \in Parts |-> c[Entry(s, i)]]

\* make_header: only the checksum of the entries differs between tables.
HeaderOf(t) == [field |-> "ok", crc |-> t]

ValidUnchecked(c, s) == c[Header(s)].field = "ok"

\* read_side: signature and checksums.  A header field that is out of range is
\* an error before its checksum is looked at.
Readable(c, s) == c[Header(s)].field # "range"
Valid(c, s) == c[Header(s)].field = "ok" /\ c[Header(s)].crc = Entries(c, s)

validate_entries(t) ==
    /\ \A i \in Parts : t[i].first <= LastUsable /\ t[i].last >= 1 /\ t[i].first <= t[i].last
    /\ \A i, j \in Parts : i # j => t[i].last < t[j].first \/ t[j].last < t[i].first

sides_equal(c) == Entries(c, "primary") = Entries(c, "backup")

BothReadable(c) == Readable(c, "primary") /\ Readable(c, "backup")
BothValid(c) == Valid(c, "primary") /\ Valid(c, "backup")
SplitBrain(c) == BothValid(c) /\ ~sides_equal(c)

\* The side the commands work from, and the side firmware and kernel believe.
Canonical(c) ==
    IF Valid(c, "primary") THEN Entries(c, "primary")
    ELSE IF Valid(c, "backup") THEN Entries(c, "backup")
    ELSE None

\* read_redundant_table returns a table.
TableRead(c) ==
    /\ BothReadable(c) /\ Canonical(c) # None /\ ~SplitBrain(c)
    /\ \A s \in {"primary", "backup"} : Valid(c, s) => validate_entries(Entries(c, s))

\* It reports no bad checksum either.
AllSound(c) == TableRead(c) /\ BothValid(c)

DiskOf(t) ==
    [x \in Cells |->
        CASE x[1] = "mbr"    -> TRUE
          [] x[1] = "header" -> HeaderOf(t)
          [] x[1] = "entry"  -> t[x[3]]]

\* A sidecar may be left from an earlier table.
GptInit ==
    /\ cache = DiskOf(First) /\ disk = cache
    /\ pc = "idle" /\ todo = <<>> /\ goal = None /\ caller = "idle"
    /\ sidecar \in {None} \cup {[mbr |-> TRUE, table |-> t] : t \in Edits}
    /\ kernel = First /\ choices = {First}

-----------------------------------------------------------------------------
\* Writing.  A step of todo replaces cells, or flushes.

Flush == [kind |-> "flush"]
Replace(cells) == [kind |-> "write", cells |-> cells]

WriteEntries(s, t) == Replace([x \in {Entry(s, i) : i \in Parts} |-> t[x[3]]])
WriteHeader(s, t) == Replace([x \in {Header(s)} |-> HeaderOf(t)])

Side(s, t) == <<WriteEntries(s, t), WriteHeader(s, t)>>

PairUnflushed(t) == Side("backup", t) \o Side("primary", t) \o <<Flush>>

\* write_pair: the backup side is on the disk before the primary is touched.
Pair(t) == Side("backup", t) \o <<Flush>> \o Side("primary", t) \o <<Flush>>

StartWriting(steps, t, back) ==
    /\ todo' = steps /\ goal' = t /\ caller' = back /\ pc' = "write"
    /\ choices' = choices \cup {t}

Step ==
    /\ pc = "write" /\ todo # <<>>
    /\ IF Head(todo).kind = "flush" THEN disk' = cache /\ UNCHANGED cache
       ELSE LET new == Head(todo).cells
            IN  /\ cache' = [x \in DOMAIN cache |-> IF x \in DOMAIN new THEN new[x] ELSE cache[x]]
                /\ UNCHANGED disk
    /\ todo' = Tail(todo)
    /\ UNCHANGED <<pc, goal, caller, sidecar, kernel, choices>>

\* Back to the caller, or to the command line.
Return(place) == pc' = place /\ todo' = <<>> /\ goal' = None /\ caller' = "idle"

\* The table is read again and BLKRRPART asked for, which may fail.
Verify(reread) ==
    /\ pc = "write" /\ todo = <<>>
    /\ IF AllSound(cache)
       THEN /\ Return(caller)
            /\ choices' = {goal}
            /\ kernel' = IF reread THEN Canonical(cache) ELSE kernel
       ELSE Return("idle") /\ UNCHANGED <<choices, kernel>>
    /\ UNCHANGED <<cache, disk, sidecar>>

-----------------------------------------------------------------------------
\* The commands.

\* One valid side is enough.
MutationAccepts(c) == BothReadable(c) /\ Canonical(c) # None /\ ~SplitBrain(c)

resize_partition(i, range, back) ==
    LET t == [Canonical(cache) EXCEPT ![i] = range]
    IN  /\ MutationAccepts(cache)
        /\ range.first >= 1 /\ range.last <= LastUsable /\ range.first <= range.last
        /\ validate_entries(t)
        /\ StartWriting(Pair(t), t, back)
        /\ UNCHANGED <<cache, disk, sidecar, kernel>>

part_resize ==
    /\ pc = "idle"
    /\ \E t \in Edits, i \in Parts :
          /\ MutationAccepts(cache) /\ t = [Canonical(cache) EXCEPT ![i] = t[i]]
          /\ resize_partition(i, t[i], "idle")

RepairAccepts == MutationAccepts(cache) /\ validate_entries(Canonical(cache))

repair_redundancy ==
    /\ pc = "idle"
    /\ RepairAccepts
    /\ StartWriting(Pair(Canonical(cache)), Canonical(cache), "idle")
    /\ UNCHANGED <<cache, disk, sidecar, kernel>>

\* Published under a name that does not exist yet.  The MBR is copied as it is.
backup_metadata ==
    /\ pc = "idle"
    /\ AllSound(cache) /\ sidecar = None
    /\ sidecar' = [mbr |-> cache[Mbr], table |-> Canonical(cache)]
    /\ UNCHANGED <<cache, disk, pc, todo, goal, caller, kernel, choices>>

\* The sidecar is checked; what is on the disk is not looked at.
restore_metadata ==
    LET t == sidecar.table
    IN  /\ pc = "idle"
        /\ sidecar # None
        /\ sidecar.mbr /\ validate_entries(t)
        /\ StartWriting(Side("backup", t) \o <<Flush>> \o Side("primary", t)
                            \o <<Replace([x \in {Mbr} |-> TRUE]), Flush>>, t, "idle")
        /\ UNCHANGED <<cache, disk, sidecar, kernel>>

-----------------------------------------------------------------------------
\* What the environment does.

Interrupted ==
    /\ pc # "idle"
    /\ Return("idle")
    /\ UNCHANGED <<cache, disk, sidecar, kernel, choices>>

\* Any of the unflushed cells are lost; the machine starts and reads the table.
PowerLoss ==
    /\ \E kept \in SUBSET {x \in DOMAIN cache : cache[x] # disk[x]} :
          cache' = [x \in DOMAIN cache |-> IF x \in kept THEN cache[x] ELSE disk[x]]
    /\ disk' = cache'
    /\ Return("idle")
    /\ kernel' = Canonical(cache')
    /\ UNCHANGED <<sidecar, choices>>

\* The kernel reads the table again on somebody else's request.
Reread ==
    /\ pc = "idle" /\ Canonical(cache) # None
    /\ kernel' = Canonical(cache)
    /\ UNCHANGED <<cache, disk, pc, todo, goal, caller, sidecar, choices>>

\* One sector of an intact table goes bad: in the MBR, an entry array, or a
\* header, whose signature, checksum or a range is then wrong.
Damage ==
    /\ pc = "idle" /\ cache = disk /\ BothValid(cache)
    /\ \/ cache' = [cache EXCEPT ![Mbr] = FALSE]
       \/ \E s \in {"primary", "backup"}, f \in {"sum", "range"} :
             cache' = [cache EXCEPT ![Header(s)].field = f]
       \/ \E s \in {"primary", "backup"}, i \in Parts :
             cache' = [cache EXCEPT ![Entry(s, i)] = [first |-> 0, last |-> 0]]
    /\ disk' = cache'
    /\ UNCHANGED <<pc, todo, goal, caller, sidecar, kernel, choices>>
=============================================================================
