------------------------ MODULE PartitionSyncProofs ------------------------
(***************************************************************************)
(* What a reader finds of the partition table is a table that was asked    *)
(* for, and it has room for the filesystem: for every number of partitions *)
(* and blocks, wherever a command is interrupted or power is lost.         *)
(* Once a synchronization is complete, the partition keeps its new size.   *)
(***************************************************************************)
EXTENDS PartitionSync, TLAPS

Sides == {"primary", "backup"}

WriteMbr == Replace([x \in {Mbr} |-> TRUE])

StepsFor(t) ==
    {WriteEntries(s, t) : s \in Sides} \cup {WriteHeader(s, t) : s \in Sides} \cup {WriteMbr, Flush}

\* What write_pair and restore_metadata do, step by step: the latter writes the
\* MBR as well, before it flushes.
IsPlan(p, t) ==
    /\ p \in Seq(StepsFor(t)) /\ Len(p) \in 6..7
    /\ p[1] = WriteEntries("backup", t) /\ p[2] = WriteHeader("backup", t) /\ p[3] = Flush
    /\ p[4] = WriteEntries("primary", t) /\ p[5] = WriteHeader("primary", t)
    /\ Len(p) = 7 => p[6] = WriteMbr
    /\ p[Len(p)] = Flush

\* The part of plan p that is left after j steps.
Rest(p, j) == [i \in 1..(Len(p) - j) |-> p[i + j]]

\* The elements of a concatenation.
Joins(x, a, b) ==
    /\ Len(x) = Len(a) + Len(b)
    /\ \A i \in 1..Len(a) : x[i] = a[i]
    /\ \A i \in 1..Len(b) : x[Len(a) + i] = b[i]

\* So it is with any two sequences.
LEMMA Appended ==
    ASSUME NEW S, NEW a \in Seq(S), NEW b \in Seq(S)
    PROVE  a \o b \in Seq(S) /\ Joins(a \o b, a, b)
BY DEF Joins

\* Both are plans.
LEMMA PlansBegin ==
    ASSUME NEW t
    PROVE  /\ IsPlan(Pair(t), t)
           /\ IsPlan(Side("backup", t) \o <<Flush>> \o Side("primary", t) \o <<WriteMbr, Flush>>, t)
<1>. DEFINE eb == WriteEntries("backup", t)
            hb == WriteHeader("backup", t)
            ep == WriteEntries("primary", t)
            hp == WriteHeader("primary", t)
            m == WriteMbr
            f == Flush
            S == StepsFor(t)
            b == Side("backup", t)
            c == Side("primary", t)
<1>1. eb \in S /\ hb \in S /\ ep \in S /\ hp \in S /\ m \in S /\ f \in S
  BY DEF StepsFor, Sides
<1>2. b = <<eb, hb>> /\ c = <<ep, hp>>
  BY DEF Side
<1>. HIDE DEF eb, hb, ep, hp, m, f, S, b, c
<1>3. b \in Seq(S) /\ Len(b) = 2 /\ b[1] = eb /\ b[2] = hb
  BY <1>1, <1>2
<1>4. c \in Seq(S) /\ Len(c) = 2 /\ c[1] = ep /\ c[2] = hp
  BY <1>1, <1>2
<1>5. /\ <<f>> \in Seq(S) /\ Len(<<f>>) = 1 /\ <<f>>[1] = f
      /\ <<m, f>> \in Seq(S) /\ Len(<<m, f>>) = 2 /\ <<m, f>>[1] = m /\ <<m, f>>[2] = f
  BY <1>1
<1>. DEFINE d == b \o <<f>>
<1>6. d \in Seq(S) /\ Len(d) = 3 /\ d[1] = eb /\ d[2] = hb /\ d[3] = f
  <2>1. d \in Seq(S) /\ Joins(d, b, <<f>>)
    BY <1>3, <1>5, Appended
  <2>. HIDE DEF d
  <2>2. (\A i \in 1..2 : d[i] = b[i]) /\ (\A i \in 1..1 : d[2 + i] = <<f>>[i])
    BY <1>3, <1>5, <2>1 DEF Joins
  <2>3. d[1] = b[1] /\ d[2] = b[2] /\ d[2 + 1] = <<f>>[1]
    BY <2>2
  <2>. QED
    BY <1>3, <1>5, <2>1, <2>3 DEF Joins
<1>. HIDE DEF d
<1>. DEFINE e == d \o c
<1>7. /\ e \in Seq(S) /\ Len(e) = 5 /\ e[1] = eb /\ e[2] = hb /\ e[3] = f
      /\ e[4] = ep /\ e[5] = hp
  <2>0. d \in Seq(S) /\ c \in Seq(S)
    BY <1>4, <1>6
  <2>1. e \in Seq(S) /\ Joins(e, d, c)
    BY <2>0, Appended
  <2>. HIDE DEF e
  <2>2. (\A i \in 1..3 : e[i] = d[i]) /\ (\A i \in 1..2 : e[3 + i] = c[i])
    BY <1>4, <1>6, <2>1 DEF Joins
  <2>3. e[1] = d[1] /\ e[2] = d[2] /\ e[3] = d[3]
    BY <2>2
  <2>4. e[3 + 1] = c[1] /\ e[3 + 2] = c[2]
    BY <2>2
  <2>. QED
    BY <1>4, <1>6, <2>1, <2>3, <2>4 DEF Joins
<1>. HIDE DEF e
<1>. DEFINE p == e \o <<f>>
            q == e \o <<m, f>>
<1>8. /\ p \in Seq(S) /\ Len(p) = 6 /\ p[1] = eb /\ p[2] = hb /\ p[3] = f
      /\ p[4] = ep /\ p[5] = hp /\ p[6] = f
  <2>0. e \in Seq(S) /\ <<f>> \in Seq(S)
    BY <1>5, <1>7
  <2>1. p \in Seq(S) /\ Joins(p, e, <<f>>)
    BY <2>0, Appended, Zenon
  <2>. HIDE DEF p
  <2>2. (\A i \in 1..5 : p[i] = e[i]) /\ (\A i \in 1..1 : p[5 + i] = <<f>>[i])
    BY <1>5, <1>7, <2>1 DEF Joins
  <2>3. p[1] = e[1] /\ p[2] = e[2] /\ p[3] = e[3] /\ p[4] = e[4] /\ p[5] = e[5]
    BY <2>2
  <2>4. p[5 + 1] = <<f>>[1]
    BY <2>2
  <2>. QED
    BY <1>5, <1>7, <2>1, <2>3, <2>4 DEF Joins
<1>9. /\ q \in Seq(S) /\ Len(q) = 7 /\ q[1] = eb /\ q[2] = hb /\ q[3] = f
      /\ q[4] = ep /\ q[5] = hp /\ q[6] = m /\ q[7] = f
  <2>0. e \in Seq(S) /\ <<m, f>> \in Seq(S)
    BY <1>5, <1>7
  <2>1. q \in Seq(S) /\ Joins(q, e, <<m, f>>)
    BY <2>0, Appended, Zenon
  <2>. HIDE DEF q
  <2>2. (\A i \in 1..5 : q[i] = e[i]) /\ (\A i \in 1..2 : q[5 + i] = <<m, f>>[i])
    BY <1>5, <1>7, <2>1 DEF Joins
  <2>3. q[1] = e[1] /\ q[2] = e[2] /\ q[3] = e[3] /\ q[4] = e[4] /\ q[5] = e[5]
    BY <2>2
  <2>4. q[5 + 1] = <<m, f>>[1] /\ q[5 + 2] = <<m, f>>[2]
    BY <2>2
  <2>. QED
    BY <1>5, <1>7, <2>1, <2>3, <2>4 DEF Joins
<1>. HIDE DEF p, q
<1>10. IsPlan(p, t) /\ IsPlan(q, t)
  BY <1>8, <1>9 DEF IsPlan, eb, hb, ep, hp, m, f, S
<1>. QED
  BY <1>10 DEF p, q, e, d, b, c, f, m, Pair

\* One step of a plan.
LEMMA OneStep ==
    ASSUME NEW t, NEW p, IsPlan(p, t), NEW j \in 0..Len(p)
    PROVE  /\ Rest(p, 0) = p
           /\ Rest(p, j) = <<>> <=> j = Len(p)
           /\ j < Len(p) => Head(Rest(p, j)) = p[j + 1] /\ Tail(Rest(p, j)) = Rest(p, j + 1)
<1>1. p \in Seq(StepsFor(t)) /\ Len(p) \in Nat
  BY DEF IsPlan
<1>. DEFINE S == StepsFor(t)
            r == Rest(p, j)
            n == Rest(p, j + 1)
<1>. HIDE DEF S
<1>2. r \in Seq(S) /\ Len(r) = Len(p) - j /\ \A i \in 1..(Len(p) - j) : r[i] = p[i + j]
  BY <1>1 DEF Rest, S
<1>3. Rest(p, 0) = p
  BY <1>1 DEF Rest, S
<1>4. r = <<>> <=> j = Len(p)
  BY <1>1, <1>2
<1>5. ASSUME j < Len(p) PROVE Head(r) = p[j + 1] /\ Tail(r) = n
  <2>1. /\ n \in Seq(S) /\ Len(n) = Len(p) - (j + 1)
        /\ \A i \in 1..(Len(p) - (j + 1)) : n[i] = p[i + (j + 1)]
    BY <1>1, <1>5 DEF Rest, S
  <2>. HIDE DEF r, n
  <2>2. r # <<>> /\ Head(r) = r[1] /\ r[1] = p[j + 1]
    BY <1>1, <1>2, <1>4, <1>5
  <2>3. /\ Tail(r) \in Seq(S) /\ Len(Tail(r)) = Len(r) - 1
        /\ \A i \in 1..(Len(r) - 1) : Tail(r)[i] = r[i + 1]
    BY <1>2, <2>2
  <2>4. \A i \in 1..(Len(r) - 1) : Tail(r)[i] = n[i]
    <3>. TAKE i \in 1..(Len(r) - 1)
    <3>1. i + 1 \in 1..(Len(p) - j) /\ (i + 1) + j = i + (j + 1)
      BY <1>1, <1>2
    <3>. QED
      BY <1>1, <1>2, <2>1, <2>3, <3>1
  <2>5. Tail(r) = n
    <3>. DEFINE x == Tail(r)
    <3>1. /\ x \in Seq(S) /\ n \in Seq(S) /\ Len(x) = Len(n)
          /\ \A i \in 1..Len(x) : x[i] = n[i]
      BY <1>1, <1>2, <2>1, <2>3, <2>4 DEF Joins
    <3>. HIDE DEF x
    <3>2. x = n
      BY <3>1
    <3>. QED
      BY <3>2 DEF x
  <2>. QED
    BY <2>2, <2>5
<1>. QED
  BY <1>3, <1>4, <1>5

-----------------------------------------------------------------------------
Fields == {"ok", "sum", "range"}

\* Both headers of an image have the checksum of a table that was asked for.
Image(c) ==
    /\ c = [x \in Cells |-> c[x]]
    /\ \A s \in Sides : c[Header(s)] \in [field : Fields, crc : choices]

Holds(c, s, t) == \A i \in Parts : c[Entry(s, i)] = t[i]

Plans(t) ==
    {Pair(t), Side("backup", t) \o <<Flush>> \o Side("primary", t) \o <<WriteMbr, Flush>>}

\* How far a command has got after j steps of its plan.
Progress(p, j) ==
    /\ todo = Rest(p, j)
    /\ j >= 1 => Holds(cache, "backup", goal)
    /\ j >= 2 => cache[Header("backup")] = HeaderOf(goal)
    /\ j >= 3 => disk[Header("backup")] = HeaderOf(goal) /\ Holds(disk, "backup", goal)
    /\ j >= 4 => Holds(cache, "primary", goal)
    /\ j >= 5 => cache[Header("primary")] = HeaderOf(goal)
    /\ j = Len(p) => disk = cache

Writing ==
    pc = "write" =>
        /\ goal \in choices /\ validate_entries(goal)
        /\ \E p \in Plans(goal) : \E j \in 0..Len(p) : Progress(p, j)

Types ==
    /\ choices \subseteq Layouts /\ kernel \in Layouts \cup {None}
    /\ sidecar # None => sidecar.table \in Layouts
    /\ pc \in {"idle", "write", "sync_resize", "sync_done"} /\ caller \in {"idle", "sync_done"}
    /\ phase \in {"filesystem_shrunk", "partition_pending", "complete"}
    /\ fs = [size |-> fs.size, clean |-> fs.clean]
    /\ fs.size \in Target..LastUsable /\ world \in Worlds

TableInv == Types /\ Image(cache) /\ Image(disk) /\ Writing

\* The cells are all different.
LEMMA Apart ==
    /\ Mbr \in Cells /\ \A s \in Sides : Header(s) \in Cells /\ Header(s) # Mbr
    /\ \A s \in Sides, i \in Parts : Entry(s, i) \in Cells /\ Entry(s, i) # Mbr
    /\ \A s, r \in Sides : Header(s) = Header(r) => s = r
    /\ \A s, r \in Sides, i \in Parts : Header(s) # Entry(r, i)
    /\ \A s, r \in Sides, i, j \in Parts : Entry(s, i) = Entry(r, j) => s = r /\ i = j
BY DEF Cells, Header, Entry, Mbr, Sides

\* A reader finds a table that was asked for, or none: a side is valid only when
\* its entries are those its header has the checksum of.
LEMMA FindsChosen ==
    ASSUME NEW c, Image(c)
    PROVE  /\ Canonical(c) \in choices \cup {None}
           /\ \A s \in Sides : Valid(c, s) => Entries(c, s) \in choices
<1>1. \A s \in Sides : Valid(c, s) => Entries(c, s) \in choices
  BY DEF Image, Valid
<1>. QED
  BY <1>1 DEF Canonical, Sides

\* An image with the cells of a step replaced.
Put(c, step) ==
    [x \in Cells |-> IF x \in DOMAIN step.cells THEN step.cells[x] ELSE c[x]]

\* What the steps of a plan do to an image.
LEMMA WritesEntries ==
    ASSUME NEW s \in Sides, NEW t, NEW c
    PROVE  /\ WriteEntries(s, t).kind # "flush"
           /\ Holds(Put(c, WriteEntries(s, t)), s, t)
           /\ \A r \in Sides : Put(c, WriteEntries(s, t))[Header(r)] = c[Header(r)]
           /\ \A r \in Sides \ {s}, i \in Parts : Put(c, WriteEntries(s, t))[Entry(r, i)] = c[Entry(r, i)]
<1>. DEFINE new == WriteEntries(s, t).cells
<1>1. /\ DOMAIN new = {Entry(s, i) : i \in Parts}
      /\ \A i \in Parts : new[Entry(s, i)] = t[i]
      /\ WriteEntries(s, t).kind # "flush"
  BY DEF WriteEntries, Replace, Entry
<1>2. \A i \in Parts : Put(c, WriteEntries(s, t))[Entry(s, i)] = t[i]
  BY <1>1, Apart DEF Put
<1>3. \A r \in Sides : Put(c, WriteEntries(s, t))[Header(r)] = c[Header(r)]
  BY <1>1, Apart DEF Put
<1>4. \A r \in Sides \ {s}, i \in Parts : Put(c, WriteEntries(s, t))[Entry(r, i)] = c[Entry(r, i)]
  BY <1>1, Apart DEF Put
<1>. QED
  BY <1>1, <1>2, <1>3, <1>4 DEF Holds

\* A header write changes that header.
LEMMA WritesHeader ==
    ASSUME NEW s \in Sides, NEW t, NEW c
    PROVE  /\ WriteHeader(s, t).kind # "flush"
           /\ Put(c, WriteHeader(s, t))[Header(s)] = HeaderOf(t)
           /\ \A r \in Sides \ {s} : Put(c, WriteHeader(s, t))[Header(r)] = c[Header(r)]
           /\ \A r \in Sides, i \in Parts : Put(c, WriteHeader(s, t))[Entry(r, i)] = c[Entry(r, i)]
<1>1. /\ DOMAIN WriteHeader(s, t).cells = {Header(s)}
      /\ WriteHeader(s, t).cells[Header(s)] = HeaderOf(t)
      /\ WriteHeader(s, t).kind # "flush"
  BY DEF WriteHeader, Replace
<1>. QED
  BY <1>1, Apart DEF Put

\* The MBR is on neither side.
LEMMA WritesMbr ==
    ASSUME NEW c
    PROVE  /\ WriteMbr.kind # "flush"
           /\ \A r \in Sides : Put(c, WriteMbr)[Header(r)] = c[Header(r)]
           /\ \A r \in Sides, i \in Parts : Put(c, WriteMbr)[Entry(r, i)] = c[Entry(r, i)]
<1>1. DOMAIN WriteMbr.cells = {Mbr} /\ WriteMbr.kind # "flush"
  BY DEF WriteMbr, Replace
<1>. QED
  BY <1>1, Apart DEF Put

SameCells(c, d, s) ==
    c[Header(s)] = d[Header(s)] /\ \A i \in Parts : c[Entry(s, i)] = d[Entry(s, i)]

\* A step writes nothing but the goal, and not to the primary side before the
\* first flush; or it flushes.
Effect(j) ==
    /\ \A s \in Sides : /\ \/ \A i \in Parts : cache'[Entry(s, i)] = cache[Entry(s, i)]
                           \/ Holds(cache', s, goal)
                        /\ cache'[Header(s)] \in {cache[Header(s)], HeaderOf(goal)}
    /\ disk' = disk \/ (disk' = cache /\ cache' = cache)
    /\ j < 3 => SameCells(cache', cache, "primary")

\* A step of a plan keeps the invariant, and gets the command one step further.
LEMMA StepGoes ==
    ASSUME TableInv, Step, UNCHANGED syncVars,
           NEW p \in Plans(goal), NEW j \in 0..Len(p), Progress(p, j)
    PROVE  TableInv' /\ Progress(p, j + 1)' /\ j + 1 \in 0..Len(p) /\ Effect(j)
<1>2. Progress(p, j)
  OBVIOUS
<1>3. IsPlan(p, goal)
  BY PlansBegin, Zenon DEF Plans
<1>4. Len(p) \in Nat /\ 6 <= Len(p) /\ Len(p) <= 7
  <2>. DEFINE n == Len(p)
  <2>1. n \in 6..7
    BY <1>3 DEF IsPlan
  <2>. HIDE DEF n
  <2>2. n \in Nat /\ 6 <= n /\ n <= 7
    BY <2>1
  <2>. QED
    BY <2>2 DEF n
<1>4a. todo = Rest(p, j) /\ todo # <<>> /\ todo' = Tail(todo)
  BY <1>2 DEF Progress, Step
<1>4b. j < Len(p)
  <2>1. j # Len(p)
    BY <1>3, <1>4a, OneStep
  <2>. QED
    BY <1>4, <2>1
<1>4c. Head(todo) = p[j + 1] /\ todo' = Rest(p, j + 1)
  BY <1>3, <1>4a, <1>4b, OneStep
<1>5. /\ UNCHANGED <<pc, goal, caller, sidecar, kernel, choices, fs, phase, journal, world>>
      /\ pc = "write"
      /\ \/ Head(todo).kind = "flush" /\ disk' = cache /\ cache' = cache
         \/ /\ Head(todo).kind # "flush" /\ disk' = disk
            /\ cache' = Put(cache, Head(todo))
  <2>1. DOMAIN cache = Cells
    BY DEF TableInv, Image
  <2>. QED
    BY <2>1 DEF Step, syncVars, Put
<1>6. Types'
  BY <1>5 DEF TableInv, Types
<1>7. /\ goal \in choices /\ goal' \in choices' /\ validate_entries(goal)'
      /\ HeaderOf(goal) \in [field : Fields, crc : choices]
  BY <1>5 DEF TableInv, Writing, validate_entries, HeaderOf, Fields
<1>8. ASSUME Progress(p, j + 1)', Image(cache)', Image(disk)' PROVE TableInv'
  <2>1. p \in Plans(goal') /\ j + 1 \in 0..Len(p)
    BY <1>4, <1>4b, <1>4c, <1>5
  <2>. QED
    BY <1>6, <1>7, <1>8, <2>1 DEF TableInv, Writing
<1>9. Image(cache)' /\ Image(disk)'
  <2>1. \A s \in Sides : Header(s) \in Cells
    BY Apart
  <2>2. CASE Head(todo).kind = "flush"
    BY <1>5, <2>2, SMTT(30) DEF Image, TableInv
  <2>3. CASE Head(todo).kind # "flush"
    <3>1. \A s \in Sides : cache'[Header(s)] \in {cache[Header(s)], HeaderOf(goal)}
      <4>1. Head(todo) \in StepsFor(goal)
        BY <1>3, <1>4, <1>4b, <1>4c DEF IsPlan
      <4>2. CASE \E r \in Sides : Head(todo) = WriteEntries(r, goal)
        BY <1>5, <2>3, <4>2, WritesEntries
      <4>3. CASE \E r \in Sides : Head(todo) = WriteHeader(r, goal)
        BY <1>5, <2>3, <4>3, WritesHeader
      <4>4. CASE Head(todo) = WriteMbr
        BY <1>5, <2>3, <4>4, WritesMbr
      <4>5. CASE Head(todo) = Flush
        BY <2>3, <4>5 DEF Flush
      <4>. QED
        BY <4>1, <4>2, <4>3, <4>4, <4>5 DEF StepsFor
    <3>2. Image(cache)'
      BY <1>5, <1>7, <2>3, <3>1, Zenon DEF Image, TableInv, Put
    <3>. QED
      BY <1>5, <2>3, <3>2, Zenon DEF Image, TableInv
  <2>. QED
    BY <2>2, <2>3
<1>10. Progress(p, j + 1)'
  <2>. DEFINE n == Len(p)
  <2>0. n \in Nat /\ 6 <= n /\ n <= 7 /\ j < n
    BY <1>4, <1>4b
  <2>. HIDE DEF n
  <2>1. /\ j >= 1 => Holds(cache, "backup", goal)
        /\ j >= 2 => cache[Header("backup")] = HeaderOf(goal)
        /\ j >= 3 => disk[Header("backup")] = HeaderOf(goal) /\ Holds(disk, "backup", goal)
        /\ j >= 4 => Holds(cache, "primary", goal)
        /\ j >= 5 => cache[Header("primary")] = HeaderOf(goal)
    BY <1>2 DEF Progress, n
  <2>2. SUFFICES /\ j >= 0 => Holds(cache', "backup", goal)
                 /\ j >= 1 => cache'[Header("backup")] = HeaderOf(goal)
                 /\ j >= 2 => disk'[Header("backup")] = HeaderOf(goal) /\ Holds(disk', "backup", goal)
                 /\ j >= 3 => Holds(cache', "primary", goal)
                 /\ j >= 4 => cache'[Header("primary")] = HeaderOf(goal)
                 /\ j + 1 = n => disk' = cache'
    <3>1. goal' = goal /\ todo' = Rest(p, j + 1)
      BY <1>4, <1>4b, <1>4c, <1>5
    <3>2. /\ (j + 1 >= 1 <=> j >= 0) /\ (j + 1 >= 2 <=> j >= 1) /\ (j + 1 >= 3 <=> j >= 2)
          /\ (j + 1 >= 4 <=> j >= 3) /\ (j + 1 >= 5 <=> j >= 4)
      BY <2>0
    <3>. QED
      BY <3>1, <3>2, <2>2 DEF Progress, n
  <2>3. "backup" \in Sides /\ "primary" \in Sides /\ "backup" # "primary"
    BY DEF Sides
  <2>4. CASE j = 0
    <3>1. Head(todo) = WriteEntries("backup", goal)
      BY <1>3, <1>4, <1>4b, <1>4c, <2>4 DEF IsPlan, n
    <3>2. Holds(cache', "backup", goal)
      BY <1>5, <2>3, <3>1, WritesEntries
    <3>3. ~(j >= 1) /\ ~(j >= 2) /\ ~(j >= 3) /\ ~(j >= 4) /\ j + 1 # n /\ j >= 0
      BY <2>0, <2>4
    <3>. QED
      BY <3>2, <3>3
  <2>5. CASE j = 1
    <3>1. Head(todo) = WriteHeader("backup", goal)
      BY <1>3, <1>4, <1>4b, <1>4c, <2>5 DEF IsPlan, n
    <3>2. cache'[Header("backup")] = HeaderOf(goal) /\ Holds(cache', "backup", goal)
      BY <1>5, <2>1, <2>3, <2>5, <3>1, WritesHeader DEF Holds
    <3>3. ~(j >= 2) /\ ~(j >= 3) /\ ~(j >= 4) /\ j + 1 # n /\ j >= 0 /\ j >= 1
      BY <2>0, <2>5
    <3>. QED
      BY <3>2, <3>3
  <2>6. CASE j = 2
    <3>1. Head(todo) = Flush
      BY <1>3, <1>4, <1>4b, <1>4c, <2>6 DEF IsPlan, n
    <3>2. disk' = cache /\ cache' = cache
      BY <1>5, <3>1 DEF Flush
    <3>. QED
      BY <2>0, <2>1, <2>6, <3>2
  <2>7. CASE j = 3
    <3>1. Head(todo) = WriteEntries("primary", goal)
      BY <1>3, <1>4, <1>4b, <1>4c, <2>7 DEF IsPlan, n
    <3>2. cache' = Put(cache, WriteEntries("primary", goal)) /\ disk' = disk
      BY <1>5, <2>3, <3>1, WritesEntries
    <3>3. Holds(cache', "primary", goal) /\ cache'[Header("backup")] = cache[Header("backup")]
      BY <2>3, <3>2, WritesEntries
    <3>4. \A i \in Parts : cache'[Entry("backup", i)] = cache[Entry("backup", i)]
      BY <2>3, <3>2, WritesEntries
    <3>5. Holds(cache', "backup", goal)
      BY <2>1, <2>7, <3>4 DEF Holds
    <3>6. ~(j >= 4) /\ j + 1 # n /\ j >= 0 /\ j >= 1 /\ j >= 2 /\ j >= 3
      BY <2>0, <2>7
    <3>. QED
      BY <2>1, <3>2, <3>3, <3>5, <3>6
  <2>8. CASE j = 4
    <3>1. Head(todo) = WriteHeader("primary", goal)
      BY <1>3, <1>4, <1>4b, <1>4c, <2>8 DEF IsPlan, n
    <3>2. cache' = Put(cache, WriteHeader("primary", goal)) /\ disk' = disk
      BY <1>5, <2>3, <3>1, WritesHeader
    <3>3. /\ cache'[Header("primary")] = HeaderOf(goal)
          /\ cache'[Header("backup")] = cache[Header("backup")]
          /\ \A s \in Sides, i \in Parts : cache'[Entry(s, i)] = cache[Entry(s, i)]
      BY <2>3, <3>2, WritesHeader
    <3>4. Holds(cache', "backup", goal) /\ Holds(cache', "primary", goal)
      BY <2>1, <2>3, <2>8, <3>3 DEF Holds
    <3>5. j + 1 # n /\ j >= 0 /\ j >= 1 /\ j >= 2 /\ j >= 3 /\ j >= 4
      BY <2>0, <2>8
    <3>. QED
      BY <2>1, <3>2, <3>3, <3>4, <3>5
  <2>9. CASE j = 5 /\ n = 7
    <3>1. Head(todo) = WriteMbr
      BY <1>3, <1>4, <1>4b, <1>4c, <2>9 DEF IsPlan, n
    <3>2. cache' = Put(cache, WriteMbr) /\ disk' = disk
      BY <1>5, <3>1, WritesMbr, Zenon
    <3>3. /\ \A s \in Sides : cache'[Header(s)] = cache[Header(s)]
          /\ \A s \in Sides, i \in Parts : cache'[Entry(s, i)] = cache[Entry(s, i)]
      BY <3>2, WritesMbr, Zenon
    <3>4. Holds(cache', "backup", goal) /\ Holds(cache', "primary", goal)
      BY <2>1, <2>3, <2>9, <3>3 DEF Holds
    <3>. QED
      BY <2>0, <2>1, <2>3, <2>9, <3>2, <3>3, <3>4
  <2>10. CASE j + 1 = n
    <3>1. Head(todo) = Flush
      BY <1>3, <1>4, <1>4b, <1>4c, <2>10 DEF IsPlan, n
    <3>2. disk' = cache /\ cache' = cache
      BY <1>5, <3>1 DEF Flush
    <3>3. j >= 1 /\ j >= 2 /\ j >= 3 /\ j >= 4 /\ j >= 5
      BY <2>0, <2>10
    <3>. QED
      BY <2>1, <3>2, <3>3
  <2>. QED
    <3>1. j \in {0, 1, 2, 3, 4} \/ (j = 5 /\ n = 7) \/ j + 1 = n
      BY <2>0
    <3>. QED
      BY <3>1, <2>4, <2>5, <2>6, <2>7, <2>8, <2>9, <2>10
<1>11. Effect(j)
  <2>1. "backup" \in Sides /\ "primary" \in Sides /\ "backup" # "primary"
    BY DEF Sides
  <2>2. CASE Head(todo) = Flush
    <3>1. disk' = cache /\ cache' = cache
      BY <1>5, <2>2 DEF Flush
    <3>. QED
      BY <3>1 DEF Effect, SameCells
  <2>3. CASE Head(todo) = WriteMbr
    <3>1. cache' = Put(cache, WriteMbr) /\ disk' = disk
      BY <1>5, <2>3, WritesMbr
    <3>. QED
      BY <2>1, <3>1, WritesMbr DEF Effect, SameCells
  <2>4. ASSUME NEW s \in Sides, Head(todo) = WriteEntries(s, goal), j < 3 => s = "backup" PROVE Effect(j)
    <3>1. cache' = Put(cache, WriteEntries(s, goal)) /\ disk' = disk
      BY <1>5, <2>4, WritesEntries, Zenon
    <3>2. /\ Holds(cache', s, goal)
          /\ \A r \in Sides : cache'[Header(r)] = cache[Header(r)]
          /\ \A r \in Sides \ {s}, i \in Parts : cache'[Entry(r, i)] = cache[Entry(r, i)]
      BY <3>1, WritesEntries
    <3>3. j < 3 => SameCells(cache', cache, "primary")
      BY <2>1, <2>4, <3>2 DEF SameCells
    <3>. QED
      BY <3>1, <3>2, <3>3 DEF Effect
  <2>5. ASSUME NEW s \in Sides, Head(todo) = WriteHeader(s, goal), j < 3 => s = "backup" PROVE Effect(j)
    <3>1. cache' = Put(cache, WriteHeader(s, goal)) /\ disk' = disk
      BY <1>5, <2>5, WritesHeader
    <3>2. /\ cache'[Header(s)] = HeaderOf(goal)
          /\ \A r \in Sides \ {s} : cache'[Header(r)] = cache[Header(r)]
          /\ \A r \in Sides, i \in Parts : cache'[Entry(r, i)] = cache[Entry(r, i)]
      BY <3>1, WritesHeader
    <3>3. j < 3 => SameCells(cache', cache, "primary")
      BY <2>1, <2>5, <3>2 DEF SameCells
    <3>. QED
      BY <3>1, <3>2, <3>3 DEF Effect
  <2>6. /\ j = 0 => Head(todo) = WriteEntries("backup", goal)
        /\ j = 1 => Head(todo) = WriteHeader("backup", goal)
        /\ j = 2 => Head(todo) = Flush
    BY <1>3, <1>4c DEF IsPlan
  <2>7. j < 3 => j = 0 \/ j = 1 \/ j = 2
    OBVIOUS
  <2>8. CASE j < 3
    BY <2>1, <2>2, <2>4, <2>5, <2>6, <2>7, <2>8
  <2>9. CASE ~(j < 3)
    <3>1. Head(todo) \in StepsFor(goal)
      BY <1>3, <1>4, <1>4b, <1>4c DEF IsPlan
    <3>. QED
      BY <2>2, <2>3, <2>4, <2>5, <2>9, <3>1 DEF StepsFor
  <2>. QED
    BY <2>8, <2>9
<1>12. j + 1 \in 0..Len(p)
  BY <1>4, <1>4b
<1>. QED
  BY <1>8, <1>9, <1>10, <1>11, <1>12

\* So a step keeps the invariant.
LEMMA StepKeeps ==
    ASSUME TableInv, Step, UNCHANGED syncVars
    PROVE  TableInv'
<1>1. PICK p \in Plans(goal) : \E j \in 0..Len(p) : Progress(p, j)
  BY DEF TableInv, Writing, Step
<1>2. PICK j \in 0..Len(p) : Progress(p, j)
  BY <1>1
<1>. QED
  BY <1>2, StepGoes

\* A command that begins has its table among those asked for, and its plan.
LEMMA StartKeeps ==
    ASSUME TableInv, NEW t \in Layouts, NEW p \in Plans(t), NEW back \in {"idle", "sync_done"},
           validate_entries(t), StartWriting(p, t, back),
           UNCHANGED <<cache, disk, sidecar, kernel>>, UNCHANGED syncVars
    PROVE  TableInv'
<1>1. /\ todo' = p /\ goal' = t /\ caller' = back /\ pc' = "write" /\ choices' = choices \cup {t}
      /\ UNCHANGED <<cache, disk, sidecar, kernel, fs, phase, journal, world>>
  BY DEF StartWriting, syncVars
<1>2. Types'
  BY <1>1 DEF TableInv, Types
<1>3. Image(cache)' /\ Image(disk)'
  BY <1>1 DEF TableInv, Image
<1>4. IsPlan(p, t) /\ 0 \in 0..Len(p) /\ Len(p) # 0
  <2>1. IsPlan(p, t)
    BY PlansBegin, Zenon DEF Plans
  <2>. QED
    BY <2>1 DEF IsPlan
<1>5. Rest(p, 0) = p
  BY <1>4, OneStep
<1>6. Progress(p, 0)'
  BY <1>1, <1>4, <1>5 DEF Progress
<1>7. Writing'
  BY <1>1, <1>4, <1>6, Zenon DEF Writing, validate_entries, Plans
<1>. QED
  BY <1>2, <1>3, <1>7 DEF TableInv

\* The command is over: nothing is left to write.
LEMMA RestKeeps ==
    ASSUME TableInv, Types', pc' # "write", Image(cache)', Image(disk)'
    PROVE  TableInv'
BY DEF TableInv, Writing

\* When everything is written, both sides are valid and hold the table, on the
\* disk as well: the verification that follows finds it.
LEMMA WrittenIsSound ==
    ASSUME TableInv, pc = "write", todo = <<>>
    PROVE  /\ disk = cache /\ AllSound(cache) /\ Canonical(cache) = goal
           /\ goal \in choices /\ goal \in Layouts /\ validate_entries(goal)
           /\ \A s \in Sides : cache[Header(s)] = HeaderOf(goal)
<1>1. PICK p \in Plans(goal) : \E j \in 0..Len(p) : Progress(p, j)
  BY DEF TableInv, Writing
<1>2. PICK j \in 0..Len(p) : Progress(p, j)
  BY <1>1
<1>3. IsPlan(p, goal)
  BY PlansBegin, Zenon DEF Plans
<1>4. j = Len(p)
  BY <1>2, <1>3, OneStep DEF Progress
<1>. DEFINE n == Len(p)
<1>5. n \in 6..7
  BY <1>3 DEF IsPlan
<1>. HIDE DEF n
<1>6. n >= 1 /\ n >= 2 /\ n >= 4 /\ n >= 5
  BY <1>5
<1>7. /\ disk = cache /\ \A s \in Sides : Holds(cache, s, goal)
      /\ \A s \in Sides : cache[Header(s)] = HeaderOf(goal)
  BY <1>2, <1>4, <1>6 DEF Progress, Sides, n
<1>8. goal \in choices /\ goal \in Layouts /\ validate_entries(goal)
  BY DEF TableInv, Writing, Types
<1>9. \A s \in Sides : Entries(cache, s) = goal
  BY <1>7, <1>8, Zenon DEF Holds, Entries, Layouts
<1>10. \A s \in Sides : Valid(cache, s) /\ Readable(cache, s)
  BY <1>7, <1>9 DEF Valid, Readable, HeaderOf
<1>11. goal # None
  BY <1>8, GptAssumption
<1>12. Canonical(cache) = goal
  BY <1>9, <1>10 DEF Canonical, Sides
<1>13. AllSound(cache)
  BY <1>8, <1>9, <1>10, <1>11, <1>12
     DEF AllSound, TableRead, BothReadable, BothValid, SplitBrain, sides_equal, Sides
<1>. QED
  BY <1>7, <1>8, <1>12, <1>13

\* A table with one range changed is a layout again.
LEMMA ResizeKeeps ==
    ASSUME TableInv, NEW i \in Parts, NEW a \in Int, NEW b \in Int, NEW back \in {"idle", "sync_done"},
           resize_partition(i, [first |-> a, last |-> b], back), UNCHANGED syncVars
    PROVE  TableInv' /\ goal' = [Canonical(cache) EXCEPT ![i] = [first |-> a, last |-> b]]
<1>. DEFINE range == [first |-> a, last |-> b]
            t == [Canonical(cache) EXCEPT ![i] = range]
<1>1. /\ MutationAccepts(cache) /\ a >= 1 /\ b <= LastUsable /\ a <= b
      /\ validate_entries(t) /\ StartWriting(Pair(t), t, back)
      /\ UNCHANGED <<cache, disk, sidecar, kernel>>
  BY DEF resize_partition
<1>2. Canonical(cache) \in Layouts
  BY <1>1, FindsChosen DEF MutationAccepts, TableInv, Types
<1>3. t \in Layouts
  BY <1>1, <1>2, GptAssumption DEF Layouts
<1>4. Pair(t) \in Plans(t)
  BY Zenon DEF Plans
<1>. HIDE DEF t
<1>. QED
  BY <1>1, <1>3, <1>4, StartKeeps, Zenon DEF StartWriting, t

\* It holds to begin with.
LEMMA TableStarts == Init => TableInv
<1>. SUFFICES ASSUME Init PROVE TableInv
  BY Zenon
<1>. USE DEF Init, GptInit
<1>1. Types
  <2>1. fs.size = Target /\ fs = [size |-> fs.size, clean |-> fs.clean]
    BY Zenon
  <2>2. SizeOf(First) <= LastUsable /\ SizeOf(First) \in Int
    BY GptAssumption, SyncAssumption DEF SizeOf, Layouts
  <2>3. Target \in Target..LastUsable
    BY <2>2, GptAssumption, SyncAssumption
  <2>4. sidecar # None => sidecar.table \in Layouts
    BY GptAssumption
  <2>. QED
    BY <2>1, <2>3, <2>4, GptAssumption DEF Types
<1>2. cache = [x \in Cells |-> cache[x]] /\ disk = cache
  <2>. DEFINE val(x) == CASE x[1] = "mbr" -> TRUE [] x[1] = "header" -> HeaderOf(First)
                          [] x[1] = "entry" -> First[x[3]]
  <2>1. cache = [x \in Cells |-> val(x)]
    BY DEF DiskOf
  <2>. HIDE DEF val
  <2>. QED
    BY <2>1
<1>3. \A s \in Sides : cache[Header(s)] = HeaderOf(First)
  <2>. TAKE s \in Sides
  <2>1. Header(s) \in Cells /\ Header(s)[1] = "header"
    BY Apart DEF Header
  <2>. QED
    BY <2>1, Zenon DEF DiskOf
<1>4. Image(cache) /\ Image(disk)
  BY <1>2, <1>3 DEF Image, HeaderOf, Fields
<1>. QED
  BY <1>1, <1>4 DEF TableInv, Writing

\* Every step keeps it.
LEMMA TableStep ==
    ASSUME TableInv, [Next]_vars
    PROVE  TableInv'
<1>0. Types /\ Image(cache) /\ Image(disk)
  BY DEF TableInv
<1>1. CASE UNCHANGED vars
  <2>1. UNCHANGED <<cache, disk, pc, todo, goal, caller, sidecar, kernel, choices, fs, phase, world>>
    BY <1>1 DEF vars, gptVars, syncVars
  <2>2. Types' /\ Image(cache)' /\ Image(disk)'
    BY <1>0, <2>1 DEF Types, Image
  <2>3. CASE pc = "write"
    <3>1. PICK p \in Plans(goal) : \E j \in 0..Len(p) : Progress(p, j)
      BY <2>3 DEF TableInv, Writing
    <3>2. PICK j \in 0..Len(p) : Progress(p, j)
      BY <3>1, Zenon
    <3>3. Progress(p, j)'
      BY <2>1, <3>2 DEF Progress, Holds
    <3>4. p \in Plans(goal')
      BY <2>1, <3>1
    <3>5. goal' \in choices' /\ validate_entries(goal')
      BY <2>1, <2>3 DEF TableInv, Writing
    <3>. QED
      BY <2>2, <3>2, <3>3, <3>4, <3>5 DEF TableInv, Writing
  <2>. QED
    BY <2>1, <2>2, <2>3 DEF TableInv, Writing
<1>2. CASE Sync
  <2>1. CASE \E log \in BOOLEAN : sync_gpt_partition_to_ext4(log)
    <3>1. /\ pc' = "sync_resize" /\ phase' \in {"partition_pending", phase}
          /\ UNCHANGED <<cache, disk, todo, goal, caller, sidecar, kernel, choices, fs, world>>
      BY <2>1, Zenon DEF sync_gpt_partition_to_ext4
    <3>. QED
      BY <1>0, <3>1, RestKeeps DEF Types, Image
  <2>2. CASE \E log \in BOOLEAN : SyncNothingToDo(log)
    <3>1. pc' = "idle" /\ phase' = "complete" /\ UNCHANGED <<gptVars, fs, world>>
      BY <2>2, Zenon DEF SyncNothingToDo, gptVars
    <3>. QED
      BY <1>0, <3>1, RestKeeps DEF Types, Image, gptVars
  <2>3. CASE SyncResize
    <3>1. resize_partition(Part, Cut, "sync_done") /\ UNCHANGED syncVars /\ Part \in Parts
      BY <2>3, SyncAssumption DEF SyncResize
    <3>2. Canonical(cache) \in Layouts
      BY <1>0, <3>1, FindsChosen, Zenon DEF resize_partition, MutationAccepts, Types
    <3>3. Old.first \in Int /\ fs.size \in Int
      BY <1>0, <3>1, <3>2, GptAssumption, SyncAssumption DEF Old, Layouts, Types
    <3>4. Old.first + fs.size - 1 \in Int
      BY <3>3
    <3>. QED
      BY <3>1, <3>3, <3>4, ResizeKeeps DEF Cut
  <2>4. CASE SyncDone
    <3>1. /\ pc' = "idle" /\ phase' \in {"complete", phase} /\ caller' = "idle"
          /\ UNCHANGED <<cache, disk, sidecar, kernel, choices, fs, world>>
      BY <2>4 DEF SyncDone, Return
    <3>. QED
      BY <1>0, <3>1, RestKeeps DEF Types, Image
  <2>. QED
    BY <1>2, <2>1, <2>2, <2>3, <2>4, Zenon DEF Sync
<1>3. CASE Table
  <2>0. UNCHANGED syncVars
    BY <1>3 DEF Table
  <2>1. CASE Step
    BY <2>0, <2>1, StepKeeps
  <2>2. ASSUME NEW reread \in BOOLEAN, Verify(reread) PROVE TableInv'
    <3>1. /\ disk = cache /\ AllSound(cache) /\ Canonical(cache) = goal
          /\ goal \in choices /\ goal \in Layouts
          /\ \A s \in Sides : cache[Header(s)] = HeaderOf(goal)
      BY <2>2, WrittenIsSound, Zenon DEF Verify
    <3>2. /\ pc' = caller /\ caller' = "idle" /\ choices' = {goal} /\ kernel' \in {goal, kernel}
          /\ UNCHANGED <<cache, disk, sidecar, fs, phase, world>>
      BY <2>0, <2>2, <3>1, Zenon DEF Verify, Return, syncVars
    <3>3. Types' /\ pc' # "write"
      BY <1>0, <3>1, <3>2 DEF Types
    <3>4. Image(cache)' /\ Image(disk)'
      BY <1>0, <3>1, <3>2 DEF Image, HeaderOf, Fields
    <3>. QED
      BY <3>3, <3>4, RestKeeps, Zenon
  <2>3. CASE part_resize
    <3>1. PICK t \in Edits, i \in Parts : resize_partition(i, t[i], "idle")
      BY <2>3 DEF part_resize
    <3>2. t[i] = [first |-> t[i].first, last |-> t[i].last] /\ t[i].first \in Int /\ t[i].last \in Int
      BY GptAssumption DEF Layouts
    <3>. QED
      BY <2>0, <3>1, <3>2, ResizeKeeps
  <2>4. CASE repair_redundancy
    <3>. DEFINE t == Canonical(cache)
    <3>1. /\ RepairAccepts /\ StartWriting(Pair(t), t, "idle")
          /\ UNCHANGED <<cache, disk, sidecar, kernel>>
      BY <2>4 DEF repair_redundancy
    <3>2. t \in Layouts /\ validate_entries(t) /\ Pair(t) \in Plans(t)
      BY <1>0, <3>1, FindsChosen, Zenon DEF RepairAccepts, MutationAccepts, Types, Plans
    <3>. QED
      BY <2>0, <3>1, <3>2, StartKeeps
  <2>5. CASE backup_metadata
    <3>1. /\ sidecar' = [mbr |-> cache[Mbr], table |-> Canonical(cache)] /\ Canonical(cache) # None
          /\ pc = "idle"
          /\ UNCHANGED <<cache, disk, pc, todo, goal, caller, kernel, choices, fs, phase, world>>
      BY <2>0, <2>5, Zenon DEF backup_metadata, AllSound, TableRead, syncVars
    <3>2. sidecar'.table \in Layouts
      BY <1>0, <3>1, FindsChosen DEF Types
    <3>. QED
      BY <1>0, <3>1, <3>2, RestKeeps DEF Types, Image
  <2>6. CASE restore_metadata
    <3>. DEFINE t == sidecar.table
                p == Side("backup", t) \o <<Flush>> \o Side("primary", t) \o <<WriteMbr, Flush>>
    <3>1. /\ sidecar # None /\ validate_entries(t) /\ StartWriting(p, t, "idle")
          /\ UNCHANGED <<cache, disk, sidecar, kernel>>
      BY <2>6 DEF restore_metadata, WriteMbr
    <3>2. t \in Layouts /\ p \in Plans(t)
      BY <1>0, <3>1, Zenon DEF Types, Plans
    <3>. HIDE DEF p
    <3>. QED
      BY <2>0, <3>1, <3>2, StartKeeps
  <2>7. CASE Reread
    <3>1. /\ kernel' = Canonical(cache) /\ pc = "idle"
          /\ UNCHANGED <<cache, disk, pc, todo, goal, caller, sidecar, choices, fs, phase, world>>
      BY <2>0, <2>7 DEF Reread, syncVars
    <3>. QED
      BY <1>0, <3>1, FindsChosen, RestKeeps, Zenon DEF Types, Image
  <2>8. CASE Damage
    <3>1. /\ pc = "idle" /\ disk' = cache'
          /\ UNCHANGED <<pc, todo, goal, caller, sidecar, kernel, choices, fs, phase, world>>
      BY <2>0, <2>8 DEF Damage, syncVars
    <3>2. Image(cache)'
      <4>1. CASE cache' = [cache EXCEPT ![Mbr] = FALSE]
        BY <1>0, <3>1, <4>1, Apart, Zenon DEF Image
      <4>2. ASSUME NEW s \in Sides, NEW f \in {"sum", "range"},
                   cache' = [cache EXCEPT ![Header(s)].field = f]
            PROVE  Image(cache)'
        <5>. DEFINE h == cache[Header(s)]
        <5>1. h \in [field : Fields, crc : choices]
          BY <1>0 DEF Image
        <5>2. [h EXCEPT !.field = f] \in [field : Fields, crc : choices]
          BY <5>1 DEF Fields
        <5>3. cache' = [cache EXCEPT ![Header(s)] = [h EXCEPT !.field = f]]
          BY <4>2
        <5>. HIDE DEF h
        <5>. QED
          BY <1>0, <3>1, <5>2, <5>3, Apart, SMTT(30) DEF Image
      <4>3. ASSUME NEW s \in Sides, NEW i \in Parts,
                   cache' = [cache EXCEPT ![Entry(s, i)] = [first |-> 0, last |-> 0]]
            PROVE  Image(cache)'
        BY <1>0, <3>1, <4>3, Apart DEF Image
      <4>. QED
        BY <2>8, <4>1, <4>2, <4>3 DEF Damage, Sides
    <3>3. Image(disk)'
      BY <3>1, <3>2 DEF Image
    <3>. QED
      BY <1>0, <3>1, <3>2, <3>3, RestKeeps DEF Types
  <2>. QED
    BY <1>3, <2>1, <2>2, <2>3, <2>4, <2>5, <2>6, <2>7, <2>8, Zenon DEF Table
<1>4. CASE Failure
  <2>1. CASE Interrupted
    <3>1. pc' = "idle" /\ caller' = "idle" /\ UNCHANGED <<cache, disk, sidecar, kernel, choices, fs, phase, world>>
      BY <1>4, <2>1, Zenon DEF Failure, Interrupted, Return
    <3>. QED
      BY <1>0, <3>1, RestKeeps DEF Types, Image
  <2>2. CASE PowerLoss
    <3>1. /\ pc' = "idle" /\ caller' = "idle" /\ disk' = cache' /\ kernel' = Canonical(cache')
          /\ UNCHANGED <<sidecar, choices, fs, phase, world>>
      BY <1>4, <2>2 DEF Failure, PowerLoss, Return
    <3>2. PICK kept : cache' = [x \in DOMAIN cache |-> IF x \in kept THEN cache[x] ELSE disk[x]]
      BY <2>2 DEF PowerLoss
    <3>3. DOMAIN cache = Cells
      BY <1>0 DEF Image
    <3>4. Image(cache')
      BY <1>0, <3>2, <3>3, Apart DEF Image
    <3>5. Image(cache)' /\ Image(disk)'
      BY <3>1, <3>4 DEF Image
    <3>6. Canonical(cache') \in choices \cup {None}
      BY <3>4, FindsChosen, Zenon
    <3>. QED
      BY <1>0, <3>1, <3>5, <3>6, RestKeeps, Zenon DEF Types
  <2>. QED
    BY <1>4, <2>1, <2>2, Zenon DEF Failure
<1>5. CASE GrowFilesystem
  <2>1. PICK n \in (fs.size + 1)..SizeOf(kernel), c \in BOOLEAN : fs' = [size |-> n, clean |-> c]
    BY <1>5 DEF GrowFilesystem
  <2>2. pc = "idle" /\ kernel \in Layouts /\ UNCHANGED <<gptVars, phase, journal, world>>
    BY <1>0, <1>5 DEF GrowFilesystem, Types
  <2>3. SizeOf(kernel) \in Int /\ SizeOf(kernel) <= LastUsable
    BY <2>2, GptAssumption, SyncAssumption DEF SizeOf, Layouts
  <2>4. fs'.size = n /\ n \in Target..LastUsable /\ fs' = [size |-> fs'.size, clean |-> fs'.clean]
    <3>1. fs.size \in Int /\ Target <= fs.size /\ Target \in Int /\ LastUsable \in Int
      BY <1>0, GptAssumption, SyncAssumption DEF Types
    <3>. QED
      BY <2>1, <2>3, <3>1
  <2>. QED
    BY <1>0, <2>2, <2>4, RestKeeps DEF Types, Image, gptVars
<1>6. CASE Fsck
  <2>1. /\ pc = "idle" /\ fs' = [fs EXCEPT !.clean = TRUE] /\ UNCHANGED <<gptVars, phase, world>>
    BY <1>6 DEF Fsck
  <2>2. fs' = [size |-> fs.size, clean |-> TRUE]
    BY <1>0, <2>1, Zenon DEF Types
  <2>. QED
    BY <1>0, <2>1, <2>2, RestKeeps, Zenon DEF Types, Image, gptVars
<1>. QED
  BY <1>1, <1>2, <1>3, <1>4, <1>5, <1>6 DEF Next

\* So it always holds.
LEMMA TableInvariant == Spec => []TableInv
BY TableStarts, TableStep, PTL DEF Spec

\* AtomicTable for every disk and every mixture of commands and failures: what a
\* reader finds was asked for, whatever cells of write_pair or restore_metadata a
\* power loss keeps.
THEOREM TableIsAtomic == Spec => []AtomicTable
<1>1. TableInv => AtomicTable
  BY FindsChosen DEF TableInv, AtomicTable
<1>. QED
  BY <1>1, TableInvariant, PTL

\* Tables, kernel and disk image keep their types: no range that damage left in
\* an entry array is ever taken for a partition.
THEOREM PartitionSyncTypes == Spec => []TypeOK
<1>1. TableInv => TypeOK
  BY DEF TableInv, Types, Image, TypeOK
<1>. QED
  BY <1>1, TableInvariant, PTL

\* What the synchronization writes has just the size of the filesystem.
LEMMA CutTable ==
    ASSUME TableInv, SyncResize
    PROVE  \E t \in Layouts :
              /\ SizeOf(t) = fs.size /\ StartWriting(Pair(t), t, "sync_done")
              /\ UNCHANGED <<cache, disk, sidecar, kernel>> /\ UNCHANGED syncVars
<1>. DEFINE c == Canonical(cache)
            t == [c EXCEPT ![Part] = Cut]
<1>1. /\ c # None /\ StartWriting(Pair(t), t, "sync_done")
      /\ UNCHANGED <<cache, disk, sidecar, kernel>> /\ UNCHANGED syncVars
      /\ Cut.first >= 1 /\ Cut.last <= LastUsable /\ Cut.first <= Cut.last
  BY Zenon DEF SyncResize, resize_partition, MutationAccepts
<1>2. c \in Layouts /\ Part \in Parts /\ fs.size \in Int
  BY <1>1, FindsChosen, GptAssumption, SyncAssumption DEF TableInv, Types
<1>3. Cut = [first |-> c[Part].first, last |-> c[Part].first + fs.size - 1]
  BY DEF Cut, Old
<1>. HIDE DEF c
<1>4. c[Part].first \in 1..LastUsable /\ t[Part] = Cut
  BY <1>2 DEF Layouts
<1>5. SizeOf(t) = fs.size
  BY <1>2, <1>3, <1>4, GptAssumption DEF SizeOf
<1>6. t \in Layouts
  BY <1>1, <1>2, <1>3, <1>4, GptAssumption DEF Layouts
<1>. HIDE DEF t
<1>. QED
  BY <1>1, <1>5, <1>6

-----------------------------------------------------------------------------
\* A filesystem that grows meets only synchronization, repair and backup, damage
\* and a kernel that reads the table: nothing in the code keeps an operator's
\* edit, a restore or a stale device length from cutting off what it grew into.
GrowAlone ==
    "grow" \in world => world \cap {"edit", "restore", "stale", "interrupt", "power"} = {}

\* All tables a reader may find have room for the filesystem; while it may grow,
\* the kernel's table is the only one between two commands.
Room ==
    /\ \A t \in choices : fs.size <= SizeOf(t)
    /\ "grow" \notin world => fs.size = Target
    /\ sidecar # None => Target <= SizeOf(sidecar.table)
    /\ "grow" \in world =>
          /\ kernel \in Layouts /\ choices \subseteq {kernel, goal}
          /\ pc # "write" => choices = {kernel}

RoomInv == GrowAlone => Room

\* It holds to begin with.
LEMMA RoomStarts == Init => RoomInv
<1>. SUFFICES ASSUME Init PROVE Room
  BY Zenon DEF RoomInv
<1>1. fs.size = Target /\ Target <= SizeOf(First) /\ kernel = First /\ choices = {First} /\ First \in Layouts
  BY GptAssumption, SyncAssumption DEF Init, GptInit
<1>2. sidecar # None => \E t \in Edits : sidecar = [mbr |-> TRUE, table |-> t]
  BY DEF Init, GptInit
<1>3. sidecar # None => Target <= SizeOf(sidecar.table)
  BY <1>2, SyncAssumption
<1>. QED
  BY <1>1, <1>3 DEF Room

\* A command that starts to write a table with room for the filesystem keeps it.
LEMMA StartHasRoom ==
    ASSUME TableInv, Room, pc # "write", NEW t \in Layouts, NEW p, NEW back,
           fs.size <= SizeOf(t), StartWriting(p, t, back),
           UNCHANGED <<sidecar, kernel>>, UNCHANGED syncVars
    PROVE  Room'
<1>1. /\ choices' = choices \cup {t} /\ goal' = t /\ pc' = "write" /\ fs' = fs /\ world' = world
      /\ sidecar' = sidecar /\ kernel' = kernel
  BY DEF StartWriting, syncVars
<1>2. \A u \in choices' : fs'.size <= SizeOf(u)
  BY <1>1 DEF Room
<1>. QED
  BY <1>1, <1>2 DEF Room

\* Any step that only drops choices, or does not write, keeps it.
LEMMA QuietHasRoom ==
    ASSUME Room, pc # "write", pc' # "write", choices' = choices, fs'.size = fs.size, world' = world,
           kernel' \in choices \cup {kernel}, UNCHANGED sidecar
    PROVE  Room'
BY DEF Room

\* Every step keeps it.
LEMMA RoomStep ==
    ASSUME TableInv, RoomInv, [Next]_vars
    PROVE  RoomInv'
<1>0. world' = world
  BY Zenon DEF Next, Sync, Table, Failure, GrowFilesystem, Fsck, vars, syncVars, SyncResize, SyncDone,
         SyncNothingToDo, sync_gpt_partition_to_ext4
<1>. SUFFICES ASSUME GrowAlone PROVE Room'
  BY <1>0 DEF RoomInv, GrowAlone
<1>1. Room /\ Types /\ Image(cache)
  BY DEF RoomInv, TableInv
<1>2. Canonical(cache) # None =>
          /\ Canonical(cache) \in choices /\ Canonical(cache) \in Layouts
          /\ fs.size <= SizeOf(Canonical(cache))
  BY <1>1, FindsChosen DEF Types, Room
<1>3. fs.size \in Int /\ Target \in Int /\ Target <= fs.size
  BY <1>1, GptAssumption, SyncAssumption DEF Types
<1>4. CASE UNCHANGED vars
  BY <1>1, <1>4 DEF vars, gptVars, syncVars, Room
<1>5. CASE Sync
  <2>1. CASE \E log \in BOOLEAN : sync_gpt_partition_to_ext4(log)
    <3>1. pc = "idle" /\ pc' = "sync_resize" /\ UNCHANGED <<goal, sidecar, kernel, choices, fs, world>>
      BY <2>1 DEF sync_gpt_partition_to_ext4
    <3>. QED
      BY <1>1, <3>1, QuietHasRoom
  <2>2. CASE \E log \in BOOLEAN : SyncNothingToDo(log)
    <3>1. pc = "idle" /\ UNCHANGED <<gptVars, fs, world>>
      BY <2>2 DEF SyncNothingToDo
    <3>. QED
      BY <1>1, <3>1, QuietHasRoom DEF gptVars
  <2>3. CASE SyncResize
    <3>1. PICK t \in Layouts :
             /\ SizeOf(t) = fs.size /\ StartWriting(Pair(t), t, "sync_done")
             /\ UNCHANGED <<sidecar, kernel>> /\ UNCHANGED syncVars
      BY <2>3, CutTable
    <3>2. fs.size <= SizeOf(t) /\ pc # "write"
      BY <1>3, <2>3, <3>1 DEF SyncResize
    <3>. QED
      BY <1>1, <3>1, <3>2, StartHasRoom
  <2>4. CASE SyncDone
    <3>1. pc = "sync_done" /\ pc' = "idle" /\ UNCHANGED <<sidecar, kernel, choices, fs, world>>
      BY <2>4 DEF SyncDone, Return
    <3>. QED
      BY <1>1, <3>1, QuietHasRoom
  <2>. QED
    BY <1>5, <2>1, <2>2, <2>3, <2>4 DEF Sync
<1>6. CASE Table
  <2>0. UNCHANGED syncVars /\ fs' = fs
    BY <1>6 DEF Table, syncVars
  <2>1. CASE Step
    <3>1. UNCHANGED <<pc, goal, sidecar, kernel, choices, fs, world>>
      BY <2>0, <2>1, Zenon DEF Step, syncVars
    <3>. QED
      BY <1>1, <3>1 DEF Room
  <2>2. ASSUME NEW reread \in BOOLEAN, Verify(reread), reread \/ "stale" \in world PROVE Room'
    <3>1. AllSound(cache) /\ Canonical(cache) = goal /\ goal \in choices /\ goal \in Layouts
      BY <2>2, WrittenIsSound DEF Verify
    <3>2. /\ choices' = {goal} /\ kernel' = IF reread THEN goal ELSE kernel
          /\ UNCHANGED <<sidecar, fs, world>>
      BY <1>0, <2>0, <2>2, <3>1 DEF Verify
    <3>3. "grow" \in world => reread
      BY <2>2 DEF GrowAlone
    <3>4. \A t \in choices' : fs'.size <= SizeOf(t)
      BY <1>1, <3>1, <3>2 DEF Room
    <3>. QED
      BY <1>1, <3>1, <3>2, <3>3, <3>4, Zenon DEF Room
  <2>3. CASE "edit" \in world /\ part_resize
    <3>1. PICK t \in Edits, i \in Parts :
             /\ t = [Canonical(cache) EXCEPT ![i] = t[i]] /\ resize_partition(i, t[i], "idle")
      BY <2>3 DEF part_resize
    <3>2. /\ pc = "idle" /\ StartWriting(Pair(t), t, "idle") /\ UNCHANGED <<sidecar, kernel>>
      BY <2>3, <3>1, Zenon DEF resize_partition, part_resize
    <3>3. "grow" \notin world
      BY <2>3 DEF GrowAlone
    <3>4. t \in Layouts /\ fs.size <= SizeOf(t)
      BY <1>1, <3>3, GptAssumption, SyncAssumption DEF Room
    <3>. QED
      BY <1>1, <2>0, <3>2, <3>4, StartHasRoom
  <2>4. CASE repair_redundancy
    <3>. DEFINE t == Canonical(cache)
    <3>1. /\ pc = "idle" /\ t # None /\ StartWriting(Pair(t), t, "idle") /\ UNCHANGED <<sidecar, kernel>>
      BY <2>4 DEF repair_redundancy, RepairAccepts, MutationAccepts
    <3>2. t \in Layouts /\ fs.size <= SizeOf(t)
      BY <1>2, <3>1, Zenon
    <3>. HIDE DEF t
    <3>. QED
      BY <1>1, <2>0, <3>1, <3>2, StartHasRoom
  <2>5. CASE backup_metadata
    <3>1. /\ sidecar' = [mbr |-> cache[Mbr], table |-> Canonical(cache)] /\ Canonical(cache) # None
          /\ UNCHANGED <<pc, goal, kernel, choices, fs, world>>
      BY <2>0, <2>5, Zenon DEF backup_metadata, AllSound, TableRead, syncVars
    <3>2. SizeOf(Canonical(cache)) \in Int
      BY <1>2, <3>1, GptAssumption, SyncAssumption DEF SizeOf, Layouts
    <3>3. Target <= SizeOf(Canonical(cache))
      BY <1>2, <1>3, <3>1, <3>2
    <3>4. Target <= SizeOf(sidecar'.table)
      BY <3>1, <3>3, Zenon
    <3>. QED
      BY <1>1, <3>1, <3>4, Zenon DEF Room
  <2>6. CASE "restore" \in world /\ restore_metadata
    <3>. DEFINE t == sidecar.table
                p == Side("backup", t) \o <<Flush>> \o Side("primary", t) \o <<WriteMbr, Flush>>
    <3>1. /\ pc = "idle" /\ sidecar # None /\ StartWriting(p, t, "idle") /\ UNCHANGED <<sidecar, kernel>>
      BY <2>6 DEF restore_metadata, WriteMbr
    <3>2. "grow" \notin world
      BY <2>6, Zenon DEF GrowAlone
    <3>3. t \in Layouts /\ fs.size <= SizeOf(t)
      BY <1>1, <3>1, <3>2, Zenon DEF Room, Types
    <3>. HIDE DEF t, p
    <3>. QED
      BY <1>1, <2>0, <3>1, <3>3, StartHasRoom, Zenon
  <2>7. CASE Reread
    <3>1. /\ pc = "idle" /\ Canonical(cache) # None /\ kernel' = Canonical(cache)
          /\ UNCHANGED <<pc, sidecar, choices, fs, world>>
      BY <1>0, <2>0, <2>7 DEF Reread
    <3>. QED
      BY <1>1, <1>2, <3>1, QuietHasRoom
  <2>8. CASE Damage
    <3>1. pc = "idle" /\ UNCHANGED <<pc, sidecar, kernel, choices, fs, world>>
      BY <1>0, <2>0, <2>8 DEF Damage
    <3>. QED
      BY <1>1, <3>1, QuietHasRoom
  <2>. QED
    BY <1>6, <2>1, <2>2, <2>3, <2>4, <2>5, <2>6, <2>7, <2>8, Zenon DEF Table
<1>7. CASE Failure
  <2>1. "grow" \notin world
    BY <1>7, Zenon DEF Failure, GrowAlone
  <2>2. UNCHANGED <<sidecar, choices, fs, world>>
    BY <1>7, Zenon DEF Failure, Interrupted, PowerLoss
  <2>. QED
    BY <1>1, <2>1, <2>2 DEF Room
<1>8. CASE GrowFilesystem
  <2>1. PICK n \in (fs.size + 1)..SizeOf(kernel), c \in BOOLEAN : fs' = [size |-> n, clean |-> c]
    BY <1>8 DEF GrowFilesystem
  <2>2. pc = "idle" /\ "grow" \in world /\ UNCHANGED <<gptVars, world>>
    BY <1>8 DEF GrowFilesystem
  <2>3. choices = {kernel} /\ kernel \in Layouts
    BY <1>1, <2>2, Zenon DEF Room
  <2>4. SizeOf(kernel) \in Int
    BY <2>3, GptAssumption, SyncAssumption DEF SizeOf, Layouts
  <2>5. fs'.size <= SizeOf(kernel)
    BY <1>3, <2>1, <2>4
  <2>. QED
    BY <1>1, <2>2, <2>3, <2>5 DEF Room, gptVars
<1>9. CASE Fsck
  <2>1. pc = "idle" /\ fs' = [fs EXCEPT !.clean = TRUE] /\ UNCHANGED <<gptVars, world>>
    BY <1>9 DEF Fsck
  <2>2. fs'.size = fs.size
    BY <1>1, <2>1 DEF Types
  <2>. QED
    BY <1>1, <2>1, <2>2, QuietHasRoom DEF gptVars
<1>. QED
  BY <1>4, <1>5, <1>6, <1>7, <1>8, <1>9 DEF Next

\* PartitionHoldsFilesystem for every disk and every target: sync.cpp cuts the
\* partition to the size of a filesystem that is already smaller, and whatever
\* interrupts write_pair, or a power loss leaves of it, the table found has room
\* for the filesystem.  Edits ask for at least the target; a filesystem that
\* grows back does so without the commands GrowAlone names.
THEOREM FilesystemHasRoom == Spec => [](GrowAlone => PartitionHoldsFilesystem)
<1>1. TableInv /\ RoomInv => (GrowAlone => PartitionHoldsFilesystem)
  BY FindsChosen DEF TableInv, RoomInv, Room, PartitionHoldsFilesystem
<1>2. Spec => []RoomInv
  BY TableInvariant, RoomStarts, RoomStep, PTL DEF Spec
<1>. QED
  BY <1>1, <1>2, TableInvariant, PTL

-----------------------------------------------------------------------------
\* What the two copies survive: resize_partition works from one valid side, so an
\* operator's edits are safe only on a disk that is never left with one; and a
\* damaged side that is rewritten but not flushed, because its repair was
\* interrupted, is no replacement when a cut then meets a power loss.
Spared ==
    /\ "edit" \in world => world \cap {"interrupt", "power", "damage"} = {}
    /\ ~({"sync", "interrupt", "power", "damage"} \subseteq world)

\* No failure takes this side away.
Robust(s) == Valid(cache, s) /\ ("power" \in world => SameCells(cache, disk, s))

\* The table needs no cut.
Fits(t) == {"sync", "interrupt", "power"} \subseteq world => SizeOf(t) <= fs.size

HasGoal(s) == Holds(cache, s, goal) /\ cache[Header(s)] = HeaderOf(goal)

\* The primary side is there to fall back on: it is not rewritten yet, or to what
\* it is.
Front(j) == Robust("primary") /\ (HasGoal("primary") \/ (j <= 3 /\ Fits(goal)))

PrimaryFits == Valid(cache, "primary") => Fits(Entries(cache, "primary"))

\* The backup side is, and it is not rewritten to anything else.
Back == Robust("backup") /\ HasGoal("backup") /\ Fits(goal) /\ PrimaryFits

During ==
    \E p \in Plans(goal) : \E j \in 0..Len(p) : Progress(p, j) /\ (Front(j) \/ Back)

Between ==
    \/ Robust("primary")
    \/ Robust("backup") /\ Fits(Entries(cache, "backup")) /\ PrimaryFits

Kept ==
    /\ pc = "write" => During
    /\ pc # "write" => Between
    /\ pc = "sync_resize" => Robust("primary")
    /\ "interrupt" \notin world /\ pc # "write" => disk = cache
    /\ "edit" \in world /\ pc # "write" => BothValid(cache)

KeptInv == Spared /\ sidecar = None => Kept

\* A side whose cells no step changes stays as robust as it is.
LEMMA StaysRobust ==
    ASSUME NEW s \in Sides, Robust(s), SameCells(cache', cache, s),
           disk' = disk \/ disk' = cache \/ SameCells(disk', cache', s), world' = world
    PROVE  Robust(s)' /\ Entries(cache', s) = Entries(cache, s)
<1>1. Entries(cache', s) = Entries(cache, s)
  BY Zenon DEF SameCells, Entries
<1>2. Valid(cache', s)
  BY <1>1, Zenon DEF Valid, Robust, SameCells
<1>3. "power" \in world => SameCells(cache', disk', s)
  BY Zenon DEF Robust, SameCells
<1>. QED
  BY <1>1, <1>2, <1>3, Zenon DEF Robust, Valid, Entries, SameCells

\* A side that has the goal is rewritten to what it is.
LEMMA GoalStays ==
    ASSUME NEW s \in Sides, NEW j, HasGoal(s), Effect(j), goal' = goal
    PROVE  SameCells(cache', cache, s) /\ HasGoal(s)'
<1>1. SameCells(cache', cache, s)
  BY Zenon DEF Effect, HasGoal, Holds, SameCells
<1>. QED
  BY <1>1, Zenon DEF HasGoal, Holds, SameCells

\* The entries of a side that has them are the table.
LEMMA HeldEntries ==
    ASSUME NEW c, NEW s, NEW t \in Layouts, Holds(c, s, t)
    PROVE  Entries(c, s) = t
BY Zenon DEF Holds, Entries, Layouts

\* A step of a command leaves one side to fall back on.
LEMMA StepSpares ==
    ASSUME TableInv, Step, UNCHANGED syncVars, During
    PROVE  During'
<1>1. PICK p \in Plans(goal) : \E j \in 0..Len(p) : Progress(p, j) /\ (Front(j) \/ Back)
  BY DEF During
<1>2. PICK j \in 0..Len(p) : Progress(p, j) /\ (Front(j) \/ Back)
  BY <1>1
<1>3. Progress(p, j + 1)' /\ j + 1 \in 0..Len(p) /\ Effect(j)
  BY <1>2, StepGoes
<1>4. goal' = goal /\ fs' = fs /\ world' = world /\ p \in Plans(goal')
  BY Zenon DEF Step, syncVars
<1>5. goal \in Layouts /\ "primary" \in Sides /\ "backup" \in Sides
  BY DEF TableInv, Writing, Types, Step, Sides
<1>6. Fits(goal) => Fits(goal)'
  BY <1>4 DEF Fits, SizeOf
<1>7. disk' = disk \/ disk' = cache
  BY <1>3 DEF Effect
<1>8. SUFFICES Front(j + 1)' \/ Back'
  BY <1>3, <1>4, <1>8 DEF During
<1>9. CASE Robust("primary") /\ HasGoal("primary")
  <2>1. SameCells(cache', cache, "primary") /\ HasGoal("primary")'
    BY <1>3, <1>4, <1>5, <1>9, GoalStays, Zenon
  <2>2. Robust("primary")'
    BY <1>4, <1>5, <1>7, <1>9, <2>1, StaysRobust
  <2>. QED
    BY <2>1, <2>2 DEF Front
<1>10. CASE Robust("primary") /\ j < 3 /\ Fits(goal)
  <2>1. SameCells(cache', cache, "primary")
    BY <1>3, <1>10 DEF Effect
  <2>2. Robust("primary")'
    BY <1>4, <1>5, <1>7, <1>10, <2>1, StaysRobust
  <2>3. j + 1 <= 3
    BY <1>10
  <2>. QED
    BY <1>6, <1>10, <2>2, <2>3, Zenon DEF Front
<1>11. ASSUME HasGoal("backup"), Robust("backup"), Fits(goal), PrimaryFits'
       PROVE  Back'
  <2>1. SameCells(cache', cache, "backup") /\ HasGoal("backup")'
    BY <1>3, <1>4, <1>5, <1>11, GoalStays, Zenon
  <2>2. Robust("backup")'
    BY <1>4, <1>5, <1>7, <1>11, <2>1, StaysRobust
  <2>. QED
    BY <1>6, <1>11, <2>1, <2>2 DEF Back
<1>12. ASSUME Fits(goal), Entries(cache', "primary") = goal PROVE PrimaryFits'
  <2>1. Fits(Entries(cache, "primary"))'
    BY <1>4, <1>12 DEF Fits, SizeOf, Entries
  <2>. QED
    BY <2>1, Zenon DEF PrimaryFits
<1>13. CASE j = 3 /\ Fits(goal)
  <2>1. HasGoal("backup") /\ SameCells(cache, disk, "backup")
    <3>1. j >= 1 /\ j >= 2 /\ j >= 3
      BY <1>13
    <3>2. /\ Holds(cache, "backup", goal) /\ cache[Header("backup")] = HeaderOf(goal)
          /\ Holds(disk, "backup", goal) /\ disk[Header("backup")] = HeaderOf(goal)
      BY <1>2, <3>1 DEF Progress
    <3>. QED
      BY <3>2 DEF HasGoal, SameCells, Holds
  <2>2. Robust("backup")
    <3>1. Entries(cache, "backup") = goal
      BY <1>5, <2>1, HeldEntries, Zenon DEF HasGoal
    <3>. QED
      <4>1. Valid(cache, "backup")
        BY <2>1, <3>1 DEF Valid, HasGoal, HeaderOf
      <4>. QED
        BY <2>1, <4>1, Zenon DEF Robust
  <2>3. Holds(cache', "primary", goal)
    <3>1. j + 1 >= 4
      BY <1>13
    <3>2. Holds(cache, "primary", goal)'
      BY <1>3, <3>1 DEF Progress
    <3>. QED
      BY <1>4, <3>2 DEF Holds
  <2>4. Entries(cache', "primary") = goal
    BY <1>5, <2>3, HeldEntries, Zenon
  <2>. QED
    BY <1>11, <1>12, <1>13, <2>1, <2>2, <2>4, Zenon
<1>14. CASE Back
  <2>1. CASE Holds(cache', "primary", goal)
    <3>1. Entries(cache', "primary") = goal
      BY <1>5, <2>1, HeldEntries, Zenon
    <3>. QED
      BY <1>11, <1>12, <1>14, <3>1 DEF Back
  <2>2. CASE \A i \in Parts : cache'[Entry("primary", i)] = cache[Entry("primary", i)]
    <3>1. Entries(cache', "primary") = Entries(cache, "primary")
      BY <2>2 DEF Entries
    <3>2. CASE cache'[Header("primary")] = cache[Header("primary")]
      <4>1. Valid(cache', "primary") => Fits(Entries(cache, "primary"))
        BY <1>14, <3>1, <3>2, Zenon DEF Back, PrimaryFits, Valid
      <4>2. PrimaryFits'
        BY <1>4, <3>1, <4>1 DEF PrimaryFits, Fits, SizeOf, Valid, Entries
      <4>. QED
        BY <1>11, <1>14, <4>2, Zenon DEF Back
    <3>3. CASE cache'[Header("primary")] = HeaderOf(goal)
      <4>1. CASE Valid(cache', "primary")
        <5>1. Entries(cache', "primary") = goal
          BY <3>3, <4>1 DEF Valid, HeaderOf
        <5>. QED
          BY <1>11, <1>12, <1>14, <5>1 DEF Back
      <4>2. CASE ~Valid(cache', "primary")
        <5>1. PrimaryFits'
          BY <4>2 DEF PrimaryFits, Valid, Entries
        <5>. QED
          BY <1>11, <1>14, <5>1 DEF Back
      <4>. QED
        BY <4>1, <4>2, Zenon
    <3>. QED
      BY <1>3, <1>5, <3>2, <3>3, Zenon DEF Effect
  <2>. QED
    BY <1>3, <1>5, <2>1, <2>2, Zenon DEF Effect
<1>15. j <= 3 => j < 3 \/ j = 3
  OBVIOUS
<1>. QED
  BY <1>2, <1>9, <1>10, <1>13, <1>14, <1>15 DEF Front

\* The table of a valid side was asked for, and the side has it.
LEMMA ValidSide ==
    ASSUME TableInv, NEW s \in Sides, Valid(cache, s)
    PROVE  LET t == Entries(cache, s) IN
           /\ t \in Layouts /\ t # None /\ SizeOf(t) \in Int
           /\ Holds(cache, s, t) /\ cache[Header(s)] = HeaderOf(t)
<1>. DEFINE t == Entries(cache, s)
<1>1. t \in Layouts
  BY FindsChosen, Zenon DEF TableInv, Types
<1>2. SizeOf(t) \in Int
  BY <1>1, GptAssumption, SyncAssumption DEF SizeOf, Layouts
<1>3. cache[Header(s)] = HeaderOf(t)
  BY DEF TableInv, Image, Valid, HeaderOf
<1>4. Holds(cache, s, t)
  BY DEF Holds, Entries
<1>. QED
  BY <1>1, <1>2, <1>3, <1>4, GptAssumption, Zenon

\* A command may begin with either side to fall back on.
LEMMA StartSpares ==
    ASSUME TableInv, NEW t \in Layouts, NEW p \in Plans(t), NEW back, StartWriting(p, t, back),
           UNCHANGED <<cache, disk>>, UNCHANGED syncVars,
           \/ Robust("primary") /\ (Fits(t) \/ t = Entries(cache, "primary"))
           \/ Robust("backup") /\ t = Entries(cache, "backup") /\ Fits(t) /\ PrimaryFits
    PROVE  Kept'
<1>1. /\ todo' = p /\ goal' = t /\ pc' = "write"
      /\ UNCHANGED <<cache, disk, fs, world>>
  BY Zenon DEF StartWriting, syncVars
<1>2. IsPlan(p, t) /\ 0 \in 0..Len(p) /\ Len(p) # 0
  <2>1. IsPlan(p, t)
    BY PlansBegin, Zenon DEF Plans
  <2>. QED
    BY <2>1 DEF IsPlan
<1>3. Rest(p, 0) = p
  BY <1>2, OneStep, Zenon
<1>4. Progress(p, 0)'
  BY <1>1, <1>2, <1>3 DEF Progress
<1>5. Front(0)' \/ Back'
  <2>1. /\ Fits(t) => Fits(goal)' 
        /\ PrimaryFits => PrimaryFits'
    BY <1>1, Zenon DEF Fits, SizeOf, PrimaryFits, Valid, Entries
  <2>2. \A s \in Sides : Robust(s) => Robust(s)'
    BY <1>1, Zenon DEF Robust, Valid, Entries, SameCells
  <2>3. \A s \in Sides : Robust(s) /\ t = Entries(cache, s) => HasGoal(s)'
    <3>. TAKE s \in Sides
    <3>1. Robust(s) /\ t = Entries(cache, s) => Holds(cache, s, t) /\ cache[Header(s)] = HeaderOf(t)
      BY ValidSide DEF Robust
    <3>. QED
      BY <1>1, <3>1 DEF HasGoal, Holds
  <2>4. "primary" \in Sides /\ "backup" \in Sides /\ 0 <= 3
    BY DEF Sides
  <2>5. CASE Robust("primary") /\ (Fits(t) \/ t = Entries(cache, "primary"))
    BY <2>1, <2>2, <2>3, <2>4, <2>5, Zenon DEF Front
  <2>6. CASE Robust("backup") /\ t = Entries(cache, "backup") /\ Fits(t) /\ PrimaryFits
    BY <2>1, <2>2, <2>3, <2>4, <2>6, Zenon DEF Back
  <2>. QED
    BY <2>5, <2>6, Zenon
<1>6. p \in Plans(goal')
  BY <1>1, Zenon
<1>7. During'
  BY <1>2, <1>4, <1>5, <1>6, Zenon DEF During
<1>. QED
  BY <1>1, <1>7 DEF Kept

\* Nor does anything that leaves the disk alone, with a filesystem that only grows.
LEMMA QuietSpares ==
    ASSUME TableInv, TableInv', Kept, pc # "write", pc' # "write",
           pc' = "sync_resize" => Robust("primary"),
           UNCHANGED <<cache, disk, world>>, fs.size <= fs'.size
    PROVE  Kept'
<1>1. fs.size \in Int /\ fs'.size \in Int
  BY GptAssumption, SyncAssumption DEF TableInv, Types
<1>2. \A s \in Sides : /\ Valid(cache, s) => Valid(cache, s)'
                       /\ Valid(cache, s)' => Valid(cache, s)
                       /\ Robust(s) => Robust(s)'
  BY Zenon DEF Robust, Valid, Entries, SameCells
<1>3. \A s \in Sides : Valid(cache, s) /\ Fits(Entries(cache, s)) => Fits(Entries(cache, s))'
  <2>. TAKE s \in Sides
  <2>. DEFINE n == SizeOf(Entries(cache, s))
  <2>1. Valid(cache, s) => n \in Int
    BY ValidSide, Zenon
  <2>2. SizeOf(Entries(cache, s))' = n
    BY DEF SizeOf, Entries
  <2>. HIDE DEF n
  <2>3. Valid(cache, s) /\ n <= fs.size => n <= fs'.size
    BY <1>1, <2>1
  <2>. QED
    BY <2>2, <2>3 DEF Fits, n
<1>4. "primary" \in Sides /\ "backup" \in Sides
  BY DEF Sides
<1>5. Between
  BY Zenon DEF Kept
<1>6. PrimaryFits => PrimaryFits'
  BY <1>2, <1>3, <1>4 DEF PrimaryFits
<1>7. Robust("backup") => Valid(cache, "backup")
  BY Zenon DEF Robust
<1>8. Between'
  BY <1>2, <1>3, <1>4, <1>5, <1>6, <1>7, Zenon DEF Between
<1>9. BothValid(cache) => BothValid(cache)'
  BY <1>2, <1>4 DEF BothValid
<1>. QED
  BY <1>2, <1>4, <1>8, <1>9, Zenon DEF Kept

\* Two equal sides on the disk.
LEMMA SoundSpares ==
    ASSUME pc' # "write", Valid(cache', "primary"), Valid(cache', "backup"), disk' = cache'
    PROVE  Kept'
<1>1. Robust("primary")' /\ BothValid(cache)' /\ (disk = cache)'
  BY DEF Robust, SameCells, BothValid, Valid, Entries
<1>. QED
  BY <1>1, Zenon DEF Kept, Between

\* It holds to begin with.
LEMMA KeptStarts == Init => KeptInv
<1>. SUFFICES ASSUME Init PROVE Kept
  BY Zenon DEF KeptInv
<1>1. /\ pc = "idle" /\ disk = cache /\ cache = DiskOf(First) /\ First \in Layouts
  BY GptAssumption, Zenon DEF Init, GptInit
<1>2. \A s \in Sides : Valid(cache, s)
  <2>. TAKE s \in Sides
  <2>1. Header(s) \in Cells /\ Header(s)[1] = "header"
    BY Apart DEF Header
  <2>2. cache[Header(s)] = HeaderOf(First)
    BY <1>1, <2>1, Zenon DEF DiskOf
  <2>3. \A i \in Parts : Entry(s, i) \in Cells /\ Entry(s, i)[1] = "entry" /\ Entry(s, i)[3] = i
    BY Apart DEF Entry
  <2>4. Holds(cache, s, First)
    BY <1>1, <2>3, Zenon DEF DiskOf, Holds
  <2>5. Entries(cache, s) = First
    BY <1>1, <2>4, HeldEntries
  <2>. QED
    BY <2>2, <2>5 DEF Valid, HeaderOf
<1>3. Robust("primary") /\ BothValid(cache)
  BY <1>1, <1>2 DEF Robust, SameCells, BothValid, Sides
<1>. QED
  BY <1>1, <1>3 DEF Kept, Between

\* Every step keeps it.
LEMMA KeptStep ==
    ASSUME TableInv, TableInv', KeptInv, [Next]_vars
    PROVE  KeptInv'
<1>0. world' = world
  BY Zenon DEF Next, Sync, Table, Failure, GrowFilesystem, Fsck, vars, syncVars, SyncResize, SyncDone,
         SyncNothingToDo, sync_gpt_partition_to_ext4
<1>. SUFFICES ASSUME Spared, sidecar' = None PROVE Kept'
  BY <1>0 DEF KeptInv, Spared
<1>1. sidecar = None
  BY ZenonT(30) DEF Next, Sync, Table, Failure, GrowFilesystem, Fsck, vars, gptVars, SyncResize, SyncDone,
         SyncNothingToDo, sync_gpt_partition_to_ext4, resize_partition, Step, Verify, part_resize,
         repair_redundancy, backup_metadata, restore_metadata, Reread, Damage, Interrupted, PowerLoss
<1>2. Kept /\ Types /\ "primary" \in Sides /\ "backup" \in Sides
  BY <1>1 DEF KeptInv, TableInv, Sides
<1>3. pc # "write" => Between
  BY <1>2, Zenon DEF Kept
<1>4. fs.size \in Int /\ fs.size <= fs.size
  BY GptAssumption, SyncAssumption DEF TableInv, Types
<1>5. CASE UNCHANGED vars
  <2>1. UNCHANGED <<cache, disk, pc, todo, goal, fs, world>>
    BY <1>5, Zenon DEF vars, gptVars, syncVars
  <2>2. Between => Between'
    BY <2>1, Zenon DEF Between, PrimaryFits, Robust, Fits, SizeOf, Valid, Entries, SameCells
  <2>3. Robust("primary") => Robust("primary")'
    BY <2>1, Zenon DEF Robust, Valid, Entries, SameCells
  <2>4. \A j \in Nat : Front(j) => Front(j)'
    BY <2>1, <2>3, Zenon DEF Front, HasGoal, Holds, Fits, SizeOf
  <2>5. Back => Back'
    BY <2>1 DEF Back, PrimaryFits, Robust, HasGoal, Holds, Fits, SizeOf, Valid, Entries, SameCells
  <2>6. ASSUME During PROVE During'
    <3>1. PICK p \in Plans(goal) : \E j \in 0..Len(p) : Progress(p, j) /\ (Front(j) \/ Back)
      BY <2>6 DEF During
    <3>2. PICK j \in 0..Len(p) : Progress(p, j) /\ (Front(j) \/ Back)
      BY <3>1, Zenon
    <3>3. Progress(p, j)'
      BY <2>1, <3>2 DEF Progress, Holds
    <3>4. Front(j)' \/ Back'
      BY <2>4, <2>5, <3>2
    <3>5. p \in Plans(goal')
      BY <2>1, Zenon
    <3>. QED
      BY <3>2, <3>3, <3>4, <3>5 DEF During
  <2>7. BothValid(cache) => BothValid(cache)'
    BY <2>1 DEF BothValid, Valid, Entries
  <2>. QED
    BY <1>2, <2>1, <2>2, <2>3, <2>6, <2>7, Zenon DEF Kept
<1>6. CASE Sync
  <2>1. ASSUME NEW log \in BOOLEAN, sync_gpt_partition_to_ext4(log) PROVE Kept'
    <3>1. /\ pc = "idle" /\ SyncAccepts /\ Cut # Old /\ pc' = "sync_resize"
          /\ UNCHANGED <<cache, disk, fs, world>>
      BY <2>1, Zenon DEF sync_gpt_partition_to_ext4
    <3>. DEFINE t == Entries(cache, "primary")
    <3>2. Valid(cache, "primary") /\ Canonical(cache) = t
      BY <3>1, Zenon DEF SyncAccepts, AllSound, BothValid, Canonical
    <3>3. t \in Layouts /\ SizeOf(t) \in Int /\ Old = t[Part] /\ fs.size <= SizeOf(t)
      BY <1>2, <3>1, <3>2, ValidSide, Zenon DEF Old, SyncAccepts
    <3>. HIDE DEF t
    <3>4. SizeOf(t) # fs.size
      <4>1. t[Part] = [first |-> t[Part].first, last |-> t[Part].last]
            /\ t[Part].first \in Int /\ t[Part].last \in Int
        BY <3>3, GptAssumption, SyncAssumption DEF Layouts
      <4>2. SizeOf(t) = fs.size => t[Part].last = t[Part].first + fs.size - 1
        <5>1. SizeOf(t) = t[Part].last - t[Part].first + 1
          BY Zenon DEF SizeOf
        <5>. QED
          BY <4>1, <5>1
      <4>3. Cut = [first |-> t[Part].first, last |-> t[Part].first + fs.size - 1]
        BY <3>3 DEF Cut
      <4>. QED
        BY <3>1, <3>3, <4>1, <4>2, <4>3, Zenon
    <3>5. ~(SizeOf(t) <= fs.size)
      BY <1>4, <3>3, <3>4
    <3>6. Robust("primary")
      <4>1. CASE "power" \notin world
        BY <3>2, <4>1, Zenon DEF Robust
      <4>2. CASE "interrupt" \notin world
        <5>1. disk = cache
          BY <1>2, <3>1, <4>2, Zenon DEF Kept
        <5>. QED
          BY <3>2, <5>1, Zenon DEF Robust, SameCells
      <4>3. CASE "power" \in world /\ "interrupt" \in world
        <5>1. ~Fits(t)
          BY <1>6, <3>5, <4>3, Zenon DEF Fits, Sync
        <5>2. ~PrimaryFits
          BY <3>2, <5>1, Zenon DEF PrimaryFits, t
        <5>. QED
          BY <1>3, <3>1, <5>2, Zenon DEF Between
      <4>. QED
        BY <4>1, <4>2, <4>3
    <3>. QED
      BY <1>2, <1>4, <3>1, <3>6, QuietSpares, Zenon
  <2>2. ASSUME NEW log \in BOOLEAN, SyncNothingToDo(log) PROVE Kept'
    <3>1. pc = "idle" /\ pc' = "idle" /\ UNCHANGED <<cache, disk, fs, world>>
      BY <2>2, Zenon DEF SyncNothingToDo, gptVars
    <3>. QED
      BY <1>2, <1>4, <3>1, QuietSpares, Zenon
  <2>3. CASE SyncResize
    <3>1. PICK t \in Layouts :
             /\ SizeOf(t) = fs.size /\ StartWriting(Pair(t), t, "sync_done")
             /\ UNCHANGED <<cache, disk, sidecar, kernel>> /\ UNCHANGED syncVars
      BY <2>3, CutTable, Zenon
    <3>2. Fits(t) /\ Robust("primary") /\ Pair(t) \in Plans(t)
      BY <1>2, <1>4, <2>3, <3>1, Zenon DEF Fits, SyncResize, Kept, Plans
    <3>. QED
      BY <3>1, <3>2, StartSpares, Zenon
  <2>4. CASE SyncDone
    <3>1. pc = "sync_done" /\ pc' = "idle" /\ UNCHANGED <<cache, disk, fs, world>>
      BY <2>4 DEF SyncDone, Return
    <3>. QED
      BY <1>2, <1>4, <3>1, QuietSpares, Zenon
  <2>. QED
    BY <1>6, <2>1, <2>2, <2>3, <2>4, Zenon DEF Sync
<1>7. CASE Table
  <2>0. UNCHANGED syncVars /\ fs' = fs
    BY <1>7, Zenon DEF Table, syncVars
  <2>1. CASE Step
    <3>1. During'
      BY <1>2, <2>0, <2>1, StepSpares, Zenon DEF Step, Kept
    <3>2. pc' = "write"
      BY <2>1, Zenon DEF Step
    <3>. QED
      BY <3>1, <3>2, Zenon DEF Kept
  <2>2. ASSUME NEW reread \in BOOLEAN, Verify(reread) PROVE Kept'
    <3>1. disk = cache /\ AllSound(cache)
      BY <2>2, WrittenIsSound, Zenon DEF Verify
    <3>2. pc' = caller /\ UNCHANGED <<cache, disk>>
      BY <2>2, <3>1, Zenon DEF Verify, Return
    <3>3. Valid(cache', "primary") /\ Valid(cache', "backup") /\ pc' # "write"
      BY <1>2, <3>1, <3>2, Zenon DEF AllSound, BothValid, Types
    <3>. QED
      BY <3>1, <3>2, <3>3, SoundSpares, Zenon
  <2>3. CASE "edit" \in world /\ part_resize
    <3>1. PICK t \in Edits, i \in Parts :
             /\ t = [Canonical(cache) EXCEPT ![i] = t[i]] /\ resize_partition(i, t[i], "idle")
      BY <2>3 DEF part_resize
    <3>2. /\ pc = "idle" /\ StartWriting(Pair(t), t, "idle") /\ UNCHANGED <<cache, disk>>
      BY <2>3, <3>1, Zenon DEF resize_partition, part_resize
    <3>3. "interrupt" \notin world /\ "power" \notin world
      BY <2>3, Zenon DEF Spared
    <3>4. Robust("primary") /\ Fits(t)
      BY <1>2, <2>3, <3>2, <3>3, Zenon DEF Kept, BothValid, Robust, Fits
    <3>5. t \in Layouts /\ Pair(t) \in Plans(t)
      BY GptAssumption, Zenon DEF Plans
    <3>. QED
      BY <2>0, <3>2, <3>4, <3>5, StartSpares, Zenon
  <2>4. CASE repair_redundancy
    <3>. DEFINE t == Canonical(cache)
    <3>1. /\ pc = "idle" /\ MutationAccepts(cache) /\ StartWriting(Pair(t), t, "idle")
          /\ UNCHANGED <<cache, disk>>
      BY <2>4, Zenon DEF repair_redundancy, RepairAccepts
    <3>2. t \in Layouts /\ Pair(t) \in Plans(t)
      BY <1>2, <3>1, FindsChosen, Zenon DEF MutationAccepts, TableInv, Types, Plans
    <3>3. CASE Robust("primary")
      <4>1. t = Entries(cache, "primary")
        BY <3>3, Zenon DEF Robust, Canonical
      <4>. HIDE DEF t
      <4>. QED
        BY <2>0, <3>1, <3>2, <3>3, <4>1, StartSpares, Zenon
    <3>4. CASE Robust("backup") /\ Fits(Entries(cache, "backup")) /\ PrimaryFits
      <4>1. t = Entries(cache, "backup")
        BY <3>1, <3>4, Zenon DEF Robust, Canonical, MutationAccepts, SplitBrain, BothValid, sides_equal
      <4>. HIDE DEF t
      <4>. QED
        BY <2>0, <3>1, <3>2, <3>4, <4>1, StartSpares, Zenon
    <3>. QED
      BY <1>3, <3>1, <3>3, <3>4, Zenon DEF Between
  <2>5. CASE backup_metadata
    <3>1. pc = "idle" /\ UNCHANGED <<cache, disk, pc>>
      BY <2>5, Zenon DEF backup_metadata
    <3>. QED
      BY <1>0, <1>2, <1>4, <2>0, <3>1, QuietSpares, Zenon
  <2>6. CASE restore_metadata
    BY <1>1, <2>6, Zenon DEF restore_metadata
  <2>7. CASE Reread
    <3>1. pc = "idle" /\ UNCHANGED <<cache, disk, pc>>
      BY <2>7, Zenon DEF Reread
    <3>. QED
      BY <1>0, <1>2, <1>4, <2>0, <3>1, QuietSpares
  <2>8. CASE "damage" \in world /\ Damage
    <3>1. pc = "idle" /\ pc' = "idle" /\ disk = cache /\ disk' = cache' /\ BothValid(cache)
      BY <2>8 DEF Damage
    <3>2. \E s \in Sides : SameCells(cache', cache, s)
      <4>0. cache = [x \in Cells |-> cache[x]]
        BY DEF TableInv, Image
      <4>1. CASE cache' = [cache EXCEPT ![Mbr] = FALSE]
        BY <1>2, <4>0, <4>1, Apart, Zenon DEF SameCells
      <4>2. ASSUME NEW s \in Sides, NEW r \in Sides, r # s, NEW f,
                   cache' = [cache EXCEPT ![Header(s)].field = f]
            PROVE  SameCells(cache', cache, r)
        BY <4>0, <4>2, Apart, Zenon DEF SameCells
      <4>3. ASSUME NEW s \in Sides, NEW r \in Sides, r # s, NEW i \in Parts,
                   cache' = [cache EXCEPT ![Entry(s, i)] = [first |-> 0, last |-> 0]]
            PROVE  SameCells(cache', cache, r)
        BY <4>0, <4>3, Apart DEF SameCells
      <4>4. \A s \in Sides : \E r \in Sides : r # s
        BY DEF Sides
      <4>. QED
        BY <2>8, <4>1, <4>2, <4>3, <4>4, Zenon DEF Damage, Sides
    <3>3. PICK s \in Sides : SameCells(cache', cache, s)
      BY <3>2, Zenon
    <3>4. Robust(s)
      BY <3>1, Zenon DEF Robust, SameCells, BothValid, Sides
    <3>5. Robust(s)'
      BY <1>0, <3>1, <3>3, <3>4, StaysRobust, Zenon DEF SameCells
    <3>6. Fits(Entries(cache, "backup"))' /\ PrimaryFits'
      BY <1>0, <2>8 DEF Spared, Fits, PrimaryFits
    <3>7. "edit" \notin world
      BY <2>8 DEF Spared
    <3>8. Between'
      BY <3>5, <3>6, Zenon DEF Between, Sides
    <3>. QED
      BY <1>0, <3>1, <3>7, <3>8, Zenon DEF Kept
  <2>. QED
    BY <1>7, <2>1, <2>2, <2>3, <2>4, <2>5, <2>6, <2>7, <2>8, Zenon DEF Table
<1>8. CASE "interrupt" \in world /\ Interrupted /\ UNCHANGED <<fs, world>>
  <2>1. pc' = "idle" /\ UNCHANGED <<cache, disk>> /\ "edit" \notin world
    BY <1>8 DEF Interrupted, Return, Spared
  <2>2. Between
    <3>1. CASE pc = "write"
      <4>1. (\E j \in Nat : Front(j)) \/ Back
        <5>1. PICK p \in Plans(goal) : \E j \in 0..Len(p) : Front(j) \/ Back
          BY <1>2, <3>1, Zenon DEF Kept, During
        <5>. QED
          BY <5>1
      <4>2. Back => Fits(Entries(cache, "backup"))
        BY <3>1, HeldEntries, Zenon DEF Back, HasGoal, TableInv, Writing, Types
      <4>. QED
        BY <4>1, <4>2 DEF Front, Back, Between
    <3>. QED
      BY <1>3, <3>1, Zenon
  <2>3. Between'
    BY <1>8, <2>1, <2>2, Zenon DEF Between, PrimaryFits, Robust, Fits, SizeOf, Valid, Entries, SameCells
  <2>. QED
    BY <1>8, <2>1, <2>3, Zenon DEF Kept
<1>9. CASE "power" \in world /\ PowerLoss /\ UNCHANGED <<fs, world>>
  <2>1. pc' = "idle" /\ disk' = cache' /\ "edit" \notin world
    BY <1>9, Zenon DEF PowerLoss, Return, Spared
  <2>2. \E s \in Sides : Robust(s) /\ (s = "backup" => Fits(Entries(cache, "backup")))
    <3>1. CASE pc = "write"
      <4>1. (\E j \in Nat : Front(j)) \/ Back
        <5>1. PICK p \in Plans(goal) : \E j \in 0..Len(p) : Front(j) \/ Back
          BY <1>2, <3>1 DEF Kept, During
        <5>. QED
          BY <5>1
      <4>2. Back => Fits(Entries(cache, "backup"))
        BY <3>1, HeldEntries DEF Back, HasGoal, TableInv, Writing, Types
      <4>. QED
        BY <1>2, <4>1, <4>2, Zenon DEF Front, Back
    <3>. QED
      BY <1>2, <1>3, <3>1, Zenon DEF Between
  <2>3. PICK s \in Sides : Robust(s) /\ (s = "backup" => Fits(Entries(cache, "backup")))
    BY <2>2, Zenon
  <2>4. SameCells(cache', cache, s)
    <3>1. PICK kept : cache' = [x \in DOMAIN cache |-> IF x \in kept THEN cache[x] ELSE disk[x]]
      BY <1>9, Zenon DEF PowerLoss
    <3>2. DOMAIN cache = Cells
      BY Zenon DEF TableInv, Image
    <3>. QED
      BY <1>9, <2>3, <3>1, <3>2, Apart, Zenon DEF SameCells, Robust
  <2>5. Robust(s)' /\ Entries(cache', s) = Entries(cache, s)
    BY <1>0, <2>1, <2>3, <2>4, StaysRobust, Zenon DEF SameCells
  <2>6. CASE s = "primary" \/ Valid(cache', "primary")
    <3>1. Robust("primary")'
      BY <2>1, <2>5, <2>6, Zenon DEF Robust, Valid, Entries, SameCells
    <3>. QED
      BY <2>1, <1>0, <3>1, Zenon DEF Kept, Between
  <2>7. CASE s = "backup" /\ ~Valid(cache', "primary")
    <3>1. PrimaryFits'
      BY <2>7, Zenon DEF PrimaryFits, Valid, Entries
    <3>2. Fits(Entries(cache, "backup"))'
      BY <1>9, <2>3, <2>5, <2>7, Zenon DEF Fits, SizeOf, Entries
    <3>. QED
      BY <2>1, <1>0, <2>5, <2>7, <3>1, <3>2, Zenon DEF Kept, Between
  <2>. QED
    BY <2>6, <2>7, Zenon DEF Sides
<1>10. CASE GrowFilesystem
  <2>1. PICK n \in (fs.size + 1)..SizeOf(kernel), c \in BOOLEAN : fs' = [size |-> n, clean |-> c]
    BY <1>10, Zenon DEF GrowFilesystem
  <2>2. pc = "idle" /\ kernel \in Layouts /\ UNCHANGED <<cache, disk, pc, world>>
    BY <1>2, <1>10, Zenon DEF GrowFilesystem, Types, gptVars
  <2>3. SizeOf(kernel) \in Int
    BY <2>2, GptAssumption, SyncAssumption DEF SizeOf, Layouts
  <2>4. fs.size <= fs'.size
    BY <1>4, <2>1, <2>3
  <2>. QED
    BY <1>2, <2>2, <2>4, QuietSpares, Zenon
<1>11. CASE Fsck
  <2>1. pc = "idle" /\ fs' = [fs EXCEPT !.clean = TRUE] /\ UNCHANGED <<cache, disk, pc, world>>
    BY <1>11 DEF Fsck, gptVars
  <2>2. fs'.size = fs.size
    BY <1>2, <2>1, Zenon DEF Types
  <2>. QED
    BY <1>2, <1>4, <2>1, <2>2, QuietSpares
<1>. QED
  BY <1>5, <1>6, <1>7, <1>8, <1>9, <1>10, <1>11 DEF Next, Failure

\* NeverLost for every disk, and every mixture of commands and failures but those
\* in which it is known to fail: wherever write_pair and restore_metadata are cut
\* off, one copy of the table is valid, or a sidecar exists.  The order of
\* write_pair is what it rests on: the backup side is flushed before the primary
\* is touched, and a repair rewrites the side it works from to what it is.
THEOREM TableIsNeverLost == Spec => [](Spared => NeverLost)
<1>1. TableInv /\ KeptInv => (Spared => NeverLost)
  <2>. SUFFICES ASSUME TableInv, KeptInv, Spared, sidecar = None PROVE Canonical(cache) # None
    BY DEF NeverLost
  <2>1. \E s \in Sides : Valid(cache, s)
    <3>1. CASE pc = "write"
      <4>1. PICK p \in Plans(goal) : \E j \in 0..Len(p) : Front(j) \/ Back
        BY <3>1, Zenon DEF KeptInv, Kept, During
      <4>. QED
        BY <4>1, Zenon DEF Front, Back, Robust, Sides
    <3>2. CASE pc # "write"
      BY <3>2, Zenon DEF KeptInv, Kept, Between, Robust, Sides
    <3>. QED
      BY <3>1, <3>2, Zenon
  <2>2. \A s \in Sides : Valid(cache, s) => Entries(cache, s) # None
    BY ValidSide
  <2>. QED
    BY <2>1, <2>2 DEF Canonical, Sides
<1>2. Spec => []KeptInv
  <2>1. TableInv /\ TableInv' /\ KeptInv /\ [Next]_vars => KeptInv'
    BY KeptStep
  <2>. QED
    BY <2>1, TableInvariant, KeptStarts, PTL DEF Spec
<1>. QED
  BY <1>1, <1>2, TableInvariant, PTL

-----------------------------------------------------------------------------
\* Where a journal that says complete may be believed: an operator may undo a cut
\* by an edit or a restore; and of interruption and power loss together with a
\* kernel that reads the table unasked, or with damage, the synchronization does
\* not know that what it finds cut is not flushed.
Trusted ==
    "sync" \in world =>
        /\ world \cap {"edit", "restore"} = {}
        /\ {"interrupt", "power"} \subseteq world => world \cap {"reread", "damage"} = {}

Length(range) == range.last - range.first + 1

\* What a command may come to read.
Images == IF "power" \in world THEN {cache, disk} ELSE {cache}

Sealed(h) == h.field = "ok" => SizeOf(h.crc) = Target

\* Whatever cells of the images are mixed, side s is not valid with a partition
\* of another size.
NeverLong(s) ==
    \/ \A c \in Images : Sealed(c[Header(s)])
    \/ \A c \in Images : Length(c[Entry(s, Part)]) = Target

\* The cut is for good.
Settled ==
    /\ \A s \in Sides : NeverLong(s)
    /\ pc = "write" => SizeOf(goal) = Target
    /\ pc = "sync_resize" => fs.size = Target

\* The running synchronization that has the journal makes it so.
Logging ==
    journal => /\ pc = "sync_resize" => fs.size = Target
               /\ pc = "write" /\ caller = "sync_done" => SizeOf(goal) = Target
               /\ pc = "sync_done" => Settled

\* The first table, cut.
Goal ==
    [First EXCEPT ![Part] = [first |-> First[Part].first, last |-> First[Part].first + Target - 1]]

\* All cells are of the first table or of the cut one.
OfTwo(c) ==
    /\ \A s \in Sides : c[Header(s)] \in {HeaderOf(First), HeaderOf(Goal)}
    /\ \A s \in Sides, i \in Parts : c[Entry(s, i)] \in {First[i], Goal[i]}

IsCut(c) == c[Header("primary")] = HeaderOf(Goal)

\* The backup is cut before the primary, and neither is made longer again.
Ordered ==
    /\ IsCut(disk) => IsCut(cache)
    /\ IsCut(cache) => NeverLong("backup") /\ (pc = "write" => goal = Goal)

\* A kernel that knows of the cut read it from the disk.
Known == kernel # None /\ SizeOf(kernel) = Target => Settled

TwoTables == choices \subseteq {First, Goal} /\ OfTwo(cache) /\ OfTwo(disk) /\ Ordered

\* With interruption and power loss both, all tables are known until the
\* filesystem grows.
Cutting ==
    /\ phase = "complete" => Settled
    /\ Logging
    /\ "interrupt" \notin world /\ pc # "write" => disk = cache
    /\ {"interrupt", "power"} \subseteq world /\ fs.size = Target => TwoTables /\ Known

CutInv == "sync" \in world /\ Trusted => Cutting

\* A cell of an image that was there before, or is cut, changes nothing.
LEMMA NeverLonger ==
    ASSUME NEW s \in Sides, NeverLong(s),
           \A c \in Images' : \/ \E d \in Images : c[Header(s)] = d[Header(s)]
                              \/ Sealed(c[Header(s)]),
           \A c \in Images' : \/ \E d \in Images : c[Entry(s, Part)] = d[Entry(s, Part)]
                              \/ Length(c[Entry(s, Part)]) = Target
    PROVE  NeverLong(s)'
<1>1. CASE \A c \in Images : Sealed(c[Header(s)])
  <2>1. \A c \in Images' : Sealed(c[Header(s)])
    BY <1>1, Zenon
  <2>. QED
    BY <2>1, Zenon DEF NeverLong
<1>2. CASE \A c \in Images : Length(c[Entry(s, Part)]) = Target
  <2>1. \A c \in Images' : Length(c[Entry(s, Part)]) = Target
    BY <1>2, Zenon
  <2>. QED
    BY <2>1, Zenon DEF NeverLong
<1>. QED
  BY <1>1, <1>2, Zenon DEF NeverLong

\* A side that is valid then is cut.
LEMMA ValidIsCut ==
    ASSUME NEW c \in Images, NEW s \in Sides, NeverLong(s), Valid(c, s)
    PROVE  SizeOf(Entries(c, s)) = Target
<1>1. Entries(c, s)[Part] = c[Entry(s, Part)]
  BY SyncAssumption DEF Entries
<1>2. SizeOf(Entries(c, s)) = Length(c[Entry(s, Part)])
  BY <1>1, Zenon DEF SizeOf, Length
<1>3. Sealed(c[Header(s)]) => SizeOf(Entries(c, s)) = Target
  BY Zenon DEF Sealed, Valid
<1>. QED
  BY <1>2, <1>3, Zenon DEF NeverLong

\* So is what a command reads.
LEMMA ReadsCut ==
    ASSUME \A s \in Sides : NeverLong(s), Canonical(cache) # None
    PROVE  SizeOf(Canonical(cache)) = Target
<1>1. cache \in Images /\ "primary" \in Sides /\ "backup" \in Sides
  BY DEF Images, Sides
<1>2. CASE Valid(cache, "primary")
  BY <1>1, <1>2, ValidIsCut, Zenon DEF Canonical
<1>3. CASE ~Valid(cache, "primary") /\ Valid(cache, "backup")
  BY <1>1, <1>3, ValidIsCut, Zenon DEF Canonical
<1>. QED
  BY <1>2, <1>3, Zenon DEF Canonical

\* Both sides hold a table of the right size.
LEMMA BothCut ==
    ASSUME NEW t, SizeOf(t) = Target, \A c \in Images, s \in Sides : c[Header(s)].crc = t
    PROVE  \A s \in Sides : NeverLong(s)
BY Zenon DEF NeverLong, Sealed

\* When no cell changes.
LEMMA StandsSettled ==
    ASSUME Settled, cache' = cache, disk' = disk, world' = world,
           pc' = "write" => SizeOf(goal') = Target,
           pc' = "sync_resize" => fs'.size = Target
    PROVE  Settled'
<1>1. Images' = Images
  BY Zenon DEF Images
<1>2. \A s \in Sides : NeverLong(s)'
  BY <1>1, Zenon DEF Settled, NeverLong
<1>. QED
  BY <1>2, Zenon DEF Settled

\* A step of write_pair makes no side longer than its goal.
LEMMA StepShortens ==
    ASSUME TableInv, Step, UNCHANGED syncVars, SizeOf(goal) = Target, NEW s \in Sides, NeverLong(s)
    PROVE  NeverLong(s)'
<1>1. PICK p \in Plans(goal) : \E j \in 0..Len(p) : Progress(p, j)
  BY DEF TableInv, Writing, Step
<1>2. PICK j \in 0..Len(p) : Progress(p, j)
  BY <1>1, Zenon
<1>3. Effect(j) /\ world' = world
  BY <1>2, StepGoes DEF syncVars
<1>4. \A c \in Images' : c = cache' \/ c \in Images
  BY <1>3, Zenon DEF Images, Effect
<1>5. cache \in Images
  BY Zenon DEF Images
<1>6. cache'[Header(s)] = cache[Header(s)] \/ Sealed(cache'[Header(s)])
  <2>1. cache'[Header(s)] \in {cache[Header(s)], HeaderOf(goal)}
    BY <1>3, Zenon DEF Effect
  <2>2. Sealed(HeaderOf(goal))
    BY Zenon DEF Sealed, HeaderOf
  <2>. QED
    BY <2>1, <2>2, Zenon
<1>7. cache'[Entry(s, Part)] = cache[Entry(s, Part)] \/ Length(cache'[Entry(s, Part)]) = Target
  BY <1>3, SyncAssumption, Zenon DEF Effect, Holds, SizeOf, Length
<1>. QED
  BY <1>4, <1>5, <1>6, <1>7, NeverLonger, Zenon

\* A power loss mixes the cells of the two images.
LEMMA MixShortens ==
    ASSUME TableInv, PowerLoss, "power" \in world, world' = world, NEW s \in Sides, NeverLong(s)
    PROVE  NeverLong(s)'
<1>1. PICK kept : cache' = [x \in DOMAIN cache |-> IF x \in kept THEN cache[x] ELSE disk[x]]
  BY Zenon DEF PowerLoss
<1>2. DOMAIN cache = Cells /\ disk' = cache'
  BY DEF TableInv, Image, PowerLoss
<1>3. Images = {cache, disk} /\ Images' = {cache'}
  BY <1>2, Zenon DEF Images
<1>4. \A x \in Cells : cache'[x] = cache[x] \/ cache'[x] = disk[x]
  BY <1>1, <1>2
<1>5. Header(s) \in Cells /\ Entry(s, Part) \in Cells
  BY Apart, SyncAssumption, Zenon
<1>. QED
  BY <1>3, <1>4, <1>5, NeverLonger, Zenon

\* A bad sector makes no side longer: before it both are valid.
LEMMA DamageSettles ==
    ASSUME TableInv, Settled, Damage, UNCHANGED syncVars
    PROVE  Settled'
<1>1. /\ pc = "idle" /\ pc' = pc /\ cache = disk /\ disk' = cache' /\ world' = world
      /\ BothValid(cache)
  BY DEF Damage, syncVars
<1>2. cache \in Images /\ Images' = {cache'}
  BY <1>1, Zenon DEF Images
<1>3. \A s \in Sides : cache[Header(s)].field = "ok" /\ SizeOf(cache[Header(s)].crc) = Target
  <2>. TAKE s \in Sides
  <2>1. Valid(cache, s) /\ NeverLong(s)
    BY <1>1, Zenon DEF BothValid, Sides, Settled
  <2>. QED
    BY <1>2, <2>1, ValidIsCut, Zenon DEF Valid
<1>4. \A s \in Sides : /\ cache[Header(s)] \in [field : Fields, crc : choices] /\ Header(s) \in Cells
  BY Apart DEF TableInv, Image
<1>5. DOMAIN cache = Cells
  BY DEF TableInv, Image
<1>6. \A s \in Sides : cache'[Header(s)].crc = cache[Header(s)].crc
  <2>1. CASE cache' = [cache EXCEPT ![Mbr] = FALSE]
    BY <1>5, <2>1, Apart, Zenon
  <2>2. ASSUME NEW r \in Sides, NEW f \in {"sum", "range"},
               cache' = [cache EXCEPT ![Header(r)].field = f]
        PROVE  \A s \in Sides : cache'[Header(s)].crc = cache[Header(s)].crc
    <3>. TAKE s \in Sides
    <3>1. CASE Header(s) # Header(r)
      BY <1>4, <1>5, <2>2, <3>1, Zenon
    <3>2. CASE Header(s) = Header(r)
      <4>. DEFINE h == cache[Header(s)]
      <4>1. cache'[Header(s)] = [h EXCEPT !.field = f]
        BY <1>4, <1>5, <2>2, <3>2
      <4>2. h \in [field : Fields, crc : choices]
        BY <1>4, Zenon
      <4>. HIDE DEF h
      <4>3. [h EXCEPT !.field = f].crc = h.crc
        BY <4>2
      <4>. QED
        BY <4>1, <4>3 DEF h
    <3>. QED
      BY <3>1, <3>2, Zenon
  <2>3. ASSUME NEW r \in Sides, NEW i \in Parts,
               cache' = [cache EXCEPT ![Entry(r, i)] = [first |-> 0, last |-> 0]]
        PROVE  \A s \in Sides : cache'[Header(s)].crc = cache[Header(s)].crc
    BY <1>4, <1>5, <2>3, Apart, Zenon
  <2>. QED
    BY <2>1, <2>2, <2>3 DEF Damage, Sides
<1>7. \A s \in Sides : NeverLong(s)'
  <2>1. \A c \in Images', s \in Sides : Sealed(c[Header(s)])
    BY <1>2, <1>3, <1>6, Zenon DEF Sealed
  <2>. QED
    BY <2>1, Zenon DEF NeverLong
<1>. QED
  BY <1>1, <1>7 DEF Settled

\* Every step but an operator's edit or restore keeps it so.
LEMMA StaysSettled ==
    ASSUME TableInv, Settled, [Next]_vars, world \cap {"edit", "restore"} = {}
    PROVE  Settled'
<1>0. Types /\ fs.size \in Int /\ Target \in Int /\ Target <= fs.size
  BY GptAssumption, SyncAssumption DEF TableInv, Types
<1>1. Canonical(cache) # None => SizeOf(Canonical(cache)) = Target
  BY ReadsCut, Zenon DEF Settled
<1>2. CASE UNCHANGED vars
  <2>1. UNCHANGED <<cache, disk, pc, goal, fs, world>>
    BY <1>2, Zenon DEF vars, gptVars, syncVars
  <2>. QED
    BY <2>1, StandsSettled, Zenon DEF Settled
<1>3. CASE Sync
  <2>1. CASE \E log \in BOOLEAN : sync_gpt_partition_to_ext4(log)
    <3>1. pc' = "sync_resize" /\ UNCHANGED <<cache, disk, fs, world>> /\ SyncAccepts
      BY <2>1, Zenon DEF sync_gpt_partition_to_ext4
    <3>2. fs.size <= Target
      BY <1>1, <3>1, Zenon DEF SyncAccepts, AllSound, TableRead
    <3>3. fs'.size = Target
      BY <1>0, <3>1, <3>2
    <3>. QED
      BY <3>1, <3>3, StandsSettled, Zenon
  <2>2. CASE \E log \in BOOLEAN : SyncNothingToDo(log)
    <3>1. pc = "idle" /\ UNCHANGED <<gptVars, fs, world>>
      BY <2>2, Zenon DEF SyncNothingToDo
    <3>. QED
      BY <3>1, StandsSettled, Zenon DEF gptVars
  <2>3. CASE SyncResize
    <3>1. PICK t \in Layouts :
             /\ SizeOf(t) = fs.size /\ StartWriting(Pair(t), t, "sync_done")
             /\ UNCHANGED <<cache, disk>> /\ UNCHANGED syncVars
      BY <2>3, CutTable, Zenon
    <3>2. pc' = "write" /\ SizeOf(goal') = Target /\ world' = world
      BY <2>3, <3>1, Zenon DEF SyncResize, StartWriting, Settled, syncVars
    <3>. QED
      BY <3>1, <3>2, StandsSettled, Zenon
  <2>4. CASE SyncDone
    <3>1. pc' = "idle" /\ UNCHANGED <<cache, disk, world>>
      BY <2>4 DEF SyncDone, Return
    <3>. QED
      BY <3>1, StandsSettled, Zenon
  <2>. QED
    BY <1>3, <2>1, <2>2, <2>3, <2>4, Zenon DEF Sync
<1>4. CASE Table
  <2>0. UNCHANGED syncVars /\ world' = world /\ fs' = fs
    BY <1>4 DEF Table, syncVars
  <2>1. CASE Step
    <3>1. pc = "write" /\ UNCHANGED <<pc, goal>> /\ SizeOf(goal) = Target
      BY <2>1 DEF Step, Settled
    <3>2. \A s \in Sides : NeverLong(s)'
      BY <2>0, <2>1, <3>1, StepShortens, Zenon DEF Settled
    <3>. QED
      BY <3>1, <3>2, Zenon DEF Settled
  <2>2. ASSUME NEW reread \in BOOLEAN, Verify(reread) PROVE Settled'
    <3>1. pc' \in {caller, "idle"} /\ UNCHANGED <<cache, disk>>
      BY <2>2, Zenon DEF Verify, Return
    <3>. QED
      BY <1>0, <2>0, <3>1, StandsSettled, Zenon DEF Types
  <2>3. CASE repair_redundancy
    <3>. DEFINE t == Canonical(cache)
    <3>1. /\ t # None /\ StartWriting(Pair(t), t, "idle") /\ UNCHANGED <<cache, disk>>
      BY <2>3 DEF repair_redundancy, RepairAccepts, MutationAccepts
    <3>2. pc' = "write" /\ SizeOf(goal') = Target
      BY <1>1, <3>1, Zenon DEF StartWriting
    <3>. QED
      BY <2>0, <3>1, <3>2, StandsSettled, Zenon
  <2>4. CASE backup_metadata
    <3>1. pc = "idle" /\ UNCHANGED <<cache, disk, pc>>
      BY <2>4, Zenon DEF backup_metadata
    <3>. QED
      BY <2>0, <3>1, StandsSettled, Zenon
  <2>5. CASE Reread
    <3>1. pc = "idle" /\ UNCHANGED <<cache, disk, pc>>
      BY <2>5 DEF Reread
    <3>. QED
      BY <2>0, <3>1, StandsSettled
  <2>6. CASE Damage
    BY <2>0, <2>6, DamageSettles, Zenon
  <2>. QED
    BY <1>4, <2>1, <2>2, <2>3, <2>4, <2>5, <2>6, Zenon DEF Table
<1>5. CASE Failure
  <2>1. CASE Interrupted
    <3>1. pc' = "idle" /\ UNCHANGED <<cache, disk, world>>
      BY <1>5, <2>1, Zenon DEF Failure, Interrupted, Return
    <3>. QED
      BY <3>1, StandsSettled
  <2>2. CASE PowerLoss /\ "power" \in world
    <3>1. pc' = "idle" /\ world' = world
      BY <1>5, <2>2 DEF Failure, PowerLoss, Return
    <3>2. \A s \in Sides : NeverLong(s)'
      BY <2>2, <3>1, MixShortens, Zenon DEF Settled
    <3>. QED
      BY <3>1, <3>2, Zenon DEF Settled
  <2>. QED
    BY <1>5, <2>1, <2>2, Zenon DEF Failure
<1>6. CASE GrowFilesystem \/ Fsck
  <2>1. pc = "idle" /\ UNCHANGED <<cache, disk, pc, world>>
    BY <1>6 DEF GrowFilesystem, Fsck, gptVars
  <2>. QED
    BY <2>1, StandsSettled
<1>. QED
  BY <1>2, <1>3, <1>4, <1>5, <1>6, Zenon DEF Next

\* A behaviour stays in its world.
LEMMA SameWorld == [Next]_vars => world' = world
BY Zenon DEF Next, Sync, Table, Failure, GrowFilesystem, Fsck, vars, syncVars, SyncResize, SyncDone,
       SyncNothingToDo, sync_gpt_partition_to_ext4

\* What is written and verified is settled when it has the right size.
LEMMA VerifySettles ==
    ASSUME TableInv, NEW reread \in BOOLEAN, Verify(reread), UNCHANGED syncVars, SizeOf(goal) = Target
    PROVE  Settled'
<1>1. disk = cache /\ AllSound(cache) /\ \A s \in Sides : cache[Header(s)] = HeaderOf(goal)
  BY WrittenIsSound, Zenon DEF Verify
<1>2. pc' = caller /\ UNCHANGED <<cache, disk>> /\ caller \in {"idle", "sync_done"}
  BY <1>1 DEF Verify, Return, TableInv, Types
<1>3. \A c \in Images' : c = cache
  BY <1>1, <1>2, Zenon DEF Images
<1>4. HeaderOf(goal).crc = goal
  BY DEF HeaderOf
<1>5. \A s \in Sides : NeverLong(s)'
  <2>1. \A c \in Images', s \in Sides : Sealed(c[Header(s)])
    BY <1>1, <1>3, <1>4, Zenon DEF Sealed
  <2>. QED
    BY <2>1, Zenon DEF NeverLong
<1>. QED
  BY <1>2, <1>5, Zenon DEF Settled

\* A synchronization that has the journal and finds nothing to do may say complete.
LEMMA NothingToDo ==
    ASSUME TableInv, Cutting, NEW log \in BOOLEAN, SyncNothingToDo(log)
    PROVE  Settled
<1>. DEFINE t == Canonical(cache)
<1>1. pc = "idle" /\ SyncAccepts /\ Cut = Old /\ fs.size = Target
  BY Zenon DEF SyncNothingToDo, validate_journal
<1>2. BothValid(cache) /\ t # None /\ ~SplitBrain(cache) /\ kernel # None /\ SizeOf(kernel) = SizeOf(t)
  BY <1>1, Zenon DEF SyncAccepts, AllSound, TableRead
<1>3. t \in Layouts
  BY <1>2, FindsChosen, Zenon DEF TableInv, Types
<1>4. SizeOf(t) = Target
  <2>1. Cut.last = Old.first + fs.size - 1
    BY Zenon DEF Cut
  <2>2. t[Part].last = t[Part].first + Target - 1
    BY <1>1, <2>1, Zenon DEF Old
  <2>3. t[Part].first \in Int /\ Target \in Int
    BY <1>3, GptAssumption, SyncAssumption DEF Layouts
  <2>. HIDE DEF t
  <2>. QED
    BY <2>2, <2>3 DEF SizeOf
<1>5. \A s \in Sides : cache[Header(s)].crc = t
  BY <1>2, Zenon DEF BothValid, SplitBrain, sides_equal, Canonical, Valid, Sides
<1>6. CASE \A c \in Images : c = cache
  <2>1. \A c \in Images, s \in Sides : c[Header(s)].crc = t
    BY <1>5, <1>6, Zenon
  <2>2. \A s \in Sides : NeverLong(s)
    BY <1>4, <2>1, BothCut, Zenon
  <2>. QED
    BY <1>1, <2>2 DEF Settled
<1>7. CASE {"interrupt", "power"} \subseteq world
  BY <1>1, <1>2, <1>4, <1>7 DEF Cutting, Known
<1>8. CASE "power" \notin world
  <2>1. \A c \in Images : c = cache
    BY <1>8, Zenon DEF Images
  <2>. QED
    BY <1>6, <2>1, Zenon
<1>9. CASE "interrupt" \notin world
  <2>1. disk = cache
    BY <1>1, <1>9 DEF Cutting
  <2>2. \A c \in Images : c = cache
    BY <2>1, Zenon DEF Images
  <2>. QED
    BY <1>6, <2>2, Zenon
<1>. QED
  BY <1>7, <1>8, <1>9

\* Phase complete is logged only then.
LEMMA CompleteStep ==
    ASSUME TableInv, Cutting, [Next]_vars, world \cap {"edit", "restore"} = {}, phase' = "complete"
    PROVE  Settled'
<1>1. CASE phase = "complete"
  BY <1>1, StaysSettled, Zenon DEF Cutting
<1>2. CASE phase # "complete"
  <2>1. Sync
    BY <1>2, Zenon DEF Next, Table, Failure, GrowFilesystem, Fsck, vars, syncVars
  <2>2. ASSUME NEW log \in BOOLEAN, sync_gpt_partition_to_ext4(log) PROVE FALSE
    BY <1>2, <2>2 DEF sync_gpt_partition_to_ext4
  <2>3. ASSUME NEW log \in BOOLEAN, SyncNothingToDo(log) PROVE Settled
    BY <2>3, NothingToDo, Zenon
  <2>4. ASSUME SyncResize PROVE FALSE
    BY <1>2, <2>4, Zenon DEF SyncResize, syncVars
  <2>5. ASSUME SyncDone PROVE Settled
    BY <1>2, <2>5 DEF SyncDone, Cutting, Logging
  <2>6. Settled
    BY <2>1, <2>2, <2>3, <2>4, <2>5, Zenon DEF Sync
  <2>. QED
    BY <2>6, StaysSettled, Zenon
<1>. QED
  BY <1>1, <1>2, Zenon

\* The synchronization that has the journal cuts to the target.
LEMMA LoggingStep ==
    ASSUME TableInv, Cutting, [Next]_vars, world \cap {"edit", "restore"} = {}
    PROVE  Logging'
<1>1. Logging
  BY Zenon DEF Cutting
<1>2. CASE UNCHANGED vars
  <2>1. UNCHANGED <<pc, caller, goal, fs, journal>>
    BY <1>2 DEF vars, gptVars, syncVars
  <2>. QED
    BY <1>1, <2>1, StaysSettled, Zenon DEF Logging
<1>3. CASE Sync
  <2>1. ASSUME NEW log \in BOOLEAN, sync_gpt_partition_to_ext4(log) PROVE Logging'
    <3>1. pc' = "sync_resize" /\ journal' = log /\ fs' = fs /\ (log => fs.size = Target)
      BY <2>1 DEF sync_gpt_partition_to_ext4, validate_journal
    <3>. QED
      BY <3>1, Zenon DEF Logging
  <2>2. ASSUME NEW log \in BOOLEAN, SyncNothingToDo(log) PROVE Logging'
    <3>1. pc' = "idle"
      BY <2>2, Zenon DEF SyncNothingToDo, gptVars
    <3>. QED
      BY <3>1, Zenon DEF Logging
  <2>3. CASE SyncResize
    <3>1. PICK t \in Layouts :
             SizeOf(t) = fs.size /\ StartWriting(Pair(t), t, "sync_done") /\ UNCHANGED syncVars
      BY <2>3, CutTable, Zenon
    <3>2. pc = "sync_resize" /\ pc' = "write" /\ goal' = t /\ journal' = journal
      BY <2>3, <3>1, Zenon DEF SyncResize, StartWriting, syncVars
    <3>. QED
      BY <1>1, <3>1, <3>2, Zenon DEF Logging
  <2>4. CASE SyncDone
    <3>1. journal' = FALSE
      BY <2>4 DEF SyncDone
    <3>. QED
      BY <3>1, Zenon DEF Logging
  <2>. QED
    BY <1>3, <2>1, <2>2, <2>3, <2>4, Zenon DEF Sync
<1>4. CASE Table
  <2>0. UNCHANGED syncVars /\ journal' = journal /\ fs' = fs
    BY <1>4, Zenon DEF Table, syncVars
  <2>1. CASE Step
    <3>1. pc = "write" /\ UNCHANGED <<pc, goal, caller>>
      BY <2>1 DEF Step
    <3>. QED
      BY <1>1, <2>0, <3>1, Zenon DEF Logging
  <2>2. ASSUME NEW reread \in BOOLEAN, Verify(reread) PROVE Logging'
    <3>1. pc = "write" /\ pc' \in {caller, "idle"} /\ caller \in {"idle", "sync_done"}
      BY <2>2, Zenon DEF Verify, Return, TableInv, Types
    <3>2. CASE journal /\ caller = "sync_done"
      <4>1. SizeOf(goal) = Target
        BY <1>1, <3>1, <3>2 DEF Logging
      <4>2. Settled'
        BY <2>0, <2>2, <4>1, VerifySettles, Zenon
      <4>. QED
        BY <3>1, <4>2 DEF Logging
    <3>3. CASE ~journal \/ caller # "sync_done"
      BY <2>0, <3>1, <3>3, Zenon DEF Logging
    <3>. QED
      BY <3>2, <3>3, Zenon
  <2>3. CASE repair_redundancy
    <3>1. pc' = "write" /\ caller' = "idle"
      BY <2>3 DEF repair_redundancy, StartWriting
    <3>. QED
      BY <3>1 DEF Logging
  <2>4. CASE backup_metadata \/ Reread \/ Damage
    <3>1. pc' = "idle"
      BY <2>4 DEF backup_metadata, Reread, Damage
    <3>. QED
      BY <3>1 DEF Logging
  <2>. QED
    BY <1>4, <2>1, <2>2, <2>3, <2>4, Zenon DEF Table
<1>5. CASE Failure
  <2>1. journal' = FALSE
    BY <1>5 DEF Failure
  <2>. QED
    BY <2>1 DEF Logging
<1>6. CASE GrowFilesystem \/ Fsck
  <2>1. pc' = "idle"
    BY <1>6, Zenon DEF GrowFilesystem, Fsck, gptVars
  <2>. QED
    BY <2>1 DEF Logging
<1>. QED
  BY <1>2, <1>3, <1>4, <1>5, <1>6, Zenon DEF Next

\* Without interruptions everything is flushed between two commands.
LEMMA IdleIsFlushed ==
    ASSUME TableInv, pc # "write" => disk = cache, [Next]_vars, "interrupt" \notin world,
           pc' # "write"
    PROVE  disk' = cache'
<1>1. CASE UNCHANGED vars
  BY <1>1 DEF vars, gptVars
<1>2. CASE Sync
  <2>1. pc # "write" /\ (UNCHANGED <<cache, disk>> \/ SyncResize)
    BY <1>2, Zenon DEF Sync, sync_gpt_partition_to_ext4, SyncNothingToDo, SyncDone, SyncResize, gptVars
  <2>2. ~SyncResize
    BY DEF SyncResize, resize_partition, StartWriting
  <2>. QED
    BY <2>1, <2>2, Zenon
<1>3. CASE Table
  <2>1. ~Step /\ ~part_resize /\ ~repair_redundancy /\ ~restore_metadata
    BY Zenon DEF Step, part_resize, resize_partition, repair_redundancy, restore_metadata, StartWriting
  <2>2. ASSUME NEW reread \in BOOLEAN, Verify(reread) PROVE disk' = cache'
    BY <2>2, WrittenIsSound DEF Verify
  <2>3. CASE backup_metadata \/ Reread \/ Damage
    BY <2>3 DEF backup_metadata, Reread, Damage
  <2>. QED
    BY <1>3, <2>1, <2>2, <2>3, Zenon DEF Table
<1>4. CASE Failure
  BY <1>4 DEF Failure, PowerLoss
<1>5. CASE GrowFilesystem \/ Fsck
  BY <1>5 DEF GrowFilesystem, Fsck, gptVars
<1>. QED
  BY <1>1, <1>2, <1>3, <1>4, <1>5, Zenon DEF Next

\* What the cut table is.
LEMMA GoalIsCut ==
    /\ \A i \in Parts : i # Part => Goal[i] = First[i]
    /\ SizeOf(Goal) = Target /\ Length(Goal[Part]) = Target
    /\ \A t \in {First, Goal} : SizeOf(t) = Target => t = Goal
    /\ \A t \in {First, Goal} : fs.size = Target =>
          [t EXCEPT ![Part] = [first |-> t[Part].first, last |-> t[Part].first + fs.size - 1]] = Goal
<1>. DEFINE g == [first |-> First[Part].first, last |-> First[Part].first + Target - 1]
<1>1. Part \in Parts /\ Target \in Int /\ First[Part] \in [first : 1..LastUsable, last : 1..LastUsable]
  BY GptAssumption, SyncAssumption DEF Layouts, SizeOf
<1>2. First = [i \in Parts |-> First[i]]
  BY GptAssumption, Zenon DEF Layouts
<1>3. Goal = [i \in Parts |-> IF i = Part THEN g ELSE First[i]]
  BY <1>1, <1>2 DEF Goal
<1>4. Goal[Part] = g /\ \A i \in Parts : i # Part => Goal[i] = First[i]
  BY <1>1, <1>3, Zenon
<1>5. First[Part].first \in Int /\ First[Part].last \in Int
  BY <1>1, GptAssumption
<1>6. SizeOf(Goal) = Target /\ Length(Goal[Part]) = Target
  BY <1>1, <1>4, <1>5 DEF SizeOf, Length
<1>7. SizeOf(First) = Target => First = Goal
  <2>1. SizeOf(First) = Target => First[Part].last = First[Part].first + Target - 1
    BY <1>1, <1>5 DEF SizeOf
  <2>2. SizeOf(First) = Target => First[Part] = g
    BY <1>1, <2>1
  <2>. QED
    BY <1>2, <1>3, <2>2, Zenon
<1>8. ASSUME NEW t \in {First, Goal}, fs.size = Target
      PROVE  [t EXCEPT ![Part] = [first |-> t[Part].first, last |-> t[Part].first + fs.size - 1]] = Goal
  <2>1. [first |-> t[Part].first, last |-> t[Part].first + fs.size - 1] = g
    <3>1. t[Part].first = First[Part].first
      BY <1>4
    <3>. QED
      BY <1>8, <3>1, Zenon
  <2>. HIDE DEF g
  <2>2. t = [i \in Parts |-> t[i]]
    BY <1>2, <1>3, Zenon
  <2>3. [t EXCEPT ![Part] = g] = [i \in Parts |-> IF i = Part THEN g ELSE t[i]]
    BY <2>2, Zenon
  <2>4. \A i \in Parts : i # Part => t[i] = First[i]
    BY <1>4, Zenon
  <2>5. [t EXCEPT ![Part] = g] = Goal
    BY <1>3, <2>3, <2>4, Zenon
  <2>. QED
    BY <2>1, <2>5, Zenon
<1>. QED
  BY <1>4, <1>6, <1>7, <1>8, Zenon

\* Headers tell the tables apart.
LEMMA HeadersDiffer ==
    ASSUME NEW t, NEW u, HeaderOf(t) = HeaderOf(u)
    PROVE  t = u
BY DEF HeaderOf

\* Once the primary header is cut, a command reads the cut table.
LEMMA CutIsRead ==
    ASSUME TableInv, TwoTables, IsCut(cache), Canonical(cache) # None
    PROVE  Canonical(cache) = Goal
<1>1. Canonical(cache) \in {First, Goal}
  BY FindsChosen, Zenon DEF TableInv, TwoTables
<1>2. NeverLong("backup") /\ cache \in Images /\ "backup" \in Sides
  BY Zenon DEF TwoTables, Ordered, Images, Sides
<1>3. CASE Valid(cache, "primary")
  BY <1>3 DEF Canonical, Valid, IsCut, HeaderOf
<1>4. CASE ~Valid(cache, "primary") /\ Valid(cache, "backup")
  <2>1. SizeOf(Canonical(cache)) = Target
    BY <1>2, <1>4, ValidIsCut, Zenon DEF Canonical
  <2>. QED
    BY <1>1, <2>1, GoalIsCut, Zenon
<1>. QED
  BY <1>3, <1>4, Zenon DEF Canonical

\* When no cell changes.
LEMMA StandsTwo ==
    ASSUME TwoTables, cache' = cache, disk' = disk, world' = world, choices' \subseteq {First, Goal},
           IsCut(cache) /\ pc' = "write" => goal' = Goal
    PROVE  TwoTables'
<1>1. Images' = Images
  BY Zenon DEF Images
<1>2. NeverLong("backup") => NeverLong("backup")'
  BY <1>1, Zenon DEF NeverLong
<1>3. OfTwo(cache)' /\ OfTwo(disk)'
  BY Zenon DEF TwoTables, OfTwo
<1>4. Ordered'
  BY <1>2, Zenon DEF TwoTables, Ordered, IsCut
<1>. QED
  BY <1>3, <1>4, Zenon DEF TwoTables

\* A step of write_pair: the primary header is cut after the backup is.
LEMMA StepTwo ==
    ASSUME TableInv, TwoTables, Step, UNCHANGED syncVars
    PROVE  TwoTables'
<1>1. PICK p \in Plans(goal) : \E j \in 0..Len(p) : Progress(p, j)
  BY Zenon DEF TableInv, Writing, Step
<1>2. PICK j \in 0..Len(p) : Progress(p, j)
  BY <1>1, Zenon
<1>3. Effect(j)
  BY <1>2, StepGoes, Zenon
<1>4. pc = "write" /\ UNCHANGED <<pc, goal, choices, world>> /\ goal \in {First, Goal}
  BY DEF Step, TableInv, Writing, TwoTables, syncVars
<1>5. OfTwo(cache)'
  <2>1. \A s \in Sides : cache'[Header(s)] \in {HeaderOf(First), HeaderOf(Goal)}
    BY <1>3, <1>4, Zenon DEF Effect, TwoTables, OfTwo
  <2>2. \A s \in Sides, i \in Parts : cache'[Entry(s, i)] \in {First[i], Goal[i]}
    <3>. SUFFICES ASSUME NEW s \in Sides, NEW i \in Parts
                  PROVE  cache'[Entry(s, i)] \in {First[i], Goal[i]}
      BY Zenon
    <3>1. cache'[Entry(s, i)] = cache[Entry(s, i)] \/ cache'[Entry(s, i)] = goal[i]
      BY <1>3, Zenon DEF Effect, Holds
    <3>2. cache[Entry(s, i)] \in {First[i], Goal[i]}
      BY Zenon DEF TwoTables, OfTwo
    <3>3. goal[i] \in {First[i], Goal[i]}
      BY <1>4, Zenon
    <3>. QED
      BY <3>1, <3>2, <3>3, Zenon
  <2>. QED
    BY <2>1, <2>2, Zenon DEF OfTwo
<1>6. OfTwo(disk)'
  <2>1. disk' = disk \/ disk' = cache
    BY <1>3, Zenon DEF Effect
  <2>. QED
    BY <2>1, Zenon DEF TwoTables, OfTwo
<1>7. cache'[Header("primary")] = cache[Header("primary")] \/ cache'[Header("primary")] = HeaderOf(goal)
  BY <1>3 DEF Effect, Sides
<1>8. IsCut(cache) => IsCut(cache')
  BY <1>4, <1>7, Zenon DEF TwoTables, Ordered, IsCut
<1>9. IsCut(disk') => IsCut(cache')
  BY <1>3, <1>8 DEF TwoTables, Ordered, IsCut, Effect
<1>10. ASSUME IsCut(cache') PROVE NeverLong("backup") /\ goal = Goal
  <2>1. CASE IsCut(cache)
    BY <1>4, <2>1, Zenon DEF TwoTables, Ordered
  <2>2. CASE ~IsCut(cache)
    <3>1. cache'[Header("primary")] # cache[Header("primary")]
      BY <1>10, <2>2, Zenon DEF IsCut
    <3>2. goal = Goal
      BY <1>7, <1>10, <3>1, HeadersDiffer, Zenon DEF IsCut
    <3>3. ~(j < 3)
      BY <1>3, <3>1, Zenon DEF Effect, SameCells
    <3>4. j >= 3 /\ j >= 2
      BY <1>2, <3>3
    <3>5. cache[Header("backup")] = HeaderOf(goal) /\ disk[Header("backup")] = HeaderOf(goal)
      BY <1>2, <3>4, Zenon DEF Progress
    <3>6. Sealed(HeaderOf(goal))
      BY <3>2, GoalIsCut DEF Sealed, HeaderOf
    <3>7. \A c \in Images : c[Header("backup")] = HeaderOf(goal)
      BY <3>5, Zenon DEF Images
    <3>. QED
      BY <3>2, <3>6, <3>7, Zenon DEF NeverLong
  <2>. QED
    BY <2>1, <2>2
<1>11. IsCut(cache') => NeverLong("backup")'
  <2>1. "backup" \in Sides
    BY DEF Sides
  <2>. QED
    BY <1>10, <2>1, GoalIsCut, StepShortens, Zenon
<1>12. Ordered'
  BY <1>4, <1>9, <1>10, <1>11, Zenon DEF Ordered, IsCut
<1>. QED
  BY <1>4, <1>5, <1>6, <1>12, Zenon DEF TwoTables

\* Of the first table and the cut one a power loss leaves cells of these.
LEMMA MixTwo ==
    ASSUME TableInv, TwoTables, PowerLoss, "power" \in world, world' = world
    PROVE  TwoTables'
<1>1. PICK kept : cache' = [x \in DOMAIN cache |-> IF x \in kept THEN cache[x] ELSE disk[x]]
  BY Zenon DEF PowerLoss
<1>2. DOMAIN cache = Cells /\ disk' = cache' /\ choices' = choices /\ pc' = "idle"
  BY Zenon DEF TableInv, Image, PowerLoss, Return
<1>3. \A x \in Cells : cache'[x] = cache[x] \/ cache'[x] = disk[x]
  BY <1>1, <1>2
<1>4. OfTwo(cache')
  BY <1>3, Apart, Zenon DEF TwoTables, OfTwo
<1>5. OfTwo(cache)' /\ OfTwo(disk)'
  BY <1>2, <1>4, Zenon DEF OfTwo
<1>6. "primary" \in Sides /\ "backup" \in Sides /\ Header("primary") \in Cells
  BY Apart DEF Sides
<1>7. IsCut(cache') => IsCut(cache)
  BY <1>3, <1>6, Zenon DEF TwoTables, Ordered, IsCut
<1>8. IsCut(cache') => NeverLong("backup")'
  BY <1>6, <1>7, MixShortens, Zenon DEF TwoTables, Ordered
<1>9. Ordered'
  BY <1>2, <1>8, Zenon DEF Ordered, IsCut
<1>. QED
  BY <1>2, <1>5, <1>9, Zenon DEF TwoTables

\* A kernel that then reads the cut table finds nothing longer beside it.
LEMMA BootKnows ==
    ASSUME TableInv, TwoTables, PowerLoss, "power" \in world, world' = world, TableInv',
           kernel' # None, SizeOf(kernel') = Target
    PROVE  Settled'
<1>1. TwoTables'
  BY MixTwo, Zenon
<1>2. /\ disk' = cache' /\ kernel' = Canonical(cache') /\ pc' = "idle"
  BY DEF PowerLoss, Return
<1>3. Images' = {cache'}
  BY <1>2, Zenon DEF Images
<1>4. OfTwo(cache') /\ choices' \subseteq {First, Goal}
  BY <1>1, Zenon DEF TwoTables, OfTwo
<1>5. Canonical(cache') = Goal
  <2>1. choices' = choices
    BY Zenon DEF PowerLoss
  <2>2. Image(cache')
    BY <2>1 DEF TableInv, Image
  <2>3. Canonical(cache') \in choices \cup {None}
    BY <2>2, FindsChosen, Zenon
  <2>. QED
    BY <1>2, <1>4, <2>1, <2>3, GoalIsCut, Zenon
<1>6. \A s \in Sides : cache'[Header(s)] = HeaderOf(Goal) => NeverLong(s)'
  <2>1. Sealed(HeaderOf(Goal))
    BY GoalIsCut, Zenon DEF Sealed, HeaderOf
  <2>. QED
    BY <1>3, <2>1, Zenon DEF NeverLong
<1>7. CASE Valid(cache', "primary")
  <2>1. cache'[Header("primary")].crc = Goal
    BY <1>5, <1>7, Zenon DEF Canonical, Valid
  <2>2. cache'[Header("primary")] = HeaderOf(Goal)
    <3>1. cache'[Header("primary")] \in {HeaderOf(First), HeaderOf(Goal)}
      BY <1>4, Zenon DEF OfTwo, Sides
    <3>2. HeaderOf(First).crc = First
      BY Zenon DEF HeaderOf
    <3>. QED
      BY <2>1, <3>1, <3>2, Zenon
  <2>3. NeverLong("backup")'
    BY <1>1, <2>2, Zenon DEF TwoTables, Ordered, IsCut
  <2>. QED
    BY <1>2, <1>6, <2>2, <2>3 DEF Settled, Sides
<1>8. CASE ~Valid(cache', "primary")
  <2>1. Valid(cache', "backup") /\ Entries(cache', "backup") = Goal
    BY <1>2, <1>5, <1>8, Zenon DEF Canonical
  <2>2. cache'[Header("backup")] = HeaderOf(Goal)
    <3>1. cache'[Header("backup")].crc = Goal
      BY <2>1, Zenon DEF Valid
    <3>2. cache'[Header("backup")] \in {HeaderOf(First), HeaderOf(Goal)}
      BY <1>4, Zenon DEF OfTwo, Sides
    <3>3. HeaderOf(First).crc = First
      BY Zenon DEF HeaderOf
    <3>. QED
      BY <3>1, <3>2, <3>3, Zenon
  <2>3. CASE cache'[Header("primary")] = HeaderOf(Goal)
    BY <1>2, <1>6, <2>2, <2>3, Zenon DEF Settled, Sides
  <2>4. CASE cache'[Header("primary")] = HeaderOf(First)
    <3>1. Entries(cache', "primary") # First
      BY <1>8, <2>4 DEF Valid, HeaderOf
    <3>2. PICK i \in Parts : cache'[Entry("primary", i)] # First[i]
      BY <3>1, GptAssumption, Zenon DEF Entries, Layouts
    <3>3. cache'[Entry("primary", i)] = Goal[i]
      BY <1>4, <3>2 DEF OfTwo, Sides
    <3>4. i = Part
      BY <3>2, <3>3, GoalIsCut, Zenon
    <3>5. Length(cache'[Entry("primary", Part)]) = Target
      BY <3>3, <3>4, GoalIsCut, Zenon
    <3>6. NeverLong("primary")'
      BY <1>3, <3>5, Zenon DEF NeverLong
    <3>. QED
      BY <1>2, <1>6, <2>2, <3>6, Zenon DEF Settled, Sides
  <2>. QED
    BY <1>4, <2>3, <2>4 DEF OfTwo, Sides
<1>. QED
  BY <1>7, <1>8

\* It holds to begin with.
LEMMA CutStarts == Init => Cutting
<1>. SUFFICES ASSUME Init PROVE Cutting
  OBVIOUS
<1>1. /\ disk = cache /\ cache = DiskOf(First) /\ pc = "idle" /\ phase = "filesystem_shrunk"
      /\ journal = FALSE /\ kernel = First /\ choices = {First}
  BY DEF Init, GptInit
<1>2. \A s \in Sides : cache[Header(s)] = HeaderOf(First)
  <2>. TAKE s \in Sides
  <2>1. Header(s) \in Cells /\ Header(s)[1] = "header"
    BY Apart DEF Header
  <2>. QED
    BY <1>1, <2>1, Zenon DEF DiskOf
<1>3. \A s \in Sides, i \in Parts : cache[Entry(s, i)] = First[i]
  <2>. TAKE s \in Sides, i \in Parts
  <2>1. Entry(s, i) \in Cells /\ Entry(s, i)[1] = "entry" /\ Entry(s, i)[3] = i
    BY Apart DEF Entry
  <2>. QED
    BY <1>1, <2>1, Zenon DEF DiskOf
<1>4. OfTwo(cache) /\ OfTwo(disk)
  BY <1>1, <1>2, <1>3, Zenon DEF OfTwo
<1>5. SizeOf(First) = Target => \A s \in Sides : NeverLong(s)
  <2>1. \A c \in Images : c = cache
    BY <1>1, Zenon DEF Images
  <2>2. HeaderOf(First).crc = First
    BY DEF HeaderOf
  <2>3. \A c \in Images, s \in Sides : c[Header(s)].crc = First
    BY <1>2, <2>1, <2>2, Zenon
  <2>. QED
    BY <2>3, BothCut, Zenon
<1>6. IsCut(cache) => SizeOf(First) = Target
  <2>1. IsCut(cache) => First = Goal
    BY <1>2, HeadersDiffer, Zenon DEF IsCut, Sides
  <2>. QED
    BY <2>1, GoalIsCut, Zenon
<1>7. Ordered
  BY <1>1, <1>5, <1>6, Zenon DEF Ordered, Sides
<1>8. Known
  BY <1>1, <1>5, Zenon DEF Known, Settled
<1>. QED
  BY <1>1, <1>4, <1>7, <1>8, Zenon DEF Cutting, Logging, TwoTables

\* While the filesystem has not grown, there is only the first table and the cut one.
LEMMA TwoStep ==
    ASSUME TableInv, TwoTables, [Next]_vars, fs.size = Target,
           {"interrupt", "power"} \subseteq world,
           world \cap {"edit", "restore", "reread", "damage"} = {}
    PROVE  TwoTables'
<1>0. world' = world
  BY SameWorld, Zenon
<1>1. choices \subseteq {First, Goal} /\ (IsCut(cache) /\ pc = "write" => goal = Goal)
  BY Zenon DEF TwoTables, Ordered
<1>2. Canonical(cache) # None => Canonical(cache) \in {First, Goal}
  BY <1>1, FindsChosen DEF TableInv
<1>3. CASE UNCHANGED vars
  <2>1. UNCHANGED <<cache, disk, pc, goal, choices>>
    BY <1>3, Zenon DEF vars, gptVars
  <2>. QED
    BY <1>0, <1>1, <2>1, StandsTwo, Zenon
<1>4. CASE Sync
  <2>1. CASE \E log \in BOOLEAN : sync_gpt_partition_to_ext4(log)
    <3>1. pc' = "sync_resize" /\ UNCHANGED <<cache, disk, choices>>
      BY <2>1, Zenon DEF sync_gpt_partition_to_ext4
    <3>. QED
      BY <1>0, <1>1, <3>1, StandsTwo, Zenon
  <2>2. CASE \E log \in BOOLEAN : SyncNothingToDo(log)
    <3>1. pc' = "idle" /\ UNCHANGED <<cache, disk, choices>>
      BY <2>2, Zenon DEF SyncNothingToDo, gptVars
    <3>. QED
      BY <1>0, <1>1, <3>1, StandsTwo, Zenon
  <2>3. CASE SyncResize
    <3>. DEFINE t == [Canonical(cache) EXCEPT ![Part] = Cut]
    <3>1. /\ Canonical(cache) # None /\ StartWriting(Pair(t), t, "sync_done")
          /\ UNCHANGED <<cache, disk>>
      BY <2>3, Zenon DEF SyncResize, resize_partition, MutationAccepts
    <3>2. t = Goal
      BY <1>2, <3>1, GoalIsCut, Zenon DEF Cut, Old
    <3>3. goal' = Goal /\ choices' = choices \cup {Goal}
      BY <3>1, <3>2, Zenon DEF StartWriting
    <3>. HIDE DEF t
    <3>. QED
      BY <1>0, <1>1, <3>1, <3>3, StandsTwo
  <2>4. CASE SyncDone
    <3>1. pc' = "idle" /\ UNCHANGED <<cache, disk, choices>>
      BY <2>4 DEF SyncDone, Return
    <3>. QED
      BY <1>0, <1>1, <3>1, StandsTwo
  <2>. QED
    BY <1>4, <2>1, <2>2, <2>3, <2>4, Zenon DEF Sync
<1>5. CASE Table
  <2>0. UNCHANGED syncVars
    BY <1>5 DEF Table
  <2>1. CASE Step
    BY <2>0, <2>1, StepTwo, Zenon
  <2>2. ASSUME NEW reread \in BOOLEAN, Verify(reread) PROVE TwoTables'
    <3>1. AllSound(cache) /\ goal \in choices
      BY <2>2, WrittenIsSound, Zenon DEF Verify
    <3>2. pc' = caller /\ choices' = {goal} /\ UNCHANGED <<cache, disk>> /\ caller # "write"
      BY <2>2, <3>1, Zenon DEF Verify, Return, TableInv, Types
    <3>. QED
      BY <1>0, <1>1, <3>1, <3>2, StandsTwo, Zenon
  <2>3. CASE repair_redundancy
    <3>. DEFINE t == Canonical(cache)
    <3>1. /\ t # None /\ StartWriting(Pair(t), t, "idle") /\ UNCHANGED <<cache, disk>>
      BY <2>3 DEF repair_redundancy, RepairAccepts, MutationAccepts
    <3>2. IsCut(cache) => t = Goal
      BY <3>1, CutIsRead, Zenon
    <3>3. goal' = t /\ choices' = choices \cup {t} /\ t \in {First, Goal}
      BY <1>2, <3>1, Zenon DEF StartWriting
    <3>. HIDE DEF t
    <3>. QED
      BY <1>0, <1>1, <3>1, <3>2, <3>3, StandsTwo, Zenon
  <2>4. CASE backup_metadata
    <3>1. pc' = "idle" /\ UNCHANGED <<cache, disk, choices>>
      BY <2>4, Zenon DEF backup_metadata
    <3>. QED
      BY <1>0, <1>1, <3>1, StandsTwo
  <2>. QED
    BY <1>5, <2>1, <2>2, <2>3, <2>4, Zenon DEF Table
<1>6. CASE Failure
  <2>1. CASE Interrupted
    <3>1. pc' = "idle" /\ UNCHANGED <<cache, disk, choices>>
      BY <2>1 DEF Interrupted, Return
    <3>. QED
      BY <1>0, <1>1, <3>1, StandsTwo
  <2>2. CASE PowerLoss /\ "power" \in world
    BY <1>0, <2>2, MixTwo, Zenon
  <2>. QED
    BY <1>6, <2>1, <2>2, Zenon DEF Failure
<1>7. CASE GrowFilesystem \/ Fsck
  <2>1. pc' = "idle" /\ UNCHANGED <<cache, disk, choices>>
    BY <1>7, Zenon DEF GrowFilesystem, Fsck, gptVars
  <2>. QED
    BY <1>0, <1>1, <2>1, StandsTwo
<1>. QED
  BY <1>3, <1>4, <1>5, <1>6, <1>7 DEF Next

\* The kernel learns of the cut when it is verified, or after a power loss.
LEMMA KnownStep ==
    ASSUME TableInv, TableInv', TwoTables, Known, [Next]_vars,
           world \cap {"edit", "restore", "reread"} = {}
    PROVE  Known'
<1>. SUFFICES ASSUME kernel' # None, SizeOf(kernel') = Target PROVE Settled'
  BY Zenon DEF Known
<1>1. CASE kernel' = kernel
  <2>1. Settled
    BY <1>1, Zenon DEF Known
  <2>. QED
    BY <2>1, StaysSettled
<1>2. CASE kernel' # kernel
  <2>1. Table \/ Failure
    BY <1>2, Zenon DEF Next, vars, gptVars, Sync, sync_gpt_partition_to_ext4, SyncNothingToDo, SyncResize,
                resize_partition, SyncDone, GrowFilesystem, Fsck
  <2>2. CASE Table
    <3>1. UNCHANGED syncVars
      BY <2>2, Zenon DEF Table
    <3>2. PICK reread \in BOOLEAN : Verify(reread)
      BY <1>2, <2>2, Zenon DEF Table, Step, repair_redundancy, backup_metadata, Damage
    <3>3. kernel' = goal
      BY <1>2, <3>2, WrittenIsSound DEF Verify
    <3>. QED
      BY <3>1, <3>2, <3>3, VerifySettles, Zenon
  <2>3. CASE Failure
    <3>1. PowerLoss /\ "power" \in world /\ world' = world
      BY <1>2, <2>3 DEF Failure, Interrupted
    <3>. QED
      BY <3>1, BootKnows, Zenon
  <2>. QED
    BY <2>1, <2>2, <2>3, Zenon
<1>. QED
  BY <1>1, <1>2

\* A filesystem that has grown does not shrink again.
LEMMA SizeGrows ==
    ASSUME TableInv, [Next]_vars, fs'.size = Target
    PROVE  fs.size = Target
<1>1. Types /\ fs.size \in Int /\ Target \in Int /\ Target <= fs.size
  BY GptAssumption, SyncAssumption DEF TableInv, Types
<1>2. CASE UNCHANGED vars \/ Sync \/ Table \/ Failure
  BY <1>2, Zenon DEF vars, syncVars, Sync, sync_gpt_partition_to_ext4, SyncNothingToDo, SyncResize, SyncDone,
              Table, Failure
<1>3. CASE GrowFilesystem
  <2>1. PICK n \in (fs.size + 1)..SizeOf(kernel), c \in BOOLEAN : fs' = [size |-> n, clean |-> c]
    BY <1>3 DEF GrowFilesystem
  <2>. QED
    BY <1>1, <2>1
<1>4. CASE Fsck
  <2>1. fs' = [fs EXCEPT !.clean = TRUE]
    BY <1>4 DEF Fsck
  <2>. QED
    BY <1>1, <2>1 DEF Types
<1>. QED
  BY <1>2, <1>3, <1>4 DEF Next

\* Every step keeps it.
LEMMA CutStep ==
    ASSUME TableInv, CutInv, [Next]_vars
    PROVE  CutInv'
<1>0. world' = world
  BY SameWorld, Zenon
<1>. SUFFICES ASSUME "sync" \in world, Trusted PROVE Cutting'
  BY <1>0, Zenon DEF CutInv, Trusted
<1>1. Cutting /\ world \cap {"edit", "restore"} = {} /\ TableInv'
  BY TableStep, Zenon DEF CutInv, Trusted
<1>2. phase' = "complete" => Settled'
  BY <1>1, CompleteStep, Zenon
<1>3. Logging'
  BY <1>1, LoggingStep, Zenon
<1>4. "interrupt" \notin world' /\ pc' # "write" => disk' = cache'
  BY <1>0, <1>1, IdleIsFlushed, Zenon DEF Cutting
<1>5. ASSUME {"interrupt", "power"} \subseteq world, fs'.size = Target PROVE TwoTables' /\ Known'
  <2>1. fs.size = Target
    BY <1>5, SizeGrows, Zenon
  <2>2. TwoTables /\ Known
    BY <1>1, <1>5, <2>1, Zenon DEF Cutting
  <2>3. world \cap {"edit", "restore", "reread", "damage"} = {}
    BY <1>5 DEF Trusted
  <2>4. TwoTables'
    BY <1>5, <2>1, <2>2, <2>3, TwoStep, Zenon
  <2>5. world \cap {"edit", "restore", "reread"} = {}
    BY <2>3
  <2>6. Known'
    BY <1>1, <2>2, <2>5, KnownStep, Zenon
  <2>. QED
    BY <2>4, <2>6
<1>. QED
  BY <1>0, <1>2, <1>3, <1>4, <1>5, Zenon DEF Cutting

\* Without a synchronization nothing is logged.
Unlogged == "sync" \notin world => phase # "complete"

\* Only sync_gpt_partition_to_ext4 logs it.
LEMMA NeverLogged == Spec => []Unlogged
<1>1. Init => Unlogged
  BY DEF Init, Unlogged
<1>2. Unlogged /\ [Next]_vars => Unlogged'
  <2>. SUFFICES ASSUME Unlogged, [Next]_vars, "sync" \notin world' PROVE phase' # "complete"
    BY DEF Unlogged
  <2>1. "sync" \notin world /\ phase # "complete"
    BY SameWorld, Zenon DEF Unlogged
  <2>2. phase' = phase
    BY <2>1, Zenon DEF Next, Sync, Table, Failure, GrowFilesystem, Fsck, vars, syncVars
  <2>. QED
    BY <2>1, <2>2
<1>. QED
  BY <1>1, <1>2, PTL DEF Spec

\* CompleteIsCut for every disk and every target: when sync.cpp has logged
\* complete, the table a reader finds has a partition of the size the journal is
\* for, and no interruption, power loss or repair brings the longer one back.
THEOREM CompleteStaysCut == Spec => [](Trusted => CompleteIsCut)
<1>1. CutInv /\ Unlogged => (Trusted => CompleteIsCut)
  BY ReadsCut, Zenon DEF CutInv, Unlogged, Cutting, Settled, CompleteIsCut
<1>2. Init => CutInv
  BY CutStarts, Zenon DEF CutInv
<1>3. Spec => []CutInv
  BY <1>2, TableInvariant, CutStep, PTL DEF Spec
<1>. QED
  BY <1>1, <1>3, NeverLogged, PTL
=============================================================================
