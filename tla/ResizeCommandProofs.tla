------------------------ MODULE ResizeCommandProofs -------------------------
(***************************************************************************)
(* The inductive invariant of Resize, and that the writes, the flush, a    *)
(* power loss and the commands keep it.                                    *)
(*                                                                         *)
(* While a copy of the superblock may come to say clean, whatever is       *)
(* written, flushed or lost, only the clean flag is in flight; and no      *)
(* write in flight disagrees with the files.  A command starts a queue of  *)
(* writes: the lemmas Begin, BeginDirty and BeginAlike say what the queue  *)
(* must hold, and each step of a command is shown to queue that.           *)
(***************************************************************************)
EXTENDS Resize, TLAPS


-----------------------------------------------------------------------------
\* What the running command still has to write, as pairs of a cell and a value.
Jobs == {todo[i] : i \in DOMAIN todo}

\* The place the command is at, or goes on to after its writes.
Place == IF pc = "write" THEN cont ELSE pc

SuperT == [blocks : Target..GroupEnd, free : 0..GroupEnd, clean : BOOLEAN, recover : BOOLEAN]
DescT  == [free : 0..GroupEnd, crc : SUBSET Bits]

Cells == {Bitmap} \cup {Super(k) : k \in Copies} \cup {Desc(k) : k \in Copies}
Values == SuperT \cup DescT \cup SUBSET Bits

Starting   == {"log_dirty", "grow_bitmap"}
Shrinking  == {"log_dirty", "shrink_bitmap", "shrink_size", "shrink_verify", "log_shrunk"}
Growing    == {"grow_bitmap", "grow_size", "grow_verify"}
Committing == {"commit_begin", "commit_verify", "commit_done"}
Dirty      == (Shrinking \cup Growing) \ {"log_shrunk"}

Fits(x, v) == /\ x = Bitmap => v \in SUBSET Bits
              /\ \A k \in Copies : (x = Super(k) => v \in SuperT) /\ (x = Desc(k) => v \in DescT)

Types ==
    /\ cache \in [Cells -> Values] /\ disk \in [Cells -> Values]
    /\ \A x \in Cells : Fits(x, cache[x]) /\ Fits(x, disk[x])
    /\ todo \in Seq(Cells \X Values) /\ \A j \in Jobs : Fits(j[1], j[2])
    /\ pc # "write" => todo = <<>>
    /\ phase \in {"staged", "metadata_finalize", "compacted", "filesystem_shrunk"}
    /\ pc \in {"idle", "write"} \cup Shrinking \cup Growing \cup Committing
    /\ cont \in {"idle"} \cup Shrinking \cup Growing \cup Committing
    /\ goal \in 0..GroupEnd /\ mounts \in 0..MaxMounts /\ world \in Worlds
    /\ Place \in Shrinking => "shrink" \in world
    /\ Place \in Committing => "commit" \in world

Bitmaps == {cache[Bitmap], disk[Bitmap]} \cup {j[2] : j \in {j \in Jobs : j[1] = Bitmap}}
NextSupers == {j[2] : j \in {j \in Jobs : j[1] = Super(0)}}

\* What every bitmap and every size that the device may come to have agrees
\* with, whatever was interrupted: files and fixed blocks are marked, below the
\* target nothing else is, and no size cuts off a file.
Files ==
    /\ \A b \in Bitmaps : /\ owned \cup Fixed \subseteq b
                          /\ b \cap (0..(Target - 1)) \subseteq owned \cup Fixed
    /\ \A s \in {SB(cache), SB(disk)} \cup NextSupers : owned \cup pending \subseteq 0..(s.blocks - 1)
    /\ owned \cap Fixed = {} /\ pending \cap Fixed = {}
    /\ pending # {} => "crash" \in world

Inside(b, end) == b \cap (0..(end - 1)) = owned \cup Fixed

Exact(c) == verify_metadata(c) /\ Inside(c[Bitmap], End(c))

\* But for the clean flag.
Alike(s, t) == s.blocks = t.blocks /\ s.free = t.free /\ s.recover = t.recover

\* The disk may come to be clean.
MayBeClean ==
    \/ SB(cache).clean
    \/ "power" \in world /\ SB(disk).clean
    \/ \E s \in NextSupers : s.clean

\* Then only the clean flag is in flight.
Guarded ==
    MayBeClean =>
        /\ Exact(cache)
        /\ "power" \in world => /\ cache[Bitmap] = disk[Bitmap] /\ cache[Desc(0)] = disk[Desc(0)]
                                /\ Alike(SB(cache), SB(disk))
        /\ \A j \in Jobs : /\ j[1] = Bitmap => j[2] = cache[Bitmap]
                           /\ j[1] = Desc(0) => j[2] = cache[Desc(0)]
                           /\ j[1] = Super(0) => Alike(j[2], SB(cache))

Supers ==
    {cache[Super(k)] : k \in Copies} \cup {disk[Super(k)] : k \in Copies}
        \cup {j[2] : j \in {j \in Jobs : \E k \in Copies : j[1] = Super(k)}}
Primaries ==
    {SB(cache)} \cup NextSupers \cup (IF "power" \in world THEN {SB(disk)} ELSE {})

\* A copy that says clean has the size of the primary.
OneSize == \A s \in Supers : s.clean => \A t \in Primaries : t.blocks = s.blocks

\* A size in flight is not below the durable one, or is the target and not clean.
Smaller ==
    \A t \in {SB(cache)} \cup NextSupers :
        t.blocks >= End(disk) \/ (t.blocks = Target /\ ~t.clean)

\* Between its writes a command has nothing in flight, unless it follows an
\* interrupted one.
Flushed ==
    \/ pc = "write"
    \/ "interrupt" \in world /\ pc \in {"idle", "commit_begin", "commit_verify"}
    \/ cache = disk

\* Cell x has value v, or is still to be written with it and nothing else.
Becomes(x, v) == /\ cache[x] = v \/ <<x, v>> \in Jobs
                 /\ \A j \in Jobs : j[1] = x => j[2] = v

Marked == [sbraw EXCEPT !.clean = FALSE]

NoneClean == \A s \in Supers : ~s.clean

Stages ==
    /\ Place \in Shrinking \cup Growing => sbraw \in SuperT
    /\ Place \in Shrinking =>
          goal = Target /\ Target < sbraw.blocks /\ owned \cup pending \subseteq 0..(Target - 1)
    /\ Place \in Growing =>
          sbraw.blocks < goal /\ sbraw.free <= sbraw.blocks
          /\ owned \cup pending \subseteq 0..(sbraw.blocks - 1)
    /\ pc = "write" /\ cont \in Starting => \A k \in Copies : Becomes(Super(k), Marked)
    /\ pc = "write" /\ cont = "grow_bitmap" => \A j \in Jobs : j[1] # Bitmap /\ j[1] # Desc(0)
    /\ Place \in Dirty => NoneClean \/ (pc = "write" /\ cont \in Starting)
    /\ Place = "grow_bitmap" =>
          Inside(cache[Bitmap], sbraw.blocks) /\ cache[Desc(0)].free <= sbraw.blocks
    /\ Place \in {"grow_bitmap", "grow_size"} =>
          \A s \in {SB(cache)} \cup NextSupers : s.blocks = sbraw.blocks
    /\ pc = "write" /\ cont = "grow_size" =>
          \E b \in SUBSET Bits : Inside(b, goal) /\ Becomes(Bitmap, b)
    /\ pc = "grow_size" \/ Place = "grow_verify" =>
          Inside(cache[Bitmap], goal) /\ \A j \in Jobs : j[1] # Bitmap
    /\ Place = "shrink_verify" => Becomes(Super(0), Shrunk(FALSE))
    /\ Place = "grow_verify" => Becomes(Super(0), Grown(FALSE))
    /\ Place \in Committing =>
          /\ Target < End(cache) /\ cache[Bitmap] \cap (Target..(End(cache) - 1)) = {}
          /\ \A j \in Jobs : j[1] = Super(0) /\ Alike(j[2], SB(cache))

\* Kills, power losses and commits together, and a shrink after a crashed mount,
\* are where the properties are known to fail.
Spared == ~({"interrupt", "power", "commit"} \subseteq world) /\ ~({"shrink", "crash"} \subseteq world)

ResizeInv == Types /\ Files /\ Guarded /\ OneSize /\ Smaller /\ Flushed /\ Stages
-----------------------------------------------------------------------------
\* Sizes and copies.
LEMMA Geometry ==
    /\ Target \in Nat /\ Target >= 1 /\ GroupEnd \in Nat /\ Size \in Target..GroupEnd
    /\ Target < Size /\ Backups \in Nat /\ 0 \in Copies /\ MaxMounts \in Nat
    /\ Fixed \subseteq 0..(Target - 1) /\ Fixed \subseteq Bits
BY GeometryAssumption DEF Copies, Bits

\* Different cells are different.
LEMMA Apart ==
    /\ \A k \in Copies : Super(k) \in Cells /\ Desc(k) \in Cells
    /\ Bitmap \in Cells
    /\ \A k, l \in Copies : Super(k) # Desc(l) /\ (Super(k) = Super(l) => k = l)
                            /\ (Desc(k) = Desc(l) => k = l)
    /\ \A k \in Copies : Super(k) # Bitmap /\ Desc(k) # Bitmap
    /\ \A x \in Cells : x = Bitmap \/ (\E k \in Copies : x = Super(k) \/ x = Desc(k))
BY DEF Super, Desc, Bitmap, Cells

\* The fields of a superblock, and of one with another clean flag or free count.
LEMMA SuperFields ==
    ASSUME NEW s \in SuperT
    PROVE  /\ s.blocks \in Target..GroupEnd /\ s.blocks \in Nat /\ s.blocks <= GroupEnd
           /\ s.free \in 0..GroupEnd /\ s.clean \in BOOLEAN /\ s.recover \in BOOLEAN
           /\ \A b \in BOOLEAN : /\ [s EXCEPT !.clean = b] \in SuperT
                                 /\ [s EXCEPT !.clean = b].clean = b
                                 /\ Alike([s EXCEPT !.clean = b], s)
           /\ \A n \in 0..GroupEnd : /\ [s EXCEPT !.free = n] \in SuperT
                                     /\ [s EXCEPT !.free = n].free = n
                                     /\ [s EXCEPT !.free = n].clean = s.clean
                                     /\ [s EXCEPT !.free = n].blocks = s.blocks
                                     /\ [s EXCEPT !.free = n].recover = s.recover
<1>1. Target \in Nat /\ GroupEnd \in Nat
  BY Geometry
<1>2. s.blocks \in Target..GroupEnd /\ s.free \in 0..GroupEnd
      /\ s.clean \in BOOLEAN /\ s.recover \in BOOLEAN
  BY DEF SuperT
<1>3. \A b \in BOOLEAN : [s EXCEPT !.clean = b] \in SuperT
                         /\ [s EXCEPT !.clean = b].clean = b
                         /\ Alike([s EXCEPT !.clean = b], s)
  BY DEF SuperT, Alike
<1>4. \A n \in 0..GroupEnd : /\ [s EXCEPT !.free = n] \in SuperT
                             /\ [s EXCEPT !.free = n].free = n
                             /\ [s EXCEPT !.free = n].clean = s.clean
                             /\ [s EXCEPT !.free = n].blocks = s.blocks
                             /\ [s EXCEPT !.free = n].recover = s.recover
  BY DEF SuperT
<1>. QED
  BY <1>1, <1>2, <1>3, <1>4

\* The next write is taken from what is left to be written.
LEMMA WriteJobs ==
    ASSUME todo \in Seq(Cells \X Values), todo # <<>>, todo' = Tail(todo)
    PROVE  /\ todo' \in Seq(Cells \X Values)
           /\ todo[1] \in Jobs /\ todo[1] \in Cells \X Values
           /\ Jobs' \subseteq Jobs
           /\ \A j \in Jobs : j = todo[1] \/ j \in Jobs'
<1>1. Len(todo) \in Nat \ {0} /\ DOMAIN todo = 1..Len(todo)
  OBVIOUS
<1>2. /\ todo' \in Seq(Cells \X Values) /\ DOMAIN todo' = 1..(Len(todo) - 1)
      /\ \A i \in 1..(Len(todo) - 1) : todo'[i] = todo[i + 1]
  BY <1>1
<1>3. todo[1] \in Jobs /\ todo[1] \in Cells \X Values
  BY <1>1 DEF Jobs
<1>4. ASSUME NEW j \in Jobs' PROVE j \in Jobs
  <2>1. PICK i \in 1..(Len(todo) - 1) : j = todo'[i]
    BY <1>2 DEF Jobs
  <2>2. i + 1 \in DOMAIN todo /\ j = todo[i + 1]
    BY <1>1, <1>2, <2>1
  <2>. QED
    BY <2>2 DEF Jobs
<1>5. ASSUME NEW j \in Jobs, j # todo[1] PROVE j \in Jobs'
  <2>1. PICK i \in 1..Len(todo) : j = todo[i]
    BY <1>1 DEF Jobs
  <2>2. i # 1 /\ i - 1 \in 1..(Len(todo) - 1)
    BY <1>1, <1>5, <2>1
  <2>3. j = todo'[i - 1]
    BY <1>2, <2>1, <2>2
  <2>. QED
    BY <1>2, <2>2, <2>3, Zenon DEF Jobs
<1>. QED
  BY <1>2, <1>3, <1>4, <1>5

\* The pairs in a sequence of writes.
RangeOf(q) == {q[i] : i \in DOMAIN q}

\* Nothing queued, no jobs.
LEMMA NoJobs == todo = <<>> => Jobs = {}
BY DEF Jobs

\* The same after a step.
LEMMA NoJobsNext == todo' = <<>> => Jobs' = {}
BY DEF Jobs

\* The jobs after a step are those of the new queue.
LEMMA JobsNext == Jobs' = RangeOf(todo')
BY DEF Jobs, RangeOf

\* What write_super_copies queues.
LEMMA SuperJobs ==
    ASSUME NEW s \in SuperT
    PROVE  /\ SuperCopies(s) \in Seq(Cells \X Values)
           /\ RangeOf(SuperCopies(s)) = {<<Super(k), s>> : k \in Copies}
<1>. DEFINE q == SuperCopies(s)
<1>1. DOMAIN q = 1..(Backups + 1) /\ \A i \in 1..(Backups + 1) : q[i] = <<Super(i - 1), s>>
  BY DEF SuperCopies
<1>2. \A i \in 1..(Backups + 1) : i - 1 \in Copies
  BY Geometry DEF Copies
<1>3. \A k \in Copies : k + 1 \in 1..(Backups + 1) /\ (k + 1) - 1 = k
  BY Geometry DEF Copies
<1>4. q \in Seq(Cells \X Values)
  <2>1. \A i \in 1..(Backups + 1) : <<Super(i - 1), s>> \in Cells \X Values
    BY <1>2, Apart DEF Values
  <2>. QED
    BY <2>1, Geometry DEF SuperCopies
<1>. HIDE DEF q
<1>5. \A k \in Copies : <<Super(k), s>> = q[k + 1]
  BY <1>1, <1>3
<1>6. RangeOf(q) = {<<Super(k), s>> : k \in Copies}
  <2>1. ASSUME NEW j \in RangeOf(q) PROVE j \in {<<Super(k), s>> : k \in Copies}
    <3>1. PICK i \in 1..(Backups + 1) : j = q[i]
      BY <1>1 DEF RangeOf
    <3>. QED
      BY <1>1, <1>2, <3>1, Zenon
  <2>2. ASSUME NEW k \in Copies PROVE <<Super(k), s>> \in RangeOf(q)
    BY <1>1, <1>3, <1>5 DEF RangeOf
  <2>. QED
    BY <2>1, <2>2
<1>. QED
  BY <1>4, <1>6 DEF q

\* What the writing of the descriptors queues.
LEMMA DescJobs ==
    ASSUME NEW d \in DescT
    PROVE  /\ DescCopies(d) \in Seq(Cells \X Values)
           /\ RangeOf(DescCopies(d)) = {<<Desc(k), d>> : k \in Copies}
<1>. DEFINE q == DescCopies(d)
<1>1. DOMAIN q = 1..(Backups + 1) /\ \A i \in 1..(Backups + 1) : q[i] = <<Desc(i - 1), d>>
  BY DEF DescCopies
<1>2. \A i \in 1..(Backups + 1) : i - 1 \in Copies
  BY Geometry DEF Copies
<1>3. \A k \in Copies : k + 1 \in 1..(Backups + 1) /\ (k + 1) - 1 = k
  BY Geometry DEF Copies
<1>4. q \in Seq(Cells \X Values)
  <2>1. \A i \in 1..(Backups + 1) : <<Desc(i - 1), d>> \in Cells \X Values
    BY <1>2, Apart, Zenon DEF Values
  <2>. QED
    BY <2>1, Geometry DEF DescCopies
<1>. HIDE DEF q
<1>5. \A k \in Copies : <<Desc(k), d>> = q[k + 1]
  BY <1>1, <1>3
<1>6. RangeOf(q) = {<<Desc(k), d>> : k \in Copies}
  <2>1. ASSUME NEW j \in RangeOf(q) PROVE j \in {<<Desc(k), d>> : k \in Copies}
    <3>1. PICK i \in 1..(Backups + 1) : j = q[i]
      BY <1>1 DEF RangeOf
    <3>. QED
      BY <1>1, <1>2, <3>1, Zenon
  <2>2. ASSUME NEW k \in Copies PROVE <<Desc(k), d>> \in RangeOf(q)
    BY <1>1, <1>3, <1>5 DEF RangeOf
  <2>. QED
    BY <2>1, <2>2
<1>. QED
  BY <1>4, <1>6 DEF q

\* What two queues hold, one after the other.
LEMMA JoinedJobs ==
    ASSUME NEW S, NEW q \in Seq(S), NEW r \in Seq(S)
    PROVE  q \o r \in Seq(S) /\ RangeOf(q \o r) = RangeOf(q) \cup RangeOf(r)
<1>1. /\ q \o r \in Seq(S) /\ DOMAIN (q \o r) = 1..(Len(q) + Len(r))
      /\ DOMAIN q = 1..Len(q) /\ DOMAIN r = 1..Len(r) /\ Len(q) \in Nat /\ Len(r) \in Nat
      /\ \A i \in 1..(Len(q) + Len(r)) :
            (q \o r)[i] = IF i <= Len(q) THEN q[i] ELSE r[i - Len(q)]
  OBVIOUS
<1>2. ASSUME NEW x \in RangeOf(q \o r) PROVE x \in RangeOf(q) \cup RangeOf(r)
  <2>1. PICK i \in 1..(Len(q) + Len(r)) : x = (q \o r)[i]
    BY <1>1 DEF RangeOf
  <2>2. CASE i <= Len(q)
    BY <1>1, <2>1, <2>2 DEF RangeOf
  <2>3. CASE i > Len(q)
    <3>1. i - Len(q) \in 1..Len(r) /\ x = r[i - Len(q)]
      BY <1>1, <2>1, <2>3
    <3>. QED
      BY <1>1, <3>1, Zenon DEF RangeOf
  <2>. QED
    BY <1>1, <2>1, <2>2, <2>3
<1>3. ASSUME NEW x \in RangeOf(q) PROVE x \in RangeOf(q \o r)
  <2>1. PICK i \in 1..Len(q) : x = q[i]
    BY <1>1 DEF RangeOf
  <2>2. i \in 1..(Len(q) + Len(r)) /\ (q \o r)[i] = x
    BY <1>1, <2>1
  <2>. QED
    BY <1>1, <2>2 DEF RangeOf
<1>4. ASSUME NEW x \in RangeOf(r) PROVE x \in RangeOf(q \o r)
  <2>1. PICK i \in 1..Len(r) : x = r[i]
    BY <1>1 DEF RangeOf
  <2>2. i + Len(q) \in 1..(Len(q) + Len(r)) /\ (q \o r)[i + Len(q)] = x
    BY <1>1, <2>1
  <2>. QED
    BY <1>1, <2>2, Zenon DEF RangeOf
<1>. QED
  BY <1>1, <1>2, <1>3, <1>4

\* One write.
LEMMA SingleJob ==
    ASSUME NEW x \in Cells, NEW v \in Values
    PROVE  <<<<x, v>>>> \in Seq(Cells \X Values) /\ RangeOf(<<<<x, v>>>>) = {<<x, v>>}
BY DEF RangeOf

\* What the cells of an image hold.
LEMMA Typed ==
    ASSUME NEW c \in [Cells -> Values], \A x \in Cells : Fits(x, c[x])
    PROVE  /\ \A k \in Copies : c[Super(k)] \in SuperT /\ c[Desc(k)] \in DescT
           /\ SB(c) \in SuperT /\ c[Desc(0)] \in DescT /\ c[Bitmap] \in SUBSET Bits
           /\ End(c) \in Target..GroupEnd /\ End(c) \in Nat
<1>1. \A k \in Copies : c[Super(k)] \in SuperT /\ c[Desc(k)] \in DescT
  BY Apart DEF Fits
<1>2. SB(c) \in SuperT /\ c[Desc(0)] \in DescT
  BY <1>1, Geometry DEF SB
<1>3. c[Bitmap] \in SUBSET Bits
  BY Apart DEF Fits
<1>. QED
  BY <1>1, <1>2, <1>3, SuperFields DEF End
-----------------------------------------------------------------------------
\* A device with nothing running and nothing in flight.
CalmSuffices ==
    (/\ Types /\ Files /\ pc = "idle" /\ todo = <<>> /\ disk = cache
     /\ SB(cache).clean => Exact(cache)
     /\ OneSize) => ResizeInv

\* It satisfies the invariant.
LEMMA Rest == CalmSuffices
<1>. SUFFICES ASSUME Types, Files, pc = "idle", todo = <<>>, disk = cache,
                     SB(cache).clean => Exact(cache), OneSize
              PROVE  ResizeInv
  BY DEF CalmSuffices
<1>1. Jobs = {} /\ Place = "idle" /\ NextSupers = {}
  BY NoJobs DEF Place, NextSupers
<1>2. Guarded
  <2>1. MayBeClean => SB(cache).clean
    BY <1>1 DEF MayBeClean
  <2>. QED
    BY <1>1, <2>1 DEF Guarded, Alike
<1>3. End(cache) \in Int
  BY Typed DEF Types
<1>4. Smaller
  BY <1>1, <1>3 DEF Smaller, End
<1>5. Flushed
  BY DEF Flushed
<1>6. Stages
  BY <1>1 DEF Stages, Shrinking, Growing, Committing, Starting, Dirty
<1>. QED
  BY <1>2, <1>4, <1>5, <1>6 DEF ResizeInv

\* The same after a step.
LEMMA RestNext == CalmSuffices'
BY Rest, PTL

\* A step that leaves nothing running and nothing queued keeps the invariant.
LEMMA Restful ==
    ASSUME Types', Files', pc' = "idle", todo' = <<>>, disk' = cache',
           SB(cache').clean => Exact(cache)', OneSize'
    PROVE  ResizeInv'
BY RestNext DEF CalmSuffices
-----------------------------------------------------------------------------
\* One write: what the cells hold afterwards was there or was to be written.
LEMMA WriteCell ==
    ASSUME Types, Write
    PROVE  \E j \in Jobs :
              /\ j = <<j[1], j[2]>> /\ j[1] \in Cells /\ j[2] \in Values /\ Fits(j[1], j[2])
              /\ \A x \in Cells : cache'[x] = IF x = j[1] THEN j[2] ELSE cache[x]
              /\ cache' \in [Cells -> Values]
              /\ todo' \in Seq(Cells \X Values) /\ Jobs' \subseteq Jobs
              /\ \A i \in Jobs : i = j \/ i \in Jobs'
<1>1. /\ todo \in Seq(Cells \X Values) /\ todo # <<>> /\ todo' = Tail(todo)
      /\ cache' = [cache EXCEPT ![todo[1][1]] = todo[1][2]]
      /\ cache \in [Cells -> Values] /\ \A j \in Jobs : Fits(j[1], j[2])
  BY DEF Types, Write
<1>2. /\ todo[1] \in Jobs /\ todo[1] \in Cells \X Values
      /\ todo' \in Seq(Cells \X Values) /\ Jobs' \subseteq Jobs
      /\ \A i \in Jobs : i = todo[1] \/ i \in Jobs'
  BY <1>1, WriteJobs
<1>. DEFINE h == todo[1]
<1>3. h = <<h[1], h[2]>> /\ h[1] \in Cells /\ h[2] \in Values /\ Fits(h[1], h[2])
  BY <1>1, <1>2
<1>4. cache' \in [Cells -> Values] /\ \A x \in Cells : cache'[x] = IF x = h[1] THEN h[2] ELSE cache[x]
  BY <1>1, <1>3
<1>5. h \in Jobs
  BY <1>2
<1>6. todo' \in Seq(Cells \X Values) /\ Jobs' \subseteq Jobs /\ \A i \in Jobs : i = h \/ i \in Jobs'
  BY <1>2
<1>. HIDE DEF h
<1>. QED
  BY <1>3, <1>4, <1>5, <1>6

\* Write, one cell of the queue, keeps it.
LEMMA WriteKeeps ==
    ASSUME ResizeInv, Write
    PROVE  ResizeInv'
<1>1. PICK j \in Jobs :
          /\ j = <<j[1], j[2]>> /\ j[1] \in Cells /\ j[2] \in Values /\ Fits(j[1], j[2])
          /\ \A x \in Cells : cache'[x] = IF x = j[1] THEN j[2] ELSE cache[x]
          /\ cache' \in [Cells -> Values]
          /\ todo' \in Seq(Cells \X Values) /\ Jobs' \subseteq Jobs
          /\ \A i \in Jobs : i = j \/ i \in Jobs'
  BY WriteCell DEF ResizeInv
<1>2. /\ pc = "write" /\ pc' = "write"
      /\ UNCHANGED <<disk, phase, cont, sbraw, goal, owned, pending, mounts, world>>
  BY DEF Write, locals, files
<1>3. Place' = Place /\ Place = cont
  BY <1>2 DEF Place
<1>4. 0 \in Copies /\ Super(0) \in Cells /\ Desc(0) \in Cells /\ Bitmap \in Cells
  BY Apart, Geometry, Zenon
<1>5. Types'
  <2>1. \A x \in Cells : Fits(x, cache'[x])
    BY <1>1 DEF ResizeInv, Types
  <2>2. \A i \in Jobs' : Fits(i[1], i[2])
    BY <1>1 DEF ResizeInv, Types
  <2>. QED
    BY <1>1, <1>2, <1>3, <2>1, <2>2, Zenon DEF ResizeInv, Types
<1>6. cache'[Bitmap] = cache[Bitmap] \/ (j[1] = Bitmap /\ cache'[Bitmap] = j[2])
  BY <1>1, <1>4
<1>7. \A k \in Copies : cache'[Super(k)] = cache[Super(k)]
                        \/ (j[1] = Super(k) /\ cache'[Super(k)] = j[2])
  BY <1>1, Apart
<1>8. SB(cache') = SB(cache) \/ (j[1] = Super(0) /\ SB(cache') = j[2])
  BY <1>4, <1>7 DEF SB
<1>9. cache'[Desc(0)] = cache[Desc(0)] \/ (j[1] = Desc(0) /\ cache'[Desc(0)] = j[2])
  BY <1>1, <1>4
<1>10. NextSupers' \subseteq NextSupers
  BY <1>1 DEF NextSupers
<1>11. SB(cache') \in {SB(cache)} \cup NextSupers
  BY <1>1, <1>8, Zenon DEF NextSupers
<1>12. Bitmaps' \subseteq Bitmaps
  BY <1>1, <1>2, <1>6 DEF Bitmaps
<1>13. Supers' \subseteq Supers
  <2>1. \A k \in Copies : cache'[Super(k)] \in Supers
    BY <1>1, <1>7 DEF Supers
  <2>2. \A k \in Copies : disk'[Super(k)] \in Supers
    BY <1>2 DEF Supers
  <2>3. \A i \in Jobs', k \in Copies : i[1] = Super(k) => i[2] \in Supers
    BY <1>1 DEF Supers
  <2>. QED
    BY <2>1, <2>2, <2>3 DEF Supers
<1>14. Primaries' \subseteq Primaries
  BY <1>2, <1>10, <1>11 DEF Primaries
<1>15. Files'
  <2>1. Files
    BY DEF ResizeInv
  <2>2. \A b \in Bitmaps' : owned' \cup Fixed \subseteq b
                            /\ b \cap (0..(Target - 1)) \subseteq owned' \cup Fixed
    BY <1>2, <1>12, <2>1, Zenon DEF Files
  <2>3. {SB(cache), SB(disk)}' \cup NextSupers' \subseteq {SB(cache), SB(disk)} \cup NextSupers
    BY <1>2, <1>10, <1>11
  <2>4. \A s \in {SB(cache), SB(disk)}' \cup NextSupers' :
            owned' \cup pending' \subseteq 0..(s.blocks - 1)
    BY <1>2, <2>1, <2>3, Zenon DEF Files
  <2>. QED
    BY <1>2, <2>1, <2>2, <2>4, Zenon DEF Files
<1>16. Guarded'
  <2>. SUFFICES ASSUME MayBeClean' PROVE Guarded'
    BY DEF Guarded
  <2>1. MayBeClean
    <3>1. CASE SB(cache)'.clean
      BY <1>11, <3>1 DEF MayBeClean
    <3>2. CASE "power" \in world' /\ SB(disk)'.clean
      BY <1>2, <3>2 DEF MayBeClean
    <3>3. CASE \E s \in NextSupers' : s.clean
      BY <1>10, <3>3, Zenon DEF MayBeClean
    <3>. QED
      BY <3>1, <3>2, <3>3 DEF MayBeClean
  <2>2. /\ Exact(cache)
        /\ "power" \in world => /\ cache[Bitmap] = disk[Bitmap] /\ cache[Desc(0)] = disk[Desc(0)]
                                /\ Alike(SB(cache), SB(disk))
        /\ \A i \in Jobs : /\ i[1] = Bitmap => i[2] = cache[Bitmap]
                           /\ i[1] = Desc(0) => i[2] = cache[Desc(0)]
                           /\ i[1] = Super(0) => Alike(i[2], SB(cache))
    BY <2>1 DEF ResizeInv, Guarded
  <2>3. cache'[Bitmap] = cache[Bitmap] /\ cache'[Desc(0)] = cache[Desc(0)]
    BY <1>6, <1>9, <2>2, Zenon
  <2>4. Alike(SB(cache'), SB(cache))
    BY <1>8, <2>2, Zenon DEF Alike
  <2>5. Exact(cache)'
    BY <1>2, <2>2, <2>3, <2>4, Zenon DEF Exact, verify_metadata, Inside, Alike, End
  <2>6. \A i \in Jobs' : /\ i[1] = Bitmap => i[2] = cache'[Bitmap]
                         /\ i[1] = Desc(0) => i[2] = cache'[Desc(0)]
                         /\ i[1] = Super(0) => Alike(i[2], SB(cache'))
    BY <1>1, <2>2, <2>3, <2>4, Zenon DEF Alike
  <2>7. "power" \in world' => Alike(SB(cache'), SB(disk'))
    BY <1>2, <2>2, <2>4 DEF Alike
  <2>. QED
    BY <1>2, <2>2, <2>3, <2>5, <2>6, <2>7, Zenon DEF Guarded
<1>17. OneSize'
  BY <1>13, <1>14 DEF ResizeInv, OneSize
<1>18. Smaller'
  BY <1>2, <1>10, <1>11 DEF ResizeInv, Smaller
<1>19. Flushed'
  BY <1>2 DEF Flushed
<1>20. ASSUME NEW x \in Cells, NEW v, Becomes(x, v)
       PROVE  (cache'[x] = v \/ <<x, v>> \in Jobs') /\ \A i \in Jobs' : i[1] = x => i[2] = v
  <2>1. cache'[x] = v \/ <<x, v>> \in Jobs'
    <3>1. CASE cache[x] = v
      BY <1>1, <1>20, <3>1 DEF Becomes
    <3>2. CASE <<x, v>> \in Jobs
      BY <1>1, <3>2
    <3>. QED
      BY <1>20, <3>1, <3>2, Zenon DEF Becomes
  <2>2. \A i \in Jobs' : i[1] = x => i[2] = v
    BY <1>1, <1>20 DEF Becomes
  <2>. QED
    BY <2>1, <2>2
<1>21. Stages'
  <2>0. Stages /\ Types /\ UNCHANGED <<Shrunk(FALSE), Grown(FALSE), Marked>>
    BY <1>2 DEF ResizeInv, Shrunk, Grown, Marked, Removed, Added
  <2>1. cont \in Starting => \A k \in Copies : Becomes(Super(k), Marked)'
    <3>. SUFFICES ASSUME cont \in Starting, NEW k \in Copies PROVE Becomes(Super(k), Marked)'
      BY Zenon
    <3>1. Becomes(Super(k), Marked) /\ sbraw \in SuperT
      BY <1>2, <1>3, <2>0 DEF Stages, Starting, Shrinking, Growing
    <3>2. Super(k) \in Cells /\ Marked' = Marked
      BY <2>0, Apart, Zenon
    <3>. QED
      BY <1>20, <3>1, <3>2 DEF Becomes
  <2>2. cont = "grow_bitmap" => \A i \in Jobs' : i[1] # Bitmap /\ i[1] # Desc(0)
    BY <1>1, <1>2, <2>0, Zenon DEF Stages
  <2>3. Place \in Dirty => NoneClean' \/ cont \in Starting
    BY <1>2, <1>13, <2>0, Zenon DEF Stages, NoneClean
  <2>4. Place = "grow_bitmap" =>
            Inside(cache'[Bitmap], sbraw.blocks) /\ cache'[Desc(0)].free <= sbraw.blocks
    BY <1>2, <1>3, <1>6, <1>9, <2>0, Zenon DEF Stages
  <2>5. cont = "grow_size" => \E b \in SUBSET Bits : Inside(b, goal) /\ Becomes(Bitmap, b)'
    <3>. SUFFICES ASSUME cont = "grow_size" PROVE \E b \in SUBSET Bits : Inside(b, goal) /\ Becomes(Bitmap, b)'
      BY Zenon
    <3>1. PICK b \in SUBSET Bits : Inside(b, goal) /\ Becomes(Bitmap, b)
      BY <1>2, <2>0, Zenon DEF Stages
    <3>2. Becomes(Bitmap, b)'
      BY <1>4, <1>20, <3>1 DEF Becomes
    <3>. QED
      BY <3>1, <3>2
  <2>6. Place = "grow_verify" => Inside(cache'[Bitmap], goal) /\ \A i \in Jobs' : i[1] # Bitmap
    BY <1>1, <1>6, <2>0 DEF Stages
  <2>7. Place = "shrink_verify" => (cache'[Super(0)] = Shrunk(FALSE) \/ <<Super(0), Shrunk(FALSE)>> \in Jobs')
                                   /\ \A i \in Jobs' : i[1] = Super(0) => i[2] = Shrunk(FALSE)
    <3>1. Place = "shrink_verify" => Becomes(Super(0), Shrunk(FALSE))
      BY <2>0, Zenon DEF Stages
    <3>. QED
      BY <1>4, <1>20, <3>1, Zenon
  <2>8. Place = "grow_verify" => (cache'[Super(0)] = Grown(FALSE) \/ <<Super(0), Grown(FALSE)>> \in Jobs')
                                   /\ \A i \in Jobs' : i[1] = Super(0) => i[2] = Grown(FALSE)
    <3>1. Place = "grow_verify" => Becomes(Super(0), Grown(FALSE))
      BY <2>0, Zenon DEF Stages
    <3>. QED
      BY <1>4, <1>20, <3>1, Zenon
  <2>9. Place \in Committing =>
          /\ Target < End(cache') /\ cache'[Bitmap] \cap (Target..(End(cache') - 1)) = {}
          /\ \A i \in Jobs' : i[1] = Super(0) /\ Alike(i[2], SB(cache'))
    <3>. SUFFICES ASSUME Place \in Committing
                  PROVE  /\ Target < End(cache') /\ cache'[Bitmap] \cap (Target..(End(cache') - 1)) = {}
                         /\ \A i \in Jobs' : i[1] = Super(0) /\ Alike(i[2], SB(cache'))
      BY Zenon
    <3>1. /\ Target < End(cache) /\ cache[Bitmap] \cap (Target..(End(cache) - 1)) = {}
          /\ \A i \in Jobs : i[1] = Super(0) /\ Alike(i[2], SB(cache))
      BY <2>0, Zenon DEF Stages
    <3>2. Alike(SB(cache'), SB(cache)) /\ cache'[Bitmap] = cache[Bitmap]
      BY <1>1, <1>4, <1>6, <1>8, <3>1, Apart DEF Alike
    <3>3. End(cache') = End(cache)
      BY <3>2, Zenon DEF Alike, End
    <3>4. \A i \in Jobs' : i[1] = Super(0) /\ Alike(i[2], SB(cache'))
      BY <1>1, <3>1, <3>2, Zenon DEF Alike
    <3>. QED
      BY <3>1, <3>2, <3>3, <3>4, Zenon
  <2>10. /\ Place \in Shrinking \cup Growing => sbraw \in SuperT
         /\ Place \in Shrinking =>
              goal = Target /\ Target < sbraw.blocks /\ owned \cup pending \subseteq 0..(Target - 1)
         /\ Place \in Growing =>
              sbraw.blocks < goal /\ sbraw.free <= sbraw.blocks
              /\ owned \cup pending \subseteq 0..(sbraw.blocks - 1)
    BY <2>0 DEF Stages
  <2>11. Place = "shrink_verify" => Becomes(Super(0), Shrunk(FALSE))'
    BY <2>0, <2>7, Zenon DEF Becomes
  <2>12. Place = "grow_verify" => Becomes(Super(0), Grown(FALSE))'
    BY <2>0, <2>8, Zenon DEF Becomes
  <2>13. pc' = "write" /\ cont' \in Starting => \A k \in Copies : Becomes(Super(k), Marked)'
    BY <1>2, <2>1
  <2>14. pc' = "write" /\ cont' = "grow_bitmap" => \A i \in Jobs' : i[1] # Bitmap /\ i[1] # Desc(0)
    BY <1>2, <2>2
  <2>15. Place' \in Dirty => NoneClean' \/ (pc' = "write" /\ cont' \in Starting)
    BY <1>2, <1>3, <2>3, Zenon
  <2>16. Place' = "grow_bitmap" =>
             Inside(cache[Bitmap], sbraw.blocks)' /\ (cache[Desc(0)].free <= sbraw.blocks)'
    BY <1>2, <1>3, <2>4, Zenon DEF Inside
  <2>17. pc' = "write" /\ cont' = "grow_size" =>
             \E b \in SUBSET Bits : Inside(b, goal)' /\ Becomes(Bitmap, b)'
    BY <1>2, <2>5 DEF Inside
  <2>18. pc' = "grow_size" \/ Place' = "grow_verify" =>
             Inside(cache[Bitmap], goal)' /\ \A i \in Jobs' : i[1] # Bitmap
    BY <1>2, <1>3, <2>6, Zenon DEF Inside
  <2>19. Place' \in {"grow_bitmap", "grow_size"} =>
             (\A s \in {SB(cache)} \cup NextSupers : s.blocks = sbraw.blocks)'
    BY <1>2, <1>3, <1>10, <1>11, <2>0, Zenon DEF Stages
  <2>. QED
    BY <1>2, <1>3, <2>9, <2>10, <2>11, <2>12, <2>13, <2>14, <2>15, <2>16, <2>17, <2>18, <2>19, Zenon DEF Stages
<1>. QED
  BY <1>5, <1>15, <1>16, <1>17, <1>18, <1>19, <1>21, Zenon DEF ResizeInv
-----------------------------------------------------------------------------
\* The flush that ends a series of writes.
LEMMA FlushKeeps ==
    ASSUME ResizeInv, FlushDevice
    PROVE  ResizeInv'
<1>1. /\ pc = "write" /\ todo = <<>> /\ disk' = cache /\ cache' = cache /\ todo' = <<>>
      /\ UNCHANGED <<phase, owned, pending, mounts, world>>
  BY DEF FlushDevice, files, Finish
<1>2. Types /\ Files /\ Guarded /\ OneSize /\ Smaller /\ Stages
  BY DEF ResizeInv
<1>3. /\ cont # "idle" => UNCHANGED <<sbraw, goal, cont>> /\ pc' = cont
      /\ cont = "idle" => pc' = "idle" /\ cont' = "idle" /\ goal' = 0
  BY DEF FlushDevice, Finish, locals
<1>4. Jobs = {} /\ Jobs' = {} /\ NextSupers = {} /\ NextSupers' = {}
  BY <1>1, NoJobs, NoJobsNext, Zenon DEF NextSupers
<1>5. pc' = cont /\ cont # "write"
  BY <1>2, <1>3 DEF Types, Shrinking, Growing, Committing
<1>6. Place = cont /\ Place' = cont
  BY <1>1, <1>5, Zenon DEF Place
<1>7. Types'
  <2>1. cont' \in {"idle"} \cup Shrinking \cup Growing \cup Committing /\ goal' \in 0..GroupEnd
    BY <1>2, <1>3, Geometry DEF Types
  <2>2. todo' \in Seq(Cells \X Values)
    BY <1>1
  <2>3. pc' \in {"idle", "write"} \cup Shrinking \cup Growing \cup Committing
    BY <1>2, <1>5 DEF Types
  <2>4. (Place' \in Shrinking => "shrink" \in world') /\ (Place' \in Committing => "commit" \in world')
    BY <1>1, <1>2, <1>6, Zenon DEF Types
  <2>. QED
    BY <1>1, <1>2, <1>4, <2>1, <2>2, <2>3, <2>4, Zenon DEF Types
<1>8. Bitmaps' \subseteq Bitmaps
  BY <1>1, <1>4, Zenon DEF Bitmaps
<1>9. Supers' \subseteq Supers /\ \A s \in Supers' : \E k \in Copies : s = cache[Super(k)]
  BY <1>1, <1>4, Zenon DEF Supers
<1>10. Primaries' \subseteq Primaries
  BY <1>1, <1>4, Zenon DEF Primaries, SB
<1>11. Files'
  <2>1. \A b \in Bitmaps' : owned' \cup Fixed \subseteq b
                            /\ b \cap (0..(Target - 1)) \subseteq owned' \cup Fixed
    BY <1>1, <1>2, <1>8, Zenon DEF Files
  <2>2. {SB(cache), SB(disk)}' \cup NextSupers' \subseteq {SB(cache), SB(disk)} \cup NextSupers
    BY <1>1, <1>4, Zenon DEF SB
  <2>3. \A s \in {SB(cache), SB(disk)}' \cup NextSupers' :
            owned' \cup pending' \subseteq 0..(s.blocks - 1)
    BY <1>1, <1>2, <2>2, Zenon DEF Files
  <2>. QED
    BY <1>1, <1>2, <2>1, <2>3, Zenon DEF Files
<1>12. Guarded'
  <2>1. SB(disk') = SB(cache') /\ SB(cache') = SB(cache)
    BY <1>1 DEF SB
  <2>2. MayBeClean' => MayBeClean
    BY <1>4, <2>1, Zenon DEF MayBeClean
  <2>3. MayBeClean' => Exact(cache)'
    BY <1>1, <1>2, <2>2, Zenon DEF Guarded, Exact, Inside
  <2>. QED
    BY <1>1, <1>4, <2>1, <2>3 DEF Guarded, Alike
<1>13. OneSize'
  BY <1>2, <1>9, <1>10, Zenon DEF OneSize
<1>14. Smaller'
  <2>1. End(cache) \in Nat
    BY <1>2, Typed DEF Types
  <2>. QED
    BY <1>1, <1>4, <2>1 DEF Smaller, End, SB
<1>15. Flushed'
  BY <1>1 DEF Flushed
<1>16. Stages'
  <2>1. CASE cont = "idle"
    BY <1>5, <1>6, <2>1 DEF Stages, Shrinking, Growing, Committing, Starting, Dirty
  <2>2. CASE cont # "idle"
    <3>1. UNCHANGED <<sbraw, goal, cont>> /\ pc' = cont /\ pc' # "write"
      BY <1>3, <1>5, <2>2
    <3>2. Place' \in Dirty => NoneClean'
      <4>1. CASE cont \in Starting
        <5>1. \A k \in Copies : cache[Super(k)] = Marked
          BY <1>1, <1>2, <1>4, <4>1, Zenon DEF Stages, Becomes
        <5>2. sbraw \in SuperT
          BY <1>2, <1>6, <4>1, Zenon DEF Stages, Starting, Shrinking, Growing
        <5>3. Marked.clean = FALSE
          BY <5>2, SuperFields, Zenon DEF Marked
        <5>. QED
          BY <1>9, <5>1, <5>3, Zenon DEF NoneClean
      <4>2. CASE cont \notin Starting
        BY <1>2, <1>6, <1>9, <4>2, Zenon DEF Stages, NoneClean
      <4>. QED
        BY <4>1, <4>2
    <3>3. pc' = "grow_size" => Inside(cache[Bitmap], goal)'
      <4>. SUFFICES ASSUME pc' = "grow_size" PROVE Inside(cache[Bitmap], goal)'
        BY Zenon
      <4>1. PICK b \in SUBSET Bits : Inside(b, goal) /\ Becomes(Bitmap, b)
        BY <1>1, <1>2, <1>5, Zenon DEF Stages
      <4>. QED
        BY <1>1, <1>4, <3>1, <4>1 DEF Becomes, Inside
    <3>4. Place' = "grow_verify" => Inside(cache[Bitmap], goal)'
      BY <1>1, <1>2, <1>6, <3>1, Zenon DEF Stages, Inside
    <3>5. Place' = "shrink_verify" => Becomes(Super(0), Shrunk(FALSE))'
      BY <1>1, <1>2, <1>4, <1>6, <3>1, Zenon DEF Stages, Becomes, Shrunk, Removed
    <3>6. Place' = "grow_verify" => Becomes(Super(0), Grown(FALSE))'
      BY <1>1, <1>2, <1>4, <1>6, <3>1, Zenon DEF Stages, Becomes, Grown, Added
    <3>7. Place' \in Committing => /\ (Target < End(cache))'
                                   /\ (cache[Bitmap] \cap (Target..(End(cache) - 1)) = {})'
      BY <1>1, <1>2, <1>6, Zenon DEF Stages
    <3>8. Place' = "grow_bitmap" =>
             Inside(cache[Bitmap], sbraw.blocks)' /\ (cache[Desc(0)].free <= sbraw.blocks)'
      BY <1>1, <1>2, <1>6, <3>1, Zenon DEF Stages, Inside
    <3>9. /\ Place' \in Shrinking \cup Growing => (sbraw \in SuperT)'
          /\ Place' \in Shrinking => (goal = Target /\ Target < sbraw.blocks
                                      /\ owned \cup pending \subseteq 0..(Target - 1))'
          /\ Place' \in Growing => (sbraw.blocks < goal /\ sbraw.free <= sbraw.blocks
                                    /\ owned \cup pending \subseteq 0..(sbraw.blocks - 1))'
      BY <1>1, <1>2, <1>6, <3>1, Zenon DEF Stages
    <3>10. Place' \in {"grow_bitmap", "grow_size"} =>
             (\A s \in {SB(cache)} \cup NextSupers : s.blocks = sbraw.blocks)'
      BY <1>1, <1>2, <1>4, <1>6, <3>1, Zenon DEF Stages, SB
    <3>. QED
      BY <1>4, <3>1, <3>2, <3>3, <3>4, <3>5, <3>6, <3>7, <3>8, <3>9, <3>10, Zenon DEF Stages
  <2>. QED
    BY <2>1, <2>2, Zenon
<1>. QED
  BY <1>7, <1>11, <1>12, <1>13, <1>14, <1>15, <1>16, Zenon DEF ResizeInv

\* A command ends, by itself or because it is killed; the device stays as it is.
LEMMA FinishKeeps ==
    ASSUME ResizeInv, Finish, UNCHANGED <<cache, disk, owned, pending, mounts, world>>,
           phase' \in {"staged", "metadata_finalize", "compacted", "filesystem_shrunk"},
           "interrupt" \in world \/ cache = disk
    PROVE  ResizeInv'
<1>1. /\ todo' = <<>> /\ pc' = "idle" /\ cont' = "idle" /\ goal' = 0
      /\ UNCHANGED <<cache, disk, owned, pending, mounts, world>>
  BY DEF Finish
<1>2. Types /\ Files /\ Guarded /\ OneSize /\ Smaller
  BY DEF ResizeInv
<1>3. Jobs' = {} /\ Place' = "idle" /\ NextSupers' = {}
  BY <1>1, NoJobsNext, ZenonT(30) DEF Place, NextSupers
<1>4. Types'
  BY <1>1, <1>2, <1>3, Geometry DEF Types, Shrinking, Committing
<1>5. Bitmaps' \subseteq Bitmaps /\ Supers' \subseteq Supers /\ Primaries' \subseteq Primaries
  <2>1. Bitmaps' \subseteq Bitmaps
    BY <1>1, <1>3, ZenonT(30) DEF Bitmaps
  <2>2. Supers' \subseteq Supers
    BY <1>1, <1>3 DEF Supers
  <2>3. Primaries' \subseteq Primaries
    BY <1>1, <1>3, Zenon DEF Primaries, SB
  <2>. QED
    BY <2>1, <2>2, <2>3, Zenon
<1>6. Files'
  <2>1. \A b \in Bitmaps' : owned' \cup Fixed \subseteq b
                            /\ b \cap (0..(Target - 1)) \subseteq owned' \cup Fixed
    BY <1>1, <1>2, <1>5, Zenon DEF Files
  <2>2. \A s \in {SB(cache), SB(disk)}' \cup NextSupers' :
            owned' \cup pending' \subseteq 0..(s.blocks - 1)
    BY <1>1, <1>2, <1>3, Zenon DEF Files, SB
  <2>. QED
    BY <1>1, <1>2, <2>1, <2>2, Zenon DEF Files
<1>7. Guarded'
  <2>1. MayBeClean' => MayBeClean
    BY <1>1, <1>3, Zenon DEF MayBeClean, SB
  <2>2. MayBeClean' => Exact(cache)'
    BY <1>1, <1>2, <2>1 DEF Guarded, Exact, Inside
  <2>. QED
    BY <1>1, <1>2, <1>3, <2>1, <2>2, Zenon DEF Guarded, SB
<1>8. OneSize'
  BY <1>2, <1>5, Zenon DEF OneSize
<1>9. Smaller'
  BY <1>1, <1>2, <1>3 DEF Smaller, End, SB
<1>10. Flushed'
  BY <1>1, ZenonT(30) DEF Flushed
<1>11. Stages'
  BY <1>1, <1>3 DEF Stages, Shrinking, Growing, Committing, Starting, Dirty
<1>. QED
  BY <1>4, <1>6, <1>7, <1>8, <1>9, <1>10, <1>11, Zenon DEF ResizeInv

\* A power loss keeps any of the cells written since the last flush.
LEMMA PowerLossKeeps ==
    ASSUME ResizeInv, PowerLoss
    PROVE  ResizeInv'
<1>1. /\ todo' = <<>> /\ pc' = "idle" /\ cont' = "idle" /\ goal' = 0 /\ disk' = cache'
      /\ UNCHANGED <<phase, owned, pending, mounts, world>> /\ "power" \in world
  BY DEF PowerLoss, Finish, files
<1>2. Types /\ Files /\ Guarded /\ OneSize /\ Smaller
  BY Zenon DEF ResizeInv
<1>3. Jobs' = {} /\ Place' = "idle" /\ NextSupers' = {}
  BY <1>1, NoJobsNext DEF Place, NextSupers
<1>4. cache' \in [Cells -> Values] /\ \A x \in Cells : cache'[x] \in {cache[x], disk[x]}
  <2>1. PICK kept \in SUBSET {x \in DOMAIN cache : cache[x] # disk[x]} :
            cache' = [x \in DOMAIN cache |-> IF x \in kept THEN cache[x] ELSE disk[x]]
    BY Zenon DEF PowerLoss
  <2>2. cache \in [Cells -> Values] /\ disk \in [Cells -> Values]
    BY <1>2 DEF Types
  <2>3. cache' = [x \in Cells |-> IF x \in kept THEN cache[x] ELSE disk[x]]
    BY <2>1, <2>2, Zenon
  <2>. QED
    BY <2>2, <2>3, Zenon
<1>5. Types'
  <2>1. \A x \in Cells : Fits(x, cache'[x])
    BY <1>2, <1>4, Zenon DEF Types
  <2>. QED
    BY <1>1, <1>2, <1>3, <1>4, <2>1, Geometry DEF Types, Shrinking, Committing
<1>6. 0 \in Copies /\ Super(0) \in Cells /\ Desc(0) \in Cells /\ Bitmap \in Cells
  BY Apart, Geometry, Zenon
<1>7. SB(cache') \in {SB(cache), SB(disk)} /\ SB(disk') = SB(cache')
  BY <1>1, <1>4, <1>6, Zenon DEF SB
<1>8. Files'
  <2>1. \A b \in Bitmaps' : owned' \cup Fixed \subseteq b
                            /\ b \cap (0..(Target - 1)) \subseteq owned' \cup Fixed
    <3>1. Bitmaps' \subseteq Bitmaps
      BY <1>1, <1>3, <1>4, <1>6, Zenon DEF Bitmaps
    <3>. QED
      BY <1>1, <1>2, <3>1, Zenon DEF Files
  <2>2. \A s \in {SB(cache), SB(disk)}' \cup NextSupers' :
            owned' \cup pending' \subseteq 0..(s.blocks - 1)
    BY <1>1, <1>2, <1>3, <1>7, Zenon DEF Files
  <2>. QED
    BY <1>1, <1>2, <2>1, <2>2 DEF Files
<1>9. OneSize'
  <2>1. Supers' \subseteq Supers
    BY <1>1, <1>3, <1>4, Apart DEF Supers
  <2>2. Primaries' \subseteq Primaries
    BY <1>1, <1>3, <1>7, Zenon DEF Primaries
  <2>. QED
    BY <1>2, <2>1, <2>2, Zenon DEF OneSize
<1>10. ASSUME SB(cache').clean PROVE Exact(cache)'
  <2>1. MayBeClean
    BY <1>1, <1>7, <1>10, Zenon DEF MayBeClean
  <2>2. /\ Exact(cache) /\ cache[Bitmap] = disk[Bitmap] /\ cache[Desc(0)] = disk[Desc(0)]
        /\ Alike(SB(cache), SB(disk))
    BY <1>1, <1>2, <2>1, Zenon DEF Guarded
  <2>3. /\ cache'[Bitmap] = cache[Bitmap] /\ cache'[Desc(0)] = cache[Desc(0)]
        /\ Alike(SB(cache'), SB(cache))
    BY <1>4, <1>6, <1>7, <2>2, Zenon DEF Alike
  <2>. QED
    BY <1>1, <2>2, <2>3 DEF Exact, verify_metadata, Inside, Alike, End
<1>. QED
  BY <1>1, <1>5, <1>8, <1>9, <1>10, Restful, Zenon
-----------------------------------------------------------------------------
\* A command starts a series of writes q.  What they bring must agree with the
\* files, and no size below the durable one may be clean.
LEMMA Begin ==
    ASSUME ResizeInv, pc # "write", NEW q, NEW place, WriteThen(q, place),
           UNCHANGED <<cache, disk, phase, owned, pending, mounts, world>>,
           goal' \in 0..GroupEnd,
           q \in Seq(Cells \X Values), \A j \in RangeOf(q) : Fits(j[1], j[2]),
           place \in {"idle"} \cup Shrinking \cup Growing \cup Committing,
           place \in Shrinking => "shrink" \in world,
           place \in Committing => "commit" \in world,
           \A j \in RangeOf(q) : j[1] = Bitmap =>
               owned \cup Fixed \subseteq j[2] /\ j[2] \cap (0..(Target - 1)) \subseteq owned \cup Fixed,
           \A j \in RangeOf(q) : j[1] = Super(0) =>
               /\ owned \cup pending \subseteq 0..(j[2].blocks - 1)
               /\ j[2].blocks >= End(disk) \/ (j[2].blocks = Target /\ ~j[2].clean)
    PROVE  /\ Types' /\ Files' /\ Smaller' /\ Flushed'
           /\ Jobs = {} /\ Jobs' = RangeOf(q) /\ pc' = "write" /\ cont' = place /\ Place' = place
<1>1. Types /\ Files /\ Smaller
  BY Zenon DEF ResizeInv
<1>2. /\ Jobs = {} /\ NextSupers = {} /\ Jobs' = RangeOf(q) /\ pc' = "write" /\ cont' = place
      /\ Place' = place /\ todo' = q
  BY <1>1, NoJobs, JobsNext, Zenon DEF WriteThen, Types, Place, NextSupers
<1>3. Types'
  BY <1>1, <1>2, Zenon DEF Types
<1>4. \A s \in NextSupers' : \E j \in RangeOf(q) : j[1] = Super(0) /\ s = j[2]
  BY <1>2, Zenon DEF NextSupers
<1>5. \A b \in Bitmaps' : b \in Bitmaps \/ \E j \in RangeOf(q) : j[1] = Bitmap /\ b = j[2]
  BY <1>2, Zenon DEF Bitmaps
<1>6. Files'
  <2>1. \A b \in Bitmaps' : owned \cup Fixed \subseteq b
                            /\ b \cap (0..(Target - 1)) \subseteq owned \cup Fixed
    BY <1>1, <1>5 DEF Files
  <2>2. \A s \in {SB(cache), SB(disk)} \cup NextSupers' : owned \cup pending \subseteq 0..(s.blocks - 1)
    BY <1>1, <1>4, Zenon DEF Files
  <2>. QED
    BY <1>1, <2>1, <2>2, Zenon DEF Files, SB
<1>7. Smaller'
  BY <1>1, <1>4, SMTT(30) DEF Smaller, SB, End
<1>8. Flushed'
  BY <1>2 DEF Flushed
<1>. QED
  BY <1>2, <1>3, <1>6, <1>7, <1>8, Zenon

\* No copy is clean, or becomes so.
LEMMA BeginDirty ==
    ASSUME NoneClean, Jobs = {}, UNCHANGED <<cache, disk, world>>,
           \A j \in Jobs' : \A k \in Copies : j[1] = Super(k) => ~j[2].clean
    PROVE  Guarded' /\ OneSize' /\ NoneClean'
<1>1. NoneClean'
  <2>1. \A s \in Supers' : s \in Supers \/ \E j \in Jobs' : \E k \in Copies : j[1] = Super(k) /\ s = j[2]
    BY DEF Supers
  <2>. QED
    BY <2>1, Zenon DEF NoneClean
<1>2. ~MayBeClean'
  <2>1. 0 \in Copies
    BY Geometry, Zenon
  <2>2. SB(cache') \in Supers' /\ SB(disk') \in Supers' /\ NextSupers' \subseteq Supers'
    BY <2>1, Zenon DEF Supers, SB, NextSupers
  <2>. QED
    BY <1>1, <2>2 DEF MayBeClean, NoneClean
<1>. QED
  BY <1>1, <1>2 DEF Guarded, OneSize, NoneClean

\* Only clean flags change, and to clean only on a device that is exact and
\* flushed.
LEMMA BeginAlike ==
    ASSUME ResizeInv, Jobs = {}, UNCHANGED <<cache, disk, owned, world>>,
           \A j \in Jobs' : j[1] # Bitmap,
           Exact(cache) => \A j \in Jobs' : /\ j[1] = Desc(0) => j[2] = cache[Desc(0)]
                                            /\ j[1] = Super(0) => Alike(j[2], SB(cache)),
           \A j \in Jobs' : \A k \in Copies : j[1] = Super(k) =>
               /\ j[2].blocks = End(cache)
               /\ j[2].clean => SB(cache).clean \/ (Exact(cache) /\ ("power" \in world => cache = disk))
    PROVE  Guarded' /\ OneSize'
<1>0. 0 \in Copies
  BY Geometry, Zenon
<1>1. Guarded /\ OneSize
  BY Zenon DEF ResizeInv
<1>2. \A s \in NextSupers' : \E j \in Jobs' : j[1] = Super(0) /\ s = j[2]
  BY Zenon DEF NextSupers
<1>3. Exact(cache)' = Exact(cache)
  BY Zenon DEF Exact, Inside
<1>4. ASSUME MayBeClean' PROVE /\ Exact(cache)
                               /\ "power" \in world => /\ cache[Bitmap] = disk[Bitmap]
                                                       /\ cache[Desc(0)] = disk[Desc(0)]
                                                       /\ Alike(SB(cache), SB(disk))
  <2>1. MayBeClean \/ (Exact(cache) /\ ("power" \in world => cache = disk))
    <3>1. CASE SB(cache).clean \/ ("power" \in world /\ SB(disk).clean)
      BY <3>1, Zenon DEF MayBeClean
    <3>2. CASE \E s \in NextSupers' : s.clean
      BY <1>0, <1>2, <3>2, Zenon DEF MayBeClean
    <3>. QED
      BY <1>4, <3>1, <3>2, Zenon DEF MayBeClean, SB
  <2>2. CASE MayBeClean
    BY <1>1, <2>2, Zenon DEF Guarded
  <2>3. CASE Exact(cache) /\ ("power" \in world => cache = disk)
    BY <2>3, Zenon DEF Alike, SB
  <2>. QED
    BY <2>1, <2>2, <2>3, Zenon
<1>5. Guarded'
  <2>. SUFFICES ASSUME MayBeClean' PROVE Guarded'
    BY Zenon DEF Guarded
  <2>1. /\ Exact(cache)
        /\ "power" \in world => /\ cache[Bitmap] = disk[Bitmap]
                                /\ cache[Desc(0)] = disk[Desc(0)]
                                /\ Alike(SB(cache), SB(disk))
    BY <1>4, Zenon
  <2>2. \A j \in Jobs' : /\ j[1] # Bitmap
                         /\ j[1] = Desc(0) => j[2] = cache[Desc(0)]
                         /\ j[1] = Super(0) => Alike(j[2], SB(cache))
    BY <2>1, Zenon
  <2>. QED
    BY <1>3, <2>1, <2>2, Zenon DEF Guarded, SB
<1>6. \A t \in Primaries' : t \in Primaries \/ t.blocks = End(cache)
  BY <1>0, <1>2 DEF Primaries, SB
<1>7. SB(cache) \in Primaries /\ SB(cache) \in Supers
  BY <1>0, Zenon DEF Primaries, Supers, SB
<1>8. ASSUME NEW s \in Supers', s.clean, NEW t \in Primaries' PROVE t.blocks = s.blocks
  <2>1. s \in Supers \/ \E j \in Jobs' : \E k \in Copies : j[1] = Super(k) /\ s = j[2]
    BY Zenon DEF Supers
  <2>2. CASE s \in Supers
    BY <1>1, <1>6, <1>7, <1>8, <2>2, Zenon DEF OneSize, End
  <2>3. CASE \E j \in Jobs' : \E k \in Copies : j[1] = Super(k) /\ s = j[2]
    <3>1. /\ s.blocks = End(cache)
          /\ SB(cache).clean \/ (Exact(cache) /\ ("power" \in world => cache = disk))
      BY <1>8, <2>3, Zenon
    <3>2. CASE SB(cache).clean
      BY <1>1, <1>6, <1>7, <3>1, <3>2, Zenon DEF OneSize, End
    <3>3. CASE "power" \in world => cache = disk
      <4>1. t.blocks = End(cache)
        BY <1>2, <1>0, <3>3 DEF Primaries, SB, End
      <4>. QED
        BY <3>1, <4>1, Zenon
    <3>. QED
      BY <3>1, <3>2, <3>3, Zenon
  <2>. QED
    BY <2>1, <2>2, <2>3, Zenon
<1>. QED
  BY <1>5, <1>8, Zenon DEF OneSize
-----------------------------------------------------------------------------
\* What the commands queue: all copies of a superblock,
LEMMA SuperQueue ==
    ASSUME NEW s \in SuperT
    PROVE  /\ SuperCopies(s) \in Seq(Cells \X Values)
           /\ \A j \in RangeOf(SuperCopies(s)) :
                 /\ Fits(j[1], j[2]) /\ j[1] # Bitmap /\ j[2] = s
                 /\ \A k \in Copies : j[1] # Desc(k)
           /\ \A k \in Copies : <<Super(k), s>> \in RangeOf(SuperCopies(s))
<1>1. /\ SuperCopies(s) \in Seq(Cells \X Values)
      /\ RangeOf(SuperCopies(s)) = {<<Super(k), s>> : k \in Copies}
  BY SuperJobs, Zenon
<1>2. ASSUME NEW j \in RangeOf(SuperCopies(s))
      PROVE  /\ Fits(j[1], j[2]) /\ j[1] # Bitmap /\ j[2] = s
             /\ \A k \in Copies : j[1] # Desc(k)
  <2>1. PICK k \in Copies : j = <<Super(k), s>>
    BY <1>1
  <2>2. j[1] = Super(k) /\ j[2] = s
    BY <2>1
  <2>. QED
    BY <2>2, Apart, Zenon DEF Fits
<1>. QED
  BY <1>1, <1>2, Zenon

\* the bitmap and all copies of its descriptor,
LEMMA BitmapQueue ==
    ASSUME NEW b \in SUBSET Bits, NEW d \in DescT
    PROVE  LET q == <<<<Bitmap, b>>>> \o DescCopies(d)
           IN  /\ q \in Seq(Cells \X Values)
               /\ \A j \in RangeOf(q) : /\ Fits(j[1], j[2]) /\ (j[1] = Bitmap => j[2] = b)
                                        /\ \A k \in Copies : j[1] # Super(k)
               /\ <<Bitmap, b>> \in RangeOf(q)
<1>. DEFINE q == <<<<Bitmap, b>>>> \o DescCopies(d)
<1>1. /\ DescCopies(d) \in Seq(Cells \X Values)
      /\ RangeOf(DescCopies(d)) = {<<Desc(k), d>> : k \in Copies}
  BY DescJobs
<1>2. <<<<Bitmap, b>>>> \in Seq(Cells \X Values) /\ RangeOf(<<<<Bitmap, b>>>>) = {<<Bitmap, b>>}
  <2>1. Bitmap \in Cells /\ b \in Values
    BY Apart, Zenon DEF Values
  <2>. QED
    BY <2>1, SingleJob, Zenon
<1>3. q \in Seq(Cells \X Values) /\ RangeOf(q) = {<<Bitmap, b>>} \cup {<<Desc(k), d>> : k \in Copies}
  <2>. DEFINE o == <<<<Bitmap, b>>>>
              r == DescCopies(d)
  <2>1. o \in Seq(Cells \X Values) /\ r \in Seq(Cells \X Values)
    BY <1>1, <1>2, Zenon
  <2>2. RangeOf(o) = {<<Bitmap, b>>} /\ RangeOf(r) = {<<Desc(k), d>> : k \in Copies}
    BY <1>1, <1>2
  <2>3. q = o \o r
    OBVIOUS
  <2>. HIDE DEF o, r, q
  <2>4. o \o r \in Seq(Cells \X Values) /\ RangeOf(o \o r) = RangeOf(o) \cup RangeOf(r)
    BY <2>1, JoinedJobs, ZenonT(30)
  <2>. QED
    BY <2>2, <2>3, <2>4, Zenon
<1>. HIDE DEF q
<1>4. ASSUME NEW j \in RangeOf(q)
      PROVE  /\ Fits(j[1], j[2]) /\ (j[1] = Bitmap => j[2] = b)
             /\ \A k \in Copies : j[1] # Super(k)
  <2>1. CASE j = <<Bitmap, b>>
    <3>1. j[1] = Bitmap /\ j[2] = b
      BY <2>1
    <3>. QED
      BY <3>1, Apart DEF Fits
  <2>2. ASSUME NEW k \in Copies, j = <<Desc(k), d>>
        PROVE  /\ Fits(j[1], j[2]) /\ (j[1] = Bitmap => j[2] = b)
               /\ \A l \in Copies : j[1] # Super(l)
    <3>1. j[1] = Desc(k) /\ j[2] = d
      BY <2>2
    <3>. QED
      BY <3>1, Apart DEF Fits
  <2>. QED
    BY <1>3, <2>1, <2>2
<1>5. <<Bitmap, b>> \in RangeOf(q)
  BY <1>3, Zenon
<1>. QED
  BY <1>3, <1>4, <1>5, Zenon DEF q

\* all copies of the descriptor and of the superblock,
LEMMA CounterQueue ==
    ASSUME NEW s \in SuperT, NEW d \in DescT
    PROVE  LET q == DescCopies(d) \o SuperCopies(s)
           IN  /\ q \in Seq(Cells \X Values)
               /\ \A j \in RangeOf(q) :
                     /\ Fits(j[1], j[2]) /\ j[1] # Bitmap
                     /\ \A k \in Copies : (j[1] = Desc(k) => j[2] = d) /\ (j[1] = Super(k) => j[2] = s)
<1>. DEFINE q == DescCopies(d) \o SuperCopies(s)
<1>1. /\ DescCopies(d) \in Seq(Cells \X Values)
      /\ RangeOf(DescCopies(d)) = {<<Desc(k), d>> : k \in Copies}
  BY DescJobs, Zenon
<1>2. /\ SuperCopies(s) \in Seq(Cells \X Values)
      /\ RangeOf(SuperCopies(s)) = {<<Super(k), s>> : k \in Copies}
  BY SuperJobs, Zenon
<1>3. q \in Seq(Cells \X Values)
      /\ RangeOf(q) = {<<Desc(k), d>> : k \in Copies} \cup {<<Super(k), s>> : k \in Copies}
  BY <1>1, <1>2, JoinedJobs
<1>. HIDE DEF q
<1>4. ASSUME NEW j \in RangeOf(q)
      PROVE  /\ Fits(j[1], j[2]) /\ j[1] # Bitmap
             /\ \A k \in Copies : (j[1] = Desc(k) => j[2] = d) /\ (j[1] = Super(k) => j[2] = s)
  <2>1. ASSUME NEW k \in Copies, j = <<Super(k), s>>
        PROVE  /\ Fits(j[1], j[2]) /\ j[1] # Bitmap
               /\ \A l \in Copies : (j[1] = Desc(l) => j[2] = d) /\ (j[1] = Super(l) => j[2] = s)
    <3>1. j[1] = Super(k) /\ j[2] = s
      BY <2>1, Zenon
    <3>. QED
      BY <3>1, Apart DEF Fits
  <2>2. ASSUME NEW k \in Copies, j = <<Desc(k), d>>
        PROVE  /\ Fits(j[1], j[2]) /\ j[1] # Bitmap
               /\ \A l \in Copies : (j[1] = Desc(l) => j[2] = d) /\ (j[1] = Super(l) => j[2] = s)
    <3>1. j[1] = Desc(k) /\ j[2] = d
      BY <2>2, Zenon
    <3>. QED
      BY <3>1, Apart DEF Fits
  <2>. QED
    BY <1>3, <2>1, <2>2, Zenon
<1>. QED
  BY <1>3, <1>4, Zenon DEF q

\* or the primary superblock alone.
LEMMA PrimaryQueue ==
    ASSUME NEW s \in SuperT
    PROVE  LET q == <<<<Super(0), s>>>>
           IN  /\ q \in Seq(Cells \X Values)
               /\ \A j \in RangeOf(q) :
                     /\ Fits(j[1], j[2]) /\ j[1] # Bitmap /\ j[1] = Super(0) /\ j[2] = s
                     /\ \A k \in Copies : j[1] # Desc(k)
<1>. DEFINE q == <<<<Super(0), s>>>>
<1>1. Super(0) \in Cells /\ s \in Values
  BY Apart, Geometry DEF Values
<1>2. q \in Seq(Cells \X Values) /\ RangeOf(q) = {<<Super(0), s>>}
  BY <1>1, SingleJob, Zenon
<1>. HIDE DEF q
<1>3. ASSUME NEW j \in RangeOf(q)
      PROVE  /\ Fits(j[1], j[2]) /\ j[1] # Bitmap /\ j[1] = Super(0) /\ j[2] = s
             /\ \A k \in Copies : j[1] # Desc(k)
  <2>1. j[1] = Super(0) /\ j[2] = s
    BY <1>2
  <2>. QED
    BY <2>1, Apart, Geometry, Zenon DEF Fits
<1>. QED
  BY <1>2, <1>3, Zenon DEF q

\* Fixed blocks are inside every size.
LEMMA FixedBelow ==
    ASSUME NEW end \in Target..GroupEnd
    PROVE  Fixed \subseteq 0..(end - 1)
<1>1. \A x \in 0..(Target - 1) : x \in 0..(end - 1)
  BY Geometry
<1>. QED
  BY <1>1, Geometry, Zenon

\* The primary superblock on both devices is no larger than the group, and the
\* cached one is not below the durable one, or is dirty and the target.
LEMMA Sizes ==
    ASSUME ResizeInv
    PROVE  /\ SB(cache) \in SuperT /\ SB(disk) \in SuperT
           /\ End(cache) \in Target..GroupEnd /\ End(disk) \in Target..GroupEnd
           /\ cache[Bitmap] \in SUBSET Bits /\ cache[Desc(0)] \in DescT
           /\ cache[Desc(0)].free \in 0..GroupEnd
           /\ End(cache) >= End(disk) \/ (End(cache) = Target /\ ~SB(cache).clean)
           /\ owned \cup pending \subseteq 0..(End(cache) - 1)
           /\ cache[Bitmap] \in Bitmaps
<1>1. Types /\ Smaller /\ Files
  BY Zenon DEF ResizeInv
<1>2. /\ SB(cache) \in SuperT /\ cache[Desc(0)] \in DescT /\ cache[Bitmap] \in SUBSET Bits
      /\ End(cache) \in Target..GroupEnd
  BY <1>1, Typed, Zenon DEF Types
<1>3. SB(disk) \in SuperT /\ End(disk) \in Target..GroupEnd
  BY <1>1, Typed, Zenon DEF Types
<1>4. cache[Desc(0)].free \in 0..GroupEnd
  BY <1>2 DEF DescT
<1>5. End(cache) >= End(disk) \/ (End(cache) = Target /\ ~SB(cache).clean)
  BY <1>1, Zenon DEF Smaller, End
<1>6. owned \cup pending \subseteq 0..(End(cache) - 1)
  BY <1>1, Zenon DEF Files, End
<1>7. cache[Bitmap] \in Bitmaps
  BY Zenon DEF Bitmaps
<1>. QED
  BY <1>2, <1>3, <1>4, <1>5, <1>6, <1>7, Zenon
-----------------------------------------------------------------------------
\* The shrink.
LEMMA FinalizeBegins ==
    ASSUME ResizeInv, Spared, finalize_metadata_only_shrink
    PROVE  ResizeInv'
<1>. DEFINE m == [SB(cache) EXCEPT !.clean = FALSE]
            q == SuperCopies(m)
<1>1. /\ pc = "idle" /\ "shrink" \in world /\ sbraw' = SB(cache) /\ goal' = Target
      /\ WriteThen(q, "log_dirty")
      /\ UNCHANGED <<cache, disk, phase, owned, pending, mounts, world>>
      /\ Target < End(cache) /\ cache[Bitmap] \cap (Target..(End(cache) - 1)) = {}
  BY DEF finalize_metadata_only_shrink, device, files, FinalizeAccepts, metadata_only_finalize_possible
<1>2. Types /\ Files /\ Guarded
  BY DEF ResizeInv
<1>3. /\ SB(cache) \in SuperT /\ End(cache) \in Target..GroupEnd /\ End(disk) \in Target..GroupEnd
      /\ End(cache) >= End(disk) /\ owned \cup pending \subseteq 0..(End(cache) - 1)
      /\ cache[Bitmap] \in Bitmaps
  BY <1>1, Sizes, Geometry
<1>4. m \in SuperT /\ ~m.clean /\ Alike(m, SB(cache)) /\ m.blocks = End(cache)
  BY <1>3, SuperFields, Zenon DEF Alike, End
<1>. HIDE DEF m
<1>5. /\ q \in Seq(Cells \X Values)
      /\ \A j \in RangeOf(q) : /\ Fits(j[1], j[2]) /\ j[1] # Bitmap /\ j[2] = m
                               /\ \A k \in Copies : j[1] # Desc(k)
      /\ \A k \in Copies : <<Super(k), m>> \in RangeOf(q)
  BY <1>4, SuperQueue, Zenon
<1>. HIDE DEF q
<1>6. /\ Types' /\ Files' /\ Smaller' /\ Flushed'
      /\ Jobs = {} /\ Jobs' = RangeOf(q) /\ pc' = "write" /\ cont' = "log_dirty" /\ Place' = "log_dirty"
  <2>1. goal' \in 0..GroupEnd
    BY <1>1, Geometry
  <2>2. "log_dirty" \in Shrinking /\ "log_dirty" \notin Committing
    BY Zenon DEF Shrinking, Committing
  <2>3. \A j \in RangeOf(q) : j[1] = Super(0) =>
               /\ owned \cup pending \subseteq 0..(j[2].blocks - 1)
               /\ j[2].blocks >= End(disk) \/ (j[2].blocks = Target /\ ~j[2].clean)
    BY <1>3, <1>4, <1>5, Zenon
  <2>. QED
    BY <1>1, <1>5, <2>1, <2>2, <2>3, Begin, Zenon
<1>7. Guarded' /\ OneSize'
  <2>1. 0 \in Copies
    BY Geometry, Zenon
  <2>. QED
    BY <1>1, <1>4, <1>5, <1>6, <2>1, BeginAlike, Zenon
<1>8. owned \cup pending \subseteq 0..(Target - 1)
  <2>1. pending = {}
    BY <1>1, <1>2, Zenon DEF Files, Spared
  <2>2. owned \subseteq cache[Bitmap]
    BY <1>2, <1>3 DEF Files
  <2>. QED
    BY <1>1, <1>3, <2>1, <2>2, Geometry
<1>9. Marked' = m
  BY <1>1, Zenon DEF Marked, m
<1>10. (\A k \in Copies : Becomes(Super(k), Marked))'
  BY <1>5, <1>6, <1>9, Zenon DEF Becomes
<1>11. Stages'
  BY Zenon, <1>1, <1>3, <1>6, <1>8, <1>10
  DEF Stages, Shrinking, Growing, Committing, Starting, Dirty, End
<1>. QED
  BY <1>6, <1>7, <1>11 DEF ResizeInv

\* Only the journal is written.
LEMMA CheckpointKeeps ==
    ASSUME ResizeInv, FinalizeLogDirty \/ CommitBegin
    PROVE  ResizeInv'
<1>1. /\ UNCHANGED <<cache, disk, todo, cont, sbraw, goal, owned, pending, mounts, world>>
      /\ phase' = "metadata_finalize"
      /\ \/ pc = "log_dirty" /\ pc' = "shrink_bitmap"
         \/ pc = "commit_begin" /\ pc' = "commit_verify"
  BY DEF FinalizeLogDirty, CommitBegin, Checkpoint, device, locals, files
<1>2. Types /\ Files /\ Guarded /\ OneSize /\ Smaller /\ Flushed /\ Stages
  BY Zenon DEF ResizeInv
<1>3. Jobs' = Jobs
  BY <1>1 DEF Jobs
<1>4. Place = pc /\ Place' = pc'
  BY <1>1, Zenon DEF Place
<1>5. Types'
  BY <1>1, <1>2, <1>3, <1>4, Zenon DEF Types, Shrinking, Committing, Growing
<1>6. NextSupers' = NextSupers /\ Bitmaps' = Bitmaps /\ Supers' = Supers /\ Primaries' = Primaries
  BY <1>1, <1>3, Zenon DEF NextSupers, Bitmaps, Supers, Primaries, SB
<1>7. Files' /\ OneSize' /\ Smaller'
  BY <1>1, <1>2, <1>6, Zenon DEF Files, OneSize, Smaller, SB, End
<1>8. Guarded'
  <2>1. MayBeClean' = MayBeClean /\ Exact(cache)' = Exact(cache)
    BY <1>1, <1>6, Zenon DEF MayBeClean, Exact, Inside
  <2>. QED
    BY <1>1, <1>2, <1>3, <2>1, Zenon DEF Guarded, SB
<1>9. Flushed'
  BY <1>1, <1>2, Zenon DEF Flushed
<1>10. NoneClean' = NoneClean
  BY <1>6 DEF NoneClean
<1>11. Stages'
  BY Zenon, <1>1, <1>2, <1>3, <1>4, <1>10
  DEF Stages, Shrinking, Growing, Committing, Starting, Dirty, SB, End
<1>. QED
  BY <1>5, <1>7, <1>8, <1>9, <1>11, Zenon DEF ResizeInv

\* The shrink marks the tail in the bitmap.
LEMMA FinalizeMarksTail ==
    ASSUME ResizeInv, FinalizeBitmap
    PROVE  ResizeInv'
<1>. DEFINE bits == cache[Bitmap] \cup Surplus
            d == DescOf(bits, cache[Desc(0)].free - Removed)
            q == <<<<Bitmap, bits>>>> \o DescCopies(d)
<1>1. /\ pc = "shrink_bitmap" /\ WriteThen(q, "shrink_size")
      /\ Removed <= cache[Desc(0)].free
      /\ UNCHANGED <<cache, disk, phase, sbraw, goal, owned, pending, mounts, world>>
  BY DEF FinalizeBitmap, device, files, locals
<1>2. Types /\ Files /\ Stages
  BY Zenon DEF ResizeInv
<1>3. /\ End(cache) \in Target..GroupEnd /\ cache[Bitmap] \in SUBSET Bits
      /\ cache[Desc(0)].free \in 0..GroupEnd /\ cache[Bitmap] \in Bitmaps
  BY Sizes, Zenon
<1>4. Place = "shrink_bitmap"
  BY <1>1, Zenon DEF Place
<1>5. /\ sbraw \in SuperT /\ goal = Target /\ Target < sbraw.blocks
      /\ owned \cup pending \subseteq 0..(Target - 1) /\ NoneClean
      /\ "shrink" \in world
  BY <1>1, <1>2, <1>4, Zenon DEF Stages, Shrinking, Dirty, Types
<1>6. sbraw.blocks \in Target..GroupEnd
  BY <1>5, SuperFields, Zenon
<1>7. bits \in SUBSET Bits
  BY <1>3, <1>5, <1>6, Geometry DEF Surplus, Bits
<1>8. /\ owned \cup Fixed \subseteq bits
      /\ bits \cap (0..(Target - 1)) \subseteq owned \cup Fixed
  <2>1. /\ owned \cup Fixed \subseteq cache[Bitmap]
        /\ cache[Bitmap] \cap (0..(Target - 1)) \subseteq owned \cup Fixed
    BY <1>2, <1>3, Zenon DEF Files
  <2>2. Surplus \cap (0..(Target - 1)) = {}
    BY <1>5, <1>6, Geometry DEF Surplus
  <2>. QED
    BY <2>1, <2>2, Zenon
<1>. HIDE DEF bits
<1>9. d \in DescT
  BY <1>1, <1>3, <1>5, <1>6, <1>7, Geometry DEF DescT, DescOf, Removed
<1>. HIDE DEF d
<1>10. /\ q \in Seq(Cells \X Values)
       /\ \A j \in RangeOf(q) : /\ Fits(j[1], j[2]) /\ (j[1] = Bitmap => j[2] = bits)
                                /\ \A k \in Copies : j[1] # Super(k)
  BY <1>7, <1>9, BitmapQueue, Zenon
<1>. HIDE DEF q
<1>11. /\ Types' /\ Files' /\ Smaller' /\ Flushed'
       /\ Jobs = {} /\ Jobs' = RangeOf(q) /\ pc' = "write" /\ cont' = "shrink_size"
       /\ Place' = "shrink_size"
  <2>1. goal' \in 0..GroupEnd
    BY <1>1, <1>2, Zenon DEF Types
  <2>2. "shrink_size" \in Shrinking /\ "shrink_size" \notin Committing /\ 0 \in Copies
    BY Geometry, Zenon DEF Shrinking, Committing
  <2>. QED
    BY <1>1, <1>5, <1>8, <1>10, <2>1, <2>2, Begin, Zenon
<1>12. Guarded' /\ OneSize' /\ NoneClean'
  BY <1>1, <1>5, <1>10, <1>11, BeginDirty, Zenon
<1>13. Stages'
  BY Zenon, <1>1, <1>5, <1>11, <1>12
  DEF Stages, Shrinking, Growing, Committing, Starting, Dirty
<1>. QED
  BY <1>11, <1>12, <1>13, Zenon DEF ResizeInv

\* The superblock with the new size.
LEMMA ShrunkFields ==
    ASSUME sbraw \in SuperT, goal = Target, Target < sbraw.blocks, Removed <= sbraw.free,
           NEW clean \in BOOLEAN
    PROVE  /\ Shrunk(clean) \in SuperT /\ Shrunk(clean).clean = clean /\ Shrunk(clean).blocks = Target
           /\ Alike(Shrunk(clean), Shrunk(FALSE))
<1>1. sbraw.blocks \in Target..GroupEnd /\ sbraw.free \in 0..GroupEnd
  BY SuperFields, Zenon
<1>2. sbraw.free - Removed \in 0..GroupEnd
  BY <1>1, Geometry DEF Removed
<1>3. Target \in Target..GroupEnd
  BY Geometry
<1>4. /\ Shrunk(clean).clean = clean /\ Shrunk(clean).blocks = Target
      /\ Alike(Shrunk(clean), Shrunk(FALSE))
  BY Zenon DEF Shrunk, SuperT, Alike
<1>. QED
  BY <1>2, <1>3, <1>4, Zenon DEF Shrunk, SuperT

\* The shrink writes the size.
LEMMA FinalizeShrinks ==
    ASSUME ResizeInv, FinalizeSize
    PROVE  ResizeInv'
<1>. DEFINE m == Shrunk(FALSE)
            q == SuperCopies(m)
<1>1. /\ pc = "shrink_size" /\ WriteThen(q, "shrink_verify") /\ Removed <= sbraw.free
      /\ UNCHANGED <<cache, disk, phase, sbraw, goal, owned, pending, mounts, world>>
  BY Zenon DEF FinalizeSize, device, files, locals
<1>2. Types /\ Files /\ Stages
  BY DEF ResizeInv
<1>3. Place = "shrink_size"
  BY <1>1, Zenon DEF Place
<1>4. /\ sbraw \in SuperT /\ goal = Target /\ Target < sbraw.blocks
      /\ owned \cup pending \subseteq 0..(Target - 1) /\ NoneClean
      /\ "shrink" \in world
  BY <1>1, <1>2, <1>3, Zenon DEF Stages, Shrinking, Dirty, Types
<1>5. m \in SuperT /\ ~m.clean /\ m.blocks = Target
  BY <1>1, <1>4, ShrunkFields, Zenon
<1>6. Shrunk(FALSE)' = m
  BY <1>1, Zenon DEF Shrunk, Removed
<1>. HIDE DEF m
<1>7. /\ q \in Seq(Cells \X Values)
      /\ \A j \in RangeOf(q) : /\ Fits(j[1], j[2]) /\ j[1] # Bitmap /\ j[2] = m
                               /\ \A k \in Copies : j[1] # Desc(k)
      /\ \A k \in Copies : <<Super(k), m>> \in RangeOf(q)
  BY <1>5, SuperQueue, Zenon
<1>. HIDE DEF q
<1>8. /\ Types' /\ Files' /\ Smaller' /\ Flushed'
      /\ Jobs = {} /\ Jobs' = RangeOf(q) /\ pc' = "write" /\ cont' = "shrink_verify"
      /\ Place' = "shrink_verify"
  <2>1. goal' \in 0..GroupEnd
    BY <1>1, <1>2, Zenon DEF Types
  <2>2. "shrink_verify" \in Shrinking /\ "shrink_verify" \notin Committing
    BY Zenon DEF Shrinking, Committing
  <2>3. \A j \in RangeOf(q) : j[1] = Super(0) =>
               /\ owned \cup pending \subseteq 0..(j[2].blocks - 1)
               /\ j[2].blocks >= End(disk) \/ (j[2].blocks = Target /\ ~j[2].clean)
    BY <1>4, <1>5, <1>7, Zenon
  <2>. QED
    BY <1>1, <1>4, <1>7, <2>1, <2>2, <2>3, Begin, Zenon
<1>9. Guarded' /\ OneSize' /\ NoneClean'
  BY <1>1, <1>4, <1>5, <1>7, <1>8, BeginDirty, Zenon
<1>10. Becomes(Super(0), Shrunk(FALSE))'
  BY <1>6, <1>7, <1>8, Geometry, Zenon DEF Becomes
<1>11. Stages'
  BY Zenon, <1>1, <1>4, <1>8, <1>9, <1>10
  DEF Stages, Shrinking, Growing, Committing, Starting, Dirty
<1>. QED
  BY <1>8, <1>9, <1>11, Zenon DEF ResizeInv

\* The shrink verifies and marks clean.
LEMMA FinalizeCleans ==
    ASSUME ResizeInv, FinalizeClean
    PROVE  ResizeInv'
<1>. DEFINE m == Shrunk(TRUE)
            q == SuperCopies(m)
<1>1. /\ pc = "shrink_verify" /\ WriteThen(q, "log_shrunk") /\ verify_metadata(cache)
      /\ UNCHANGED <<cache, disk, phase, sbraw, goal, owned, pending, mounts, world>>
  BY Zenon DEF FinalizeClean, device, files, locals
<1>2. Types /\ Files /\ Stages /\ Flushed
  BY Zenon DEF ResizeInv
<1>3. Place = "shrink_verify" /\ Jobs = {}
  BY <1>1, <1>2, NoJobs, Zenon DEF Place, Types
<1>4. /\ sbraw \in SuperT /\ goal = Target /\ Target < sbraw.blocks
      /\ owned \cup pending \subseteq 0..(Target - 1)
      /\ "shrink" \in world /\ SB(cache) = Shrunk(FALSE)
  BY <1>2, <1>3, Zenon DEF Stages, Shrinking, Types, Becomes, SB
<1>5. cache = disk
  BY <1>1, <1>2, Zenon DEF Flushed
<1>6. SB(cache) \in SuperT /\ cache[Bitmap] \in Bitmaps
  BY Sizes
<1>7. Shrunk(FALSE).free = sbraw.free - Removed
  BY <1>4, Zenon DEF Shrunk, SuperT
<1>8. Removed <= sbraw.free
  <2>1. sbraw.free \in 0..GroupEnd /\ sbraw.blocks \in Target..GroupEnd /\ SB(cache).free \in 0..GroupEnd
    BY <1>4, <1>6, SuperFields, Zenon
  <2>2. SB(cache).free = sbraw.free - Removed
    BY <1>4, <1>7, Zenon
  <2>3. Removed \in Int
    BY <1>4, <2>1, Geometry DEF Removed
  <2>. QED
    BY <2>1, <2>2, <2>3, Geometry
<1>9. m \in SuperT /\ Alike(m, SB(cache)) /\ m.blocks = Target
  BY <1>4, <1>8, ShrunkFields, Zenon
<1>. HIDE DEF m
<1>10. End(cache) = Target /\ m.blocks = End(cache)
  BY <1>9, Zenon DEF Alike, End
<1>11. Exact(cache)
  <2>1. /\ owned \cup Fixed \subseteq cache[Bitmap]
        /\ cache[Bitmap] \cap (0..(Target - 1)) \subseteq owned \cup Fixed
    BY <1>2, <1>6 DEF Files
  <2>2. owned \cup Fixed \subseteq 0..(Target - 1)
    BY <1>4, Geometry, Zenon
  <2>. QED
    BY <1>1, <1>10, <2>1, <2>2, Zenon DEF Exact, Inside
<1>12. /\ q \in Seq(Cells \X Values)
       /\ \A j \in RangeOf(q) : /\ Fits(j[1], j[2]) /\ j[1] # Bitmap /\ j[2] = m
                                /\ \A k \in Copies : j[1] # Desc(k)
  BY <1>9, SuperQueue, Zenon
<1>. HIDE DEF q
<1>13. /\ Types' /\ Files' /\ Smaller' /\ Flushed'
       /\ Jobs = {} /\ Jobs' = RangeOf(q) /\ pc' = "write" /\ cont' = "log_shrunk"
       /\ Place' = "log_shrunk"
  <2>1. goal' \in 0..GroupEnd
    BY <1>1, <1>2, Zenon DEF Types
  <2>2. "log_shrunk" \in Shrinking /\ "log_shrunk" \notin Committing
    BY Zenon DEF Shrinking, Committing
  <2>3. m.blocks >= End(disk)
    BY <1>5, <1>9, <1>10, Geometry
  <2>4. \A j \in RangeOf(q) : j[1] = Super(0) =>
               /\ owned \cup pending \subseteq 0..(j[2].blocks - 1)
               /\ j[2].blocks >= End(disk) \/ (j[2].blocks = Target /\ ~j[2].clean)
    BY <1>4, <1>9, <1>12, <2>3, ZenonT(30)
  <2>. QED
    BY <1>1, <1>4, <1>12, <2>1, <2>2, <2>4, Begin, Zenon
<1>14. Guarded' /\ OneSize'
  <2>1. 0 \in Copies
    BY Geometry, Zenon
  <2>. QED
    BY <1>1, <1>5, <1>9, <1>10, <1>11, <1>12, <1>13, <2>1, BeginAlike, SMTT(30)
<1>15. Stages'
  BY Zenon, <1>1, <1>4, <1>13
  DEF Stages, Shrinking, Growing, Committing, Starting, Dirty
<1>. QED
  BY <1>13, <1>14, <1>15, Zenon DEF ResizeInv

\* A command that returns.
LEMMA CommandReturns ==
    ASSUME ResizeInv, \/ FinalizeDone \/ FinalizeRefused \/ CommitRefused \/ CommitDone \/ Interrupted
    PROVE  ResizeInv'
<1>1. Types /\ Flushed
  BY Zenon DEF ResizeInv
<1>2. /\ Finish /\ UNCHANGED <<cache, disk, owned, pending, mounts, world>>
      /\ phase' \in {phase, "filesystem_shrunk", "compacted"}
  BY Zenon DEF FinalizeDone, FinalizeRefused, CommitRefused, CommitDone, Interrupted, Checkpoint, device, files
<1>3. "interrupt" \in world
      \/ pc \in {"log_shrunk", "shrink_bitmap", "shrink_size", "shrink_verify", "commit_verify", "commit_done"}
  BY DEF FinalizeDone, FinalizeRefused, FinalizeFails, CommitRefused, CommitDone, Interrupted
<1>4. "interrupt" \in world \/ cache = disk
  BY <1>1, <1>3, Zenon DEF Flushed
<1>5. phase' \in {"staged", "metadata_finalize", "compacted", "filesystem_shrunk"}
  BY <1>1, <1>2 DEF Types
<1>. QED
  BY <1>2, <1>4, <1>5, FinishKeeps, Zenon

-----------------------------------------------------------------------------
\* The grow, once it has begun.
LEMMA GrowFreesTail ==
    ASSUME ResizeInv, GrowBitmap
    PROVE  ResizeInv'
<1>. DEFINE bits == cache[Bitmap] \ (sbraw.blocks..(goal - 1))
            d == DescOf(bits, cache[Desc(0)].free + Added)
            q == <<<<Bitmap, bits>>>> \o DescCopies(d)
<1>1. /\ pc = "grow_bitmap" /\ WriteThen(q, "grow_size")
      /\ UNCHANGED <<cache, disk, phase, sbraw, goal, owned, pending, mounts, world>>
  BY DEF GrowBitmap, device, files, locals
<1>2. Types /\ Files /\ Stages
  BY DEF ResizeInv
<1>3. /\ cache[Bitmap] \in SUBSET Bits
      /\ cache[Desc(0)].free \in 0..GroupEnd /\ cache[Bitmap] \in Bitmaps
  BY Sizes, Zenon
<1>4. Place = "grow_bitmap" /\ Jobs = {}
  BY <1>1, <1>2, NoJobs, Zenon DEF Place, Types
<1>5. /\ sbraw \in SuperT /\ sbraw.blocks < goal /\ sbraw.free <= sbraw.blocks
      /\ owned \cup pending \subseteq 0..(sbraw.blocks - 1) /\ NoneClean
      /\ Inside(cache[Bitmap], sbraw.blocks) /\ cache[Desc(0)].free <= sbraw.blocks
      /\ SB(cache).blocks = sbraw.blocks /\ goal \in 0..GroupEnd
  BY <1>1, <1>2, <1>4, Zenon DEF Stages, Growing, Dirty, Types
<1>6. sbraw.blocks \in Target..GroupEnd
  BY <1>5, SuperFields, Zenon
<1>7. bits \in SUBSET Bits
  BY <1>3, Zenon
<1>8. /\ owned \cup Fixed \subseteq bits
      /\ bits \cap (0..(Target - 1)) \subseteq owned \cup Fixed
      /\ Inside(bits, goal)
  <2>1. /\ owned \cup Fixed \subseteq cache[Bitmap]
        /\ cache[Bitmap] \cap (0..(Target - 1)) \subseteq owned \cup Fixed
    BY <1>2, <1>3, Zenon DEF Files
  <2>2. owned \cup Fixed \subseteq 0..(sbraw.blocks - 1)
    BY <1>5, <1>6, FixedBelow, ZenonT(30)
  <2>3. (0..(sbraw.blocks - 1)) \cap (sbraw.blocks..(goal - 1)) = {}
    BY <1>5, <1>6, Geometry
  <2>4. owned \cup Fixed \subseteq bits
    BY <2>1, <2>2, <2>3, Zenon
  <2>5. bits \cap (0..(goal - 1)) \subseteq cache[Bitmap] \cap (0..(sbraw.blocks - 1))
    <3>1. ASSUME NEW x \in 0..(goal - 1), x \notin sbraw.blocks..(goal - 1)
          PROVE  x \in 0..(sbraw.blocks - 1)
      BY <1>5, <1>6, <3>1, Geometry
    <3>. QED
      BY <3>1, Zenon
  <2>6. owned \cup Fixed \subseteq 0..(goal - 1)
    BY <1>5, <1>6, <2>2, Geometry
  <2>7. Inside(bits, goal)
    <3>1. cache[Bitmap] \cap (0..(sbraw.blocks - 1)) = owned \cup Fixed
      BY <1>5, Zenon DEF Inside
    <3>2. bits \cap (0..(goal - 1)) \subseteq owned \cup Fixed
      BY <2>5, <3>1, Zenon
    <3>3. bits \cap (0..(goal - 1)) = owned \cup Fixed
      <4>. HIDE DEF bits
      <4>. QED
        BY <2>4, <2>6, <3>2, ZenonT(30)
    <3>. QED
      BY <3>3, Zenon DEF Inside
  <2>. QED
    BY <2>1, <2>4, <2>7, Zenon
<1>. HIDE DEF bits
<1>9. d \in DescT
  BY <1>3, <1>5, <1>6, <1>7, Geometry DEF DescT, DescOf, Added
<1>. HIDE DEF d
<1>10. /\ q \in Seq(Cells \X Values)
       /\ \A j \in RangeOf(q) : /\ Fits(j[1], j[2]) /\ (j[1] = Bitmap => j[2] = bits)
                                /\ \A k \in Copies : j[1] # Super(k)
       /\ <<Bitmap, bits>> \in RangeOf(q)
  BY <1>7, <1>9, BitmapQueue, Zenon
<1>. HIDE DEF q
<1>11. /\ Types' /\ Files' /\ Smaller' /\ Flushed'
       /\ Jobs = {} /\ Jobs' = RangeOf(q) /\ pc' = "write" /\ cont' = "grow_size"
       /\ Place' = "grow_size"
  <2>1. goal' \in 0..GroupEnd
    BY <1>1, <1>2, Zenon DEF Types
  <2>2. "grow_size" \in Growing /\ "grow_size" \notin Committing /\ "grow_size" \notin Shrinking
        /\ 0 \in Copies
    BY Geometry, Zenon DEF Shrinking, Committing, Growing
  <2>. QED
    BY <1>1, <1>8, <1>10, <2>1, <2>2, Begin, Zenon
<1>12. Guarded' /\ OneSize' /\ NoneClean'
  BY <1>1, <1>5, <1>10, <1>11, BeginDirty, Zenon
<1>13. (\E b \in SUBSET Bits : Inside(b, goal) /\ Becomes(Bitmap, b))'
  <2>1. PICK b \in SUBSET Bits : b = bits
    BY <1>7, Zenon
  <2>2. Inside(b, goal)'
    BY <1>1, <1>8, <2>1, Zenon DEF Inside
  <2>3. Becomes(Bitmap, b)'
    BY <1>1, <1>10, <1>11, <2>1, Zenon DEF Becomes
  <2>4. (Inside(b, goal) /\ Becomes(Bitmap, b))'
    BY <2>2, <2>3, Zenon
  <2>5. Bits' = Bits
    BY ZenonT(30) DEF Bits
  <2>. QED
    BY <2>4, <2>5, Zenon
<1>14. (\A s \in {SB(cache)} \cup NextSupers : s.blocks = sbraw.blocks)'
  BY <1>1, <1>5, <1>10, <1>11, Geometry, ZenonT(30) DEF NextSupers, SB
<1>15. Stages'
  BY ZenonT(30), <1>1, <1>5, <1>11, <1>12, <1>13, <1>14
  DEF Stages, Shrinking, Growing, Committing, Starting, Dirty
<1>. QED
  BY <1>11, <1>12, <1>15, Zenon DEF ResizeInv

\* The superblock with the new size.
LEMMA GrownFields ==
    ASSUME sbraw \in SuperT, sbraw.blocks < goal, sbraw.free <= sbraw.blocks, goal \in 0..GroupEnd,
           NEW clean \in BOOLEAN
    PROVE  /\ Grown(clean) \in SuperT /\ Grown(clean).clean = clean /\ Grown(clean).blocks = goal
           /\ Alike(Grown(clean), Grown(FALSE))
<1>1. sbraw.blocks \in Target..GroupEnd /\ sbraw.free \in 0..GroupEnd
  BY SuperFields, Zenon
<1>2. sbraw.free + Added \in 0..GroupEnd
  BY <1>1, Geometry DEF Added
<1>3. goal \in Target..GroupEnd
  BY <1>1, Geometry
<1>4. /\ Grown(clean).clean = clean /\ Grown(clean).blocks = goal
      /\ Alike(Grown(clean), Grown(FALSE))
  BY DEF Grown, SuperT, Alike
<1>. QED
  BY <1>2, <1>3, <1>4, Zenon DEF Grown, SuperT

\* The grow writes the size.
LEMMA GrowGrows ==
    ASSUME ResizeInv, GrowSize
    PROVE  ResizeInv'
<1>. DEFINE m == Grown(FALSE)
            q == SuperCopies(m)
<1>1. /\ pc = "grow_size" /\ WriteThen(q, "grow_verify")
      /\ UNCHANGED <<cache, disk, phase, sbraw, goal, owned, pending, mounts, world>>
  BY Zenon DEF GrowSize, device, files, locals
<1>2. Types /\ Files /\ Stages /\ Flushed
  BY DEF ResizeInv
<1>3. Place = "grow_size" /\ cache = disk
  BY <1>1, <1>2, Zenon DEF Place, Flushed
<1>4. /\ sbraw \in SuperT /\ sbraw.blocks < goal /\ sbraw.free <= sbraw.blocks
      /\ owned \cup pending \subseteq 0..(sbraw.blocks - 1) /\ NoneClean
      /\ SB(cache).blocks = sbraw.blocks /\ goal \in 0..GroupEnd
      /\ Inside(cache[Bitmap], goal)
  BY <1>1, <1>2, <1>3, Zenon DEF Stages, Growing, Dirty, Types
<1>5. m \in SuperT /\ ~m.clean /\ m.blocks = goal
  BY <1>4, GrownFields, Zenon
<1>6. Grown(FALSE)' = m
  BY <1>1, Zenon DEF Grown, Added
<1>. HIDE DEF m
<1>7. /\ q \in Seq(Cells \X Values)
      /\ \A j \in RangeOf(q) : /\ Fits(j[1], j[2]) /\ j[1] # Bitmap /\ j[2] = m
                               /\ \A k \in Copies : j[1] # Desc(k)
      /\ \A k \in Copies : <<Super(k), m>> \in RangeOf(q)
  BY <1>5, SuperQueue, Zenon
<1>. HIDE DEF q
<1>8. m.blocks >= End(disk) /\ owned \cup pending \subseteq 0..(m.blocks - 1)
  <2>1. sbraw.blocks \in Target..GroupEnd
    BY <1>4, SuperFields, Zenon
  <2>2. End(disk) = sbraw.blocks
    BY <1>3, <1>4, Zenon DEF End
  <2>. QED
    BY <1>4, <1>5, <2>1, <2>2, Geometry
<1>9. /\ Types' /\ Files' /\ Smaller' /\ Flushed'
      /\ Jobs = {} /\ Jobs' = RangeOf(q) /\ pc' = "write" /\ cont' = "grow_verify"
      /\ Place' = "grow_verify"
  <2>1. goal' \in 0..GroupEnd
    BY <1>1, <1>2, Zenon DEF Types
  <2>2. "grow_verify" \in Growing /\ "grow_verify" \notin Committing /\ "grow_verify" \notin Shrinking
    BY Zenon DEF Shrinking, Committing, Growing
  <2>3. \A j \in RangeOf(q) : j[1] = Super(0) =>
               /\ owned \cup pending \subseteq 0..(j[2].blocks - 1)
               /\ j[2].blocks >= End(disk) \/ (j[2].blocks = Target /\ ~j[2].clean)
    BY <1>8, <1>7, ZenonT(30)
  <2>. QED
    BY <1>1, <1>7, <2>1, <2>2, <2>3, Begin, Zenon
<1>10. Guarded' /\ OneSize' /\ NoneClean'
  BY <1>1, <1>4, <1>5, <1>7, <1>9, BeginDirty, Zenon
<1>11. Becomes(Super(0), Grown(FALSE))'
  BY <1>6, <1>7, <1>9, Geometry, Zenon DEF Becomes
<1>12. Inside(cache[Bitmap], goal)' /\ (\A j \in Jobs : j[1] # Bitmap)'
  BY <1>1, <1>4, <1>7, <1>9, Zenon DEF Inside
<1>13. Stages'
  BY Zenon, <1>1, <1>4, <1>9, <1>10, <1>11, <1>12
  DEF Stages, Shrinking, Growing, Committing, Starting, Dirty
<1>. QED
  BY <1>9, <1>10, <1>13, Zenon DEF ResizeInv

\* The grow verifies and marks clean.
LEMMA GrowCleans ==
    ASSUME ResizeInv, GrowClean
    PROVE  ResizeInv'
<1>. DEFINE m == Grown(TRUE)
            q == SuperCopies(m)
<1>1. /\ pc = "grow_verify"
      /\ UNCHANGED <<cache, disk, phase, owned, pending, mounts, world>>
      /\ \/ verify_metadata(cache) /\ WriteThen(q, "idle") /\ UNCHANGED <<sbraw, goal>>
         \/ Finish
  BY Zenon DEF GrowClean, device, files, locals
<1>2. Types /\ Files /\ Stages /\ Flushed
  BY DEF ResizeInv
<1>3. Place = "grow_verify" /\ Jobs = {} /\ cache = disk
  BY <1>1, <1>2, NoJobs, Zenon DEF Place, Types, Flushed
<1>4. CASE Finish
  BY <1>1, <1>2, <1>3, <1>4, FinishKeeps, Zenon DEF Types
<1>5. CASE verify_metadata(cache) /\ WriteThen(q, "idle") /\ UNCHANGED <<sbraw, goal>>
  <2>1. /\ sbraw \in SuperT /\ sbraw.blocks < goal /\ sbraw.free <= sbraw.blocks
        /\ goal \in 0..GroupEnd /\ Inside(cache[Bitmap], goal) /\ SB(cache) = Grown(FALSE)
    BY <1>2, <1>3, Zenon DEF Stages, Growing, Types, Becomes, SB
  <2>2. /\ End(cache) \in Target..GroupEnd /\ owned \cup pending \subseteq 0..(End(cache) - 1)
    BY Sizes
  <2>3. m \in SuperT /\ Alike(m, SB(cache)) /\ m.blocks = goal
    BY <2>1, GrownFields, Zenon
  <2>. HIDE DEF m
  <2>4. End(cache) = goal /\ m.blocks = End(cache)
    BY <2>3, Zenon DEF Alike, End
  <2>5. Exact(cache)
    BY <1>5, <2>1, <2>4, Zenon DEF Exact
  <2>6. /\ q \in Seq(Cells \X Values)
        /\ \A j \in RangeOf(q) : /\ Fits(j[1], j[2]) /\ j[1] # Bitmap /\ j[2] = m
                                 /\ \A k \in Copies : j[1] # Desc(k)
    BY <2>3, SuperQueue, Zenon
  <2>. HIDE DEF q
  <2>7. /\ Types' /\ Files' /\ Smaller' /\ Flushed'
        /\ Jobs = {} /\ Jobs' = RangeOf(q) /\ pc' = "write" /\ cont' = "idle" /\ Place' = "idle"
    <3>1. goal' \in 0..GroupEnd
      BY <1>5, <2>1, Zenon
    <3>2. "idle" \notin Shrinking /\ "idle" \notin Committing
      BY Zenon DEF Shrinking, Committing
    <3>3. m.blocks >= End(disk)
      BY <1>3, <2>2, <2>4, Geometry
    <3>4. \A j \in RangeOf(q) : j[1] = Super(0) =>
                 /\ owned \cup pending \subseteq 0..(j[2].blocks - 1)
                 /\ j[2].blocks >= End(disk) \/ (j[2].blocks = Target /\ ~j[2].clean)
      BY <2>2, <2>4, <2>6, <3>3, ZenonT(30)
    <3>. QED
      BY <1>1, <1>5, <2>6, <3>1, <3>2, <3>4, Begin, Zenon
  <2>8. Guarded' /\ OneSize'
    <3>1. 0 \in Copies
      BY Geometry, Zenon
    <3>. QED
      BY <1>1, <1>3, <2>3, <2>4, <2>5, <2>6, <2>7, <3>1, BeginAlike, Zenon
  <2>9. Stages'
    BY <2>7, Zenon DEF Stages, Shrinking, Growing, Committing, Starting, Dirty
  <2>. QED
    BY <2>7, <2>8, <2>9, Zenon DEF ResizeInv
<1>. QED
  BY <1>1, <1>4, <1>5, Zenon
-----------------------------------------------------------------------------
\* The commit.
LEMMA CommitBegins ==
    ASSUME ResizeInv, commit_staged_relocation
    PROVE  ResizeInv'
<1>. DEFINE m == [SB(cache) EXCEPT !.clean = FALSE]
            q == <<<<Super(0), m>>>>
<1>1. /\ pc = "idle" /\ "commit" \in world
      /\ UNCHANGED <<cache, disk, phase, sbraw, goal, owned, pending, mounts, world>>
      /\ Target < End(cache) /\ cache[Bitmap] \cap (Target..(End(cache) - 1)) = {}
      /\ \/ WriteThen(q, "commit_begin")
         \/ pc' = "commit_begin" /\ UNCHANGED <<todo, cont>>
  BY DEF commit_staged_relocation, CommitAccepts, device, files, locals
<1>2. Types /\ Files /\ Guarded /\ OneSize /\ Smaller /\ Flushed
  BY DEF ResizeInv
<1>3. /\ SB(cache) \in SuperT /\ End(cache) \in Target..GroupEnd /\ End(disk) \in Target..GroupEnd
      /\ End(cache) >= End(disk) /\ owned \cup pending \subseteq 0..(End(cache) - 1)
  BY <1>1, Sizes, Geometry
<1>4. m \in SuperT /\ ~m.clean /\ Alike(m, SB(cache)) /\ m.blocks = End(cache)
  BY <1>3, SuperFields, Zenon DEF Alike, End
<1>. HIDE DEF m
<1>5. /\ q \in Seq(Cells \X Values)
      /\ \A j \in RangeOf(q) :
            /\ Fits(j[1], j[2]) /\ j[1] # Bitmap /\ j[1] = Super(0) /\ j[2] = m
            /\ \A k \in Copies : j[1] # Desc(k)
  BY <1>4, PrimaryQueue, Zenon
<1>. HIDE DEF q
<1>6. CASE WriteThen(q, "commit_begin")
  <2>1. /\ Types' /\ Files' /\ Smaller' /\ Flushed'
        /\ Jobs = {} /\ Jobs' = RangeOf(q) /\ pc' = "write" /\ cont' = "commit_begin"
        /\ Place' = "commit_begin"
    <3>1. goal' \in 0..GroupEnd
      BY <1>1, <1>2, Zenon DEF Types
    <3>2. "commit_begin" \notin Shrinking /\ "commit_begin" \in Committing
      BY Zenon DEF Shrinking, Committing
    <3>3. \A j \in RangeOf(q) : j[1] = Super(0) =>
                 /\ owned \cup pending \subseteq 0..(j[2].blocks - 1)
                 /\ j[2].blocks >= End(disk) \/ (j[2].blocks = Target /\ ~j[2].clean)
      BY <1>3, <1>4, <1>5, ZenonT(30)
    <3>. QED
      BY <1>1, <1>5, <1>6, <3>1, <3>2, <3>3, Begin, Zenon
  <2>2. Guarded' /\ OneSize'
    <3>1. 0 \in Copies
      BY Geometry
    <3>. QED
      BY <1>1, <1>4, <1>5, <2>1, <3>1, BeginAlike, Zenon
  <2>3. (\A j \in Jobs : j[1] = Super(0) /\ Alike(j[2], SB(cache)))'
    BY <1>1, <1>4, <1>5, <2>1, Zenon DEF SB
  <2>4. Stages'
    BY <1>1, <2>1, <2>3, Zenon DEF Stages, Shrinking, Growing, Committing, Starting, Dirty, End, SB
  <2>. QED
    BY <2>1, <2>2, <2>4, ZenonT(30) DEF ResizeInv
<1>7. CASE pc' = "commit_begin" /\ UNCHANGED <<todo, cont>>
  <2>1. /\ Jobs' = Jobs /\ Jobs = {} /\ Place' = "commit_begin"
    BY <1>1, <1>2, <1>7, NoJobs, Zenon DEF Place, Types, Jobs
  <2>2. NextSupers' = NextSupers /\ Bitmaps' = Bitmaps /\ Supers' = Supers /\ Primaries' = Primaries
    BY <1>1, <2>1, ZenonT(30) DEF NextSupers, Bitmaps, Supers, Primaries, SB
  <2>3. Types'
    BY <1>1, <1>2, <1>7, <2>1, Zenon DEF Types, Shrinking, Committing
  <2>4. Files' /\ OneSize' /\ Smaller'
    BY <1>1, <1>2, <2>2, Zenon DEF Files, OneSize, Smaller, SB, End
  <2>5. Guarded'
    <3>1. MayBeClean' = MayBeClean /\ Exact(cache)' = Exact(cache)
      BY <1>1, <2>2, Zenon DEF MayBeClean, Exact, Inside
    <3>. QED
      BY <1>1, <1>2, <2>1, <3>1, Zenon DEF Guarded, SB
  <2>6. Flushed'
    BY <1>1, <1>2, <1>7, Zenon DEF Flushed
  <2>7. Stages'
    BY <1>1, <1>7, <2>1, Zenon DEF Stages, Shrinking, Growing, Committing, Starting, Dirty, End, SB
  <2>. QED
    BY <2>3, <2>4, <2>5, <2>6, <2>7, Zenon DEF ResizeInv
<1>. QED
  BY <1>1, <1>6, <1>7, Zenon

\* The commit verifies and marks clean.
LEMMA CommitCleans ==
    ASSUME ResizeInv, Spared, CommitClean
    PROVE  ResizeInv'
<1>. DEFINE m == [SB(cache) EXCEPT !.clean = TRUE]
            q == <<<<Super(0), m>>>>
<1>1. /\ pc = "commit_verify" /\ verify_metadata(cache)
      /\ UNCHANGED <<cache, disk, phase, sbraw, goal, owned, pending, mounts, world>>
      /\ WriteThen(q, "commit_done")
  BY DEF CommitClean, device, files, locals
<1>2. Types /\ Files /\ Flushed /\ Stages
  BY DEF ResizeInv
<1>3. Place = "commit_verify"
  BY <1>1, Zenon DEF Place
<1>4. /\ Target < End(cache) /\ cache[Bitmap] \cap (Target..(End(cache) - 1)) = {}
      /\ "commit" \in world
  BY <1>2, <1>3, Zenon DEF Stages, Committing, Types
<1>5. /\ SB(cache) \in SuperT /\ End(cache) \in Target..GroupEnd /\ End(disk) \in Target..GroupEnd
      /\ End(cache) >= End(disk) /\ owned \cup pending \subseteq 0..(End(cache) - 1)
      /\ cache[Bitmap] \in Bitmaps
  BY <1>4, Sizes, Geometry
<1>6. m \in SuperT /\ Alike(m, SB(cache)) /\ m.blocks = End(cache)
  BY <1>5, SuperFields, Zenon DEF Alike, End
<1>. HIDE DEF m
<1>7. /\ q \in Seq(Cells \X Values)
      /\ \A j \in RangeOf(q) :
            /\ Fits(j[1], j[2]) /\ j[1] # Bitmap /\ j[1] = Super(0) /\ j[2] = m
            /\ \A k \in Copies : j[1] # Desc(k)
  BY <1>6, PrimaryQueue, Zenon
<1>. HIDE DEF q
<1>8. Exact(cache)
  <2>1. /\ owned \cup Fixed \subseteq cache[Bitmap]
        /\ cache[Bitmap] \cap (0..(Target - 1)) \subseteq owned \cup Fixed
    BY <1>2, <1>5, Zenon DEF Files
  <2>2. \A x \in 0..(End(cache) - 1) : x \in 0..(Target - 1) \/ x \in Target..(End(cache) - 1)
    BY <1>5, Geometry
  <2>3. owned \cup Fixed \subseteq 0..(End(cache) - 1)
    BY <1>5, FixedBelow, Zenon
  <2>4. cache[Bitmap] \cap (0..(End(cache) - 1)) = owned \cup Fixed
    BY <1>4, <2>1, <2>2, <2>3, Zenon
  <2>. QED
    BY <1>1, <2>4, Zenon DEF Exact, Inside
<1>9. "power" \in world => cache = disk
  BY <1>1, <1>2, <1>4, ZenonT(30) DEF Flushed, Spared
<1>10. /\ Types' /\ Files' /\ Smaller' /\ Flushed'
       /\ Jobs = {} /\ Jobs' = RangeOf(q) /\ pc' = "write" /\ cont' = "commit_done"
       /\ Place' = "commit_done"
  <2>1. goal' \in 0..GroupEnd
    BY <1>1, <1>2, Zenon DEF Types
  <2>2. "commit_done" \notin Shrinking /\ "commit_done" \in Committing
    BY Zenon DEF Shrinking, Committing
  <2>3. \A j \in RangeOf(q) : j[1] = Super(0) =>
               /\ owned \cup pending \subseteq 0..(j[2].blocks - 1)
               /\ j[2].blocks >= End(disk) \/ (j[2].blocks = Target /\ ~j[2].clean)
    BY <1>5, <1>6, <1>7, ZenonT(30)
  <2>. QED
    BY <1>1, <1>4, <1>7, <2>1, <2>2, <2>3, Begin, Zenon
<1>11. Guarded' /\ OneSize'
  <2>1. 0 \in Copies
    BY Geometry, Zenon
  <2>. QED
    BY <1>1, <1>6, <1>7, <1>8, <1>9, <1>10, <2>1, BeginAlike, ZenonT(30)
<1>12. (\A j \in Jobs : j[1] = Super(0) /\ Alike(j[2], SB(cache)))'
  BY <1>1, <1>6, <1>7, <1>10, ZenonT(30) DEF SB
<1>13. Stages'
  BY ZenonT(30), <1>1, <1>4, <1>10, <1>12
  DEF Stages, Shrinking, Growing, Committing, Starting, Dirty, End, SB
<1>. QED
  BY <1>10, <1>11, <1>13, Zenon DEF ResizeInv

\* The label.
LEMMA LabelKeeps ==
    ASSUME ResizeInv, set_volume_label
    PROVE  ResizeInv'
<1>. DEFINE q == SuperCopies(SB(cache))
<1>1. /\ pc = "idle" /\ WriteThen(q, "idle")
      /\ UNCHANGED <<cache, disk, phase, sbraw, goal, owned, pending, mounts, world>>
  BY DEF set_volume_label, device, files, locals
<1>2. Types
  BY Zenon DEF ResizeInv
<1>3. /\ SB(cache) \in SuperT /\ SB(cache).blocks = End(cache)
      /\ End(cache) >= End(disk) \/ (End(cache) = Target /\ ~SB(cache).clean)
      /\ owned \cup pending \subseteq 0..(End(cache) - 1)
  BY Sizes, Zenon DEF End
<1>4. /\ q \in Seq(Cells \X Values)
      /\ \A j \in RangeOf(q) : /\ Fits(j[1], j[2]) /\ j[1] # Bitmap /\ j[2] = SB(cache)
                               /\ \A k \in Copies : j[1] # Desc(k)
  BY <1>3, SuperQueue, ZenonT(30)
<1>. HIDE DEF q
<1>5. 0 \in Copies
  BY Geometry
<1>6. /\ Types' /\ Files' /\ Smaller' /\ Flushed'
      /\ Jobs = {} /\ Jobs' = RangeOf(q) /\ pc' = "write" /\ cont' = "idle" /\ Place' = "idle"
  <2>1. goal' \in 0..GroupEnd
    BY <1>1, <1>2, Zenon DEF Types
  <2>2. "idle" \notin Shrinking /\ "idle" \notin Committing
    BY DEF Shrinking, Committing
  <2>3. \A j \in RangeOf(q) : j[1] = Super(0) =>
               /\ owned \cup pending \subseteq 0..(j[2].blocks - 1)
               /\ j[2].blocks >= End(disk) \/ (j[2].blocks = Target /\ ~j[2].clean)
    BY <1>3, <1>4, Zenon
  <2>. QED
    BY <1>1, <1>4, <2>1, <2>2, <2>3, Begin, Zenon
<1>7. Alike(SB(cache), SB(cache))
  BY ZenonT(30) DEF Alike
<1>8. Guarded' /\ OneSize'
  BY <1>1, <1>3, <1>4, <1>5, <1>6, <1>7, BeginAlike, ZenonT(30)
<1>9. Stages'
  BY <1>6 DEF Stages, Shrinking, Growing, Committing, Starting, Dirty
<1>. QED
  BY <1>6, <1>8, <1>9, Zenon DEF ResizeInv
=============================================================================
