---------------------------- MODULE ResizeProofs ----------------------------
(***************************************************************************)
(* What Resize keeps true, for every geometry, number of backups and       *)
(* number of mounts.  ResizeCommandProofs has the invariant; here are the  *)
(* steps that count free blocks, the filesystem in use, and the theorems.  *)
(***************************************************************************)
EXTENDS ResizeCommandProofs, FiniteSetTheorems


\* There are at most as many free blocks as there are blocks.
LEMMA FreeBound ==
    ASSUME NEW b, NEW end \in Nat
    PROVE  FreeIn(b, end) \in 0..end
<1>1. IsFiniteSet(0..(end - 1)) /\ Cardinality(0..(end - 1)) = end
  BY FS_Interval
<1>2. (0..(end - 1)) \ b \subseteq 0..(end - 1)
  OBVIOUS
<1>3. /\ Cardinality((0..(end - 1)) \ b) \in Nat
      /\ Cardinality((0..(end - 1)) \ b) <= end
  BY <1>1, <1>2, FS_Subset, FS_CardinalityType
<1>. QED
  BY <1>3 DEF FreeIn

\* The image of a consistent filesystem.
LEMMA ImageFacts ==
    ASSUME NEW content \in SUBSET Bits, NEW end \in Target..GroupEnd,
           content \cup Fixed \subseteq 0..(end - 1)
    PROVE  LET c == Image(content, end)
           IN  /\ c \in [Cells -> Values] /\ \A x \in Cells : Fits(x, c[x])
               /\ verify_metadata(c) /\ End(c) = end
               /\ c[Bitmap] = content \cup Fixed \cup Padding(end)
               /\ c[Bitmap] \cap (0..(end - 1)) = content \cup Fixed
               /\ \A k \in Copies : c[Super(k)].blocks = end /\ c[Super(k)].clean
<1>. DEFINE c == Image(content, end)
            bits == content \cup Fixed \cup Padding(end)
            free == FreeIn(bits, end)
            s == [blocks |-> end, free |-> free, clean |-> TRUE, recover |-> FALSE]
            d == DescOf(bits, free)
<1>1. Target \in Nat /\ GroupEnd \in Nat /\ end \in Nat /\ end <= GroupEnd
  BY Geometry
<1>2. free \in 0..end
  BY <1>1, FreeBound, Zenon
<1>3. bits \in SUBSET Bits
  BY <1>1, Geometry DEF Padding, Bits
<1>4. bits \cap (0..(end - 1)) = content \cup Fixed
  BY <1>1 DEF Padding
<1>. HIDE DEF free, bits
<1>5. s \in SuperT /\ d \in DescT /\ d.free = free /\ d.crc = bits
  BY <1>1, <1>2, <1>3 DEF SuperT, DescT, DescOf
<1>. HIDE DEF s, d
<1>6. c = [x \in Cells |-> CASE x[1] = "super" -> s [] x[1] = "desc" -> d [] x[1] = "bitmap" -> bits]
  BY DEF Image, Cells, s, d, free, bits
<1>. HIDE DEF c
<1>7. c[Bitmap] = bits /\ \A k \in Copies : c[Super(k)] = s /\ c[Desc(k)] = d
  BY <1>6, Zenon DEF Cells, Bitmap, Super, Desc
<1>8. \A x \in Cells : c[x] \in Values /\ Fits(x, c[x])
  <2>. SUFFICES ASSUME NEW x \in Cells PROVE c[x] \in Values /\ Fits(x, c[x])
    OBVIOUS
  <2>1. CASE x = Bitmap
    BY <1>3, <1>7, <2>1, Apart, Zenon DEF Values, Fits
  <2>2. ASSUME NEW k \in Copies, x = Super(k) PROVE c[x] \in Values /\ Fits(x, c[x])
    BY <1>5, <1>7, <2>2, Apart, Zenon DEF Values, Fits
  <2>3. ASSUME NEW k \in Copies, x = Desc(k) PROVE c[x] \in Values /\ Fits(x, c[x])
    BY <1>5, <1>7, <2>3, Apart, Zenon DEF Values, Fits
  <2>. QED
    BY <2>1, <2>2, <2>3, Apart, SMTT(30)
<1>9. c \in [Cells -> Values]
  BY <1>6, <1>8, Zenon
<1>10. SB(c) = s /\ End(c) = end
  <2>1. SB(c) = s
    BY <1>7, Geometry, Zenon DEF SB
  <2>2. s.blocks = end
    BY Zenon DEF s
  <2>. QED
    BY <2>1, <2>2, Zenon DEF End
<1>11. verify_metadata(c)
  <2>1. s.free = FreeIn(bits, end)
    BY Zenon DEF s, free
  <2>2. d.free = FreeIn(bits, end)
    BY <1>5, Zenon DEF free
  <2>3. c[Desc(0)] = d
    BY <1>7, Geometry, Zenon
  <2>. QED
    BY <1>5, <1>7, <1>10, <2>1, <2>2, <2>3 DEF verify_metadata
<1>12. s.blocks = end /\ s.clean
  BY DEF s
<1>13. c[Bitmap] = content \cup Fixed \cup Padding(end)
  BY <1>7, Zenon DEF bits
<1>. QED
  BY <1>4, <1>7, <1>8, <1>9, <1>10, <1>11, <1>12, <1>13, Zenon DEF c

-----------------------------------------------------------------------------
\* The start of a grow.
LEMMA GrowBegins ==
    ASSUME ResizeInv, NEW t \in Bits \cup {GroupEnd}, grow_within_last_group(t)
    PROVE  ResizeInv'
<1>. DEFINE m == [SB(cache) EXCEPT !.clean = FALSE]
            q == SuperCopies(m)
<1>1. /\ pc = "idle" /\ sbraw' = SB(cache) /\ goal' = t
      /\ WriteThen(q, "grow_bitmap")
      /\ UNCHANGED <<cache, disk, phase, owned, pending, mounts, world>>
      /\ SB(cache).clean /\ End(cache) < t
  BY DEF grow_within_last_group, GrowAccepts, device, files
<1>2. Types /\ Files /\ Guarded
  BY DEF ResizeInv
<1>3. /\ SB(cache) \in SuperT /\ End(cache) \in Target..GroupEnd /\ End(disk) \in Target..GroupEnd
      /\ End(cache) >= End(disk) /\ owned \cup pending \subseteq 0..(End(cache) - 1)
  BY <1>1, Sizes, Geometry, Zenon
<1>4. m \in SuperT /\ ~m.clean /\ Alike(m, SB(cache)) /\ m.blocks = End(cache)
  BY <1>3, SuperFields, Zenon DEF Alike, End
<1>. HIDE DEF m
<1>5. /\ q \in Seq(Cells \X Values)
      /\ \A j \in RangeOf(q) : /\ Fits(j[1], j[2]) /\ j[1] # Bitmap /\ j[2] = m
                               /\ \A k \in Copies : j[1] # Desc(k)
      /\ \A k \in Copies : <<Super(k), m>> \in RangeOf(q)
  BY <1>4, SuperQueue, Zenon
<1>. HIDE DEF q
<1>6. /\ Types' /\ Files' /\ Smaller' /\ Flushed'
      /\ Jobs = {} /\ Jobs' = RangeOf(q) /\ pc' = "write" /\ cont' = "grow_bitmap"
      /\ Place' = "grow_bitmap"
  <2>1. goal' \in 0..GroupEnd
    BY <1>1, Geometry DEF Bits
  <2>2. "grow_bitmap" \in Growing /\ "grow_bitmap" \notin Committing /\ "grow_bitmap" \notin Shrinking
    BY DEF Shrinking, Growing, Committing
  <2>3. \A j \in RangeOf(q) : j[1] = Super(0) =>
               /\ owned \cup pending \subseteq 0..(j[2].blocks - 1)
               /\ j[2].blocks >= End(disk) \/ (j[2].blocks = Target /\ ~j[2].clean)
    BY <1>3, <1>4, <1>5, Zenon
  <2>. QED
    BY <1>1, <1>5, <2>1, <2>2, <2>3, Begin, Zenon
<1>7. Guarded' /\ OneSize'
  <2>1. 0 \in Copies
    BY Geometry, Zenon
  <2>. QED
    BY <1>1, <1>4, <1>5, <1>6, <2>1, BeginAlike, ZenonT(30)
<1>8. Marked' = m
  BY <1>1, Zenon DEF Marked, m
<1>9. (\A k \in Copies : Becomes(Super(k), Marked))'
  BY <1>5, <1>6, <1>8, Zenon DEF Becomes
<1>10. Exact(cache)
  BY <1>1, <1>2, Zenon DEF Guarded, MayBeClean
<1>11. /\ SB(cache).free <= End(cache) /\ cache[Desc(0)].free <= End(cache)
       /\ Inside(cache[Bitmap], End(cache))
  <2>1. End(cache) \in Nat
    BY <1>3, Geometry
  <2>2. FreeIn(cache[Bitmap], End(cache)) \in 0..End(cache)
    BY <2>1, FreeBound, Zenon
  <2>. QED
    BY <1>10, <2>1, <2>2 DEF Exact, verify_metadata
<1>12. /\ (\A j \in Jobs : j[1] # Bitmap /\ j[1] # Desc(0))'
       /\ (\A s \in {SB(cache)} \cup NextSupers : s.blocks = sbraw.blocks)'
  BY <1>1, <1>4, <1>5, <1>6, Geometry, ZenonT(30) DEF NextSupers, SB, End
<1>13. Inside(cache[Bitmap], sbraw.blocks)'
  BY <1>1, <1>11, Zenon DEF Inside, End
<1>14. sbraw' \in SuperT /\ sbraw'.blocks = End(cache) /\ sbraw'.free = SB(cache).free
  BY <1>1, <1>3, Zenon DEF End
<1>15. Stages'
  BY SMTT(30), <1>1, <1>3, <1>6, <1>9, <1>11, <1>12, <1>13, <1>14
  DEF Stages, Shrinking, Growing, Committing, Starting, Dirty
<1>. QED
  BY <1>6, <1>7, <1>15, Zenon DEF ResizeInv

\* The counters.
LEMMA RepairKeeps ==
    ASSUME ResizeInv, repair_metadata_counters
    PROVE  ResizeInv'
<1>. DEFINE free == FreeIn(cache[Bitmap], End(cache))
            d == DescOf(cache[Bitmap], free)
            m == [SB(cache) EXCEPT !.free = free]
            q == DescCopies(d) \o SuperCopies(m)
<1>1. /\ pc = "idle" /\ WriteThen(q, "idle")
      /\ UNCHANGED <<cache, disk, phase, sbraw, goal, owned, pending, mounts, world>>
  BY DEF repair_metadata_counters, device, files, locals
<1>2. Types /\ Smaller
  BY Zenon DEF ResizeInv
<1>3. /\ SB(cache) \in SuperT /\ End(cache) \in Target..GroupEnd /\ End(disk) \in Target..GroupEnd
      /\ cache[Bitmap] \in SUBSET Bits /\ cache[Desc(0)] \in DescT
      /\ End(cache) >= End(disk) \/ (End(cache) = Target /\ ~SB(cache).clean)
      /\ owned \cup pending \subseteq 0..(End(cache) - 1)
  BY Sizes, Zenon
<1>4. free \in 0..GroupEnd
  <2>1. End(cache) \in Nat /\ End(cache) <= GroupEnd
    BY <1>3, Geometry
  <2>2. free \in 0..End(cache)
    BY <2>1, FreeBound, Zenon
  <2>. QED
    BY <2>1, <2>2, Geometry
<1>5. Exact(cache) => /\ cache[Desc(0)].crc = cache[Bitmap] /\ cache[Desc(0)].free = free
                      /\ SB(cache).free = free
  BY Zenon DEF Exact, verify_metadata
<1>. HIDE DEF free
<1>6. d \in DescT /\ (Exact(cache) => d = cache[Desc(0)])
  BY <1>3, <1>4, <1>5, Zenon DEF DescT, DescOf
<1>7. m \in SuperT /\ m.clean = SB(cache).clean /\ m.blocks = End(cache)
      /\ (Exact(cache) => Alike(m, SB(cache)))
  BY <1>3, <1>4, <1>5, SuperFields DEF Alike, End
<1>. HIDE DEF d, m
<1>8. /\ q \in Seq(Cells \X Values)
      /\ \A j \in RangeOf(q) :
            /\ Fits(j[1], j[2]) /\ j[1] # Bitmap
            /\ \A k \in Copies : (j[1] = Desc(k) => j[2] = d) /\ (j[1] = Super(k) => j[2] = m)
  BY <1>6, <1>7, CounterQueue, Zenon
<1>. HIDE DEF q
<1>9. 0 \in Copies
  BY Geometry, Zenon
<1>10. /\ Types' /\ Files' /\ Smaller' /\ Flushed'
       /\ Jobs = {} /\ Jobs' = RangeOf(q) /\ pc' = "write" /\ cont' = "idle" /\ Place' = "idle"
  <2>1. goal' \in 0..GroupEnd
    BY <1>1, <1>2, Zenon DEF Types
  <2>2. "idle" \notin Shrinking /\ "idle" \notin Committing
    BY DEF Shrinking, Committing
  <2>3. \A j \in RangeOf(q) : j[1] = Super(0) =>
               /\ owned \cup pending \subseteq 0..(j[2].blocks - 1)
               /\ j[2].blocks >= End(disk) \/ (j[2].blocks = Target /\ ~j[2].clean)
    BY <1>3, <1>7, <1>8, <1>9, Zenon
  <2>. QED
    BY <1>1, <1>8, <2>1, <2>2, <2>3, Begin, Zenon
<1>11. Guarded' /\ OneSize'
  BY <1>1, <1>6, <1>7, <1>8, <1>9, <1>10, BeginAlike
<1>12. Stages'
  BY <1>10, Zenon DEF Stages, Shrinking, Growing, Committing, Starting, Dirty
<1>. QED
  BY <1>10, <1>11, <1>12, Zenon DEF ResizeInv

-----------------------------------------------------------------------------
\* The filesystem in use.  Its free count and bitmap follow its files.
LEMMA Remounted ==
    ASSUME ResizeInv, Mountable, NEW b \in 0..(End(cache) - 1),
           b \in owned \/ b \notin cache[Bitmap],
           NEW bits, bits = IF b \in owned THEN cache[Bitmap] \ {b} ELSE cache[Bitmap] \cup {b},
           NEW free, free = FreeIn(bits, End(cache)),
           owned' = IF b \in owned THEN owned \ {b} ELSE owned \cup {b},
           cache' = [cache EXCEPT ![Bitmap] = bits, ![Desc(0)] = DescOf(bits, free),
                                  ![Super(0)].free = free],
           disk' = cache', mounts' = mounts + 1,
           UNCHANGED <<phase, pc, sbraw, goal, todo, cont, pending, world>>
    PROVE  ResizeInv'
<1>0. 0 \in Copies
  BY Geometry, Zenon
<1>1. Types /\ Files /\ Guarded /\ OneSize
  BY Zenon DEF ResizeInv
<1>2. /\ pc = "idle" /\ mounts < MaxMounts /\ SB(cache).clean
  BY Zenon DEF Mountable
<1>3. /\ SB(cache) \in SuperT /\ End(cache) \in Target..GroupEnd
      /\ cache[Bitmap] \in SUBSET Bits /\ cache[Bitmap] \in Bitmaps
      /\ owned \cup pending \subseteq 0..(End(cache) - 1)
  BY Sizes, Zenon
<1>4. cache \in [Cells -> Values] /\ \A x \in Cells : Fits(x, cache[x])
  BY <1>1, Zenon DEF Types
<1>5. Inside(cache[Bitmap], End(cache))
  BY <1>1, <1>2, Zenon DEF Guarded, MayBeClean, Exact
<1>6. /\ owned \cup Fixed \subseteq cache[Bitmap]
      /\ cache[Bitmap] \cap (0..(Target - 1)) \subseteq owned \cup Fixed
      /\ owned \cap Fixed = {} /\ pending \cap Fixed = {}
  BY <1>1, <1>3, Zenon DEF Files
<1>7. b \in Bits /\ bits \in SUBSET Bits
  <2>1. b \in Bits
    BY <1>3, Geometry DEF Bits
  <2>. QED
    BY <1>3, <2>1, Zenon
<1>8. free \in 0..GroupEnd
  <2>1. End(cache) \in Nat /\ End(cache) <= GroupEnd
    BY <1>3, Geometry
  <2>2. free \in 0..End(cache)
    BY <2>1, FreeBound, Zenon
  <2>. QED
    BY <2>1, <2>2, Geometry
<1>. DEFINE d == DescOf(bits, free)
            s == [SB(cache) EXCEPT !.free = free]
<1>9. d \in DescT /\ d.crc = bits /\ d.free = free
  BY <1>7, <1>8, Zenon DEF DescT, DescOf
<1>10. s \in SuperT /\ s.free = free /\ s.blocks = End(cache) /\ s.clean
  BY <1>2, <1>3, <1>8, SuperFields DEF End
<1>11. cache' = [x \in Cells |-> IF x = Super(0) THEN s ELSE IF x = Desc(0) THEN d
                                 ELSE IF x = Bitmap THEN bits ELSE cache[x]]
  <2>. DEFINE c1 == [cache EXCEPT ![Bitmap] = bits]
              c2 == [c1 EXCEPT ![Desc(0)] = d]
  <2>1. cache' = [c2 EXCEPT ![Super(0)] = [c2[Super(0)] EXCEPT !.free = free]]
    OBVIOUS
  <2>2. c1 = [x \in Cells |-> IF x = Bitmap THEN bits ELSE cache[x]]
    BY <1>4, Apart, Zenon
  <2>. HIDE DEF c1
  <2>3. c2 = [x \in Cells |-> IF x = Desc(0) THEN d ELSE c1[x]]
    BY <1>0, <2>2, Apart, Zenon
  <2>. HIDE DEF c2, d
  <2>4. c2[Super(0)] = SB(cache)
    BY <1>0, <2>2, <2>3, Apart, Zenon DEF SB
  <2>5. [c2[Super(0)] EXCEPT !.free = free] = s
    BY <2>4, Zenon
  <2>. HIDE DEF s
  <2>6. cache' = [c2 EXCEPT ![Super(0)] = s]
    BY <2>1, <2>5, Zenon
  <2>7. cache' = [x \in Cells |-> IF x = Super(0) THEN s ELSE c2[x]]
    BY <1>0, <2>3, <2>6, Apart, Zenon
  <2>. QED
    BY <2>2, <2>3, <2>7, Zenon
<1>. HIDE DEF d, s
<1>12. /\ cache'[Super(0)] = s /\ cache'[Desc(0)] = d /\ cache'[Bitmap] = bits
       /\ \A k \in Copies : k # 0 => cache'[Super(k)] = cache[Super(k)]
  <2>1. cache'[Super(0)] = s
    BY <1>0, <1>11, Apart, Zenon
  <2>2. cache'[Desc(0)] = d
    BY <1>0, <1>11, Apart, Zenon
  <2>3. cache'[Bitmap] = bits
    BY <1>0, <1>11, Apart, Zenon
  <2>4. ASSUME NEW k \in Copies, k # 0 PROVE cache'[Super(k)] = cache[Super(k)]
    <3>1. Super(k) \in Cells /\ Super(k) # Super(0) /\ Super(k) # Desc(0) /\ Super(k) # Bitmap
      BY <1>0, <2>4, Apart, Zenon
    <3>. QED
      BY <1>11, <3>1, Zenon
  <2>. QED
    BY <2>1, <2>2, <2>3, <2>4, Zenon
<1>13. cache' \in [Cells -> Values] /\ \A x \in Cells : Fits(x, cache'[x])
  <2>1. \A x \in Cells : cache'[x] \in {s, d, bits, cache[x]}
    BY <1>11, Zenon
  <2>2. s \in Values /\ d \in Values /\ bits \in Values
    BY <1>7, <1>9, <1>10, Zenon DEF Values
  <2>3. cache' \in [Cells -> Values]
    BY <1>4, <1>11, <2>1, <2>2, ZenonT(30)
  <2>4. ASSUME NEW x \in Cells PROVE Fits(x, cache'[x])
    <3>1. CASE x = Super(0)
      BY <1>0, <1>10, <1>12, <3>1, Apart, ZenonT(30) DEF Fits
    <3>2. CASE x = Desc(0)
      BY <1>0, <1>9, <1>12, <3>2, Apart, ZenonT(30) DEF Fits
    <3>3. CASE x = Bitmap
      BY <1>7, <1>12, <3>3, Apart, Zenon DEF Fits
    <3>4. CASE x # Super(0) /\ x # Desc(0) /\ x # Bitmap
      BY <1>4, <1>11, <3>4, Zenon
    <3>. QED
      BY <3>1, <3>2, <3>3, <3>4, Zenon
  <2>. QED
    BY <2>3, <2>4, Zenon
<1>14. Jobs' = {} /\ todo' = <<>> /\ Place' = "idle" /\ pc' = "idle"
  BY <1>1, <1>2, NoJobsNext, Zenon DEF Types, Place
<1>15. Types'
  <2>1. mounts' \in 0..MaxMounts
    BY <1>1, <1>2, Geometry DEF Types
  <2>. QED
    BY <1>1, <1>13, <1>14, <2>1, ZenonT(30) DEF Types, Shrinking, Committing
<1>16. b \notin Fixed
  BY <1>6, Zenon
<1>17. /\ owned' \cup Fixed \subseteq bits
       /\ bits \cap (0..(Target - 1)) \subseteq owned' \cup Fixed
       /\ bits \cap (0..(End(cache) - 1)) = owned' \cup Fixed
       /\ owned' \cap Fixed = {} /\ owned' \subseteq 0..(End(cache) - 1)
  <2>1. cache[Bitmap] \cap (0..(End(cache) - 1)) = owned \cup Fixed
    BY <1>5, Zenon DEF Inside
  <2>2. CASE b \in owned
    BY <1>3, <1>6, <1>16, <2>1, <2>2, Zenon
  <2>3. CASE b \notin owned
    BY <1>3, <1>6, <1>16, <2>1, <2>3, Zenon
  <2>. QED
    BY <2>2, <2>3, Zenon
<1>18. SB(cache') = s /\ End(cache') = End(cache)
  BY <1>10, <1>12, Zenon DEF SB, End
<1>19. Files'
  <2>1. \A x \in Bitmaps' : x = bits
    BY <1>12, <1>14, Zenon DEF Bitmaps
  <2>2. \A x \in ({SB(cache), SB(disk)} \cup NextSupers)' : x = s
    BY <1>14, <1>18, Zenon DEF NextSupers
  <2>3. owned' \cup pending \subseteq 0..(s.blocks - 1)
    BY <1>3, <1>10, <1>17, Zenon
  <2>4. pending' # {} => "crash" \in world'
    BY <1>1, Zenon DEF Files
  <2>. QED
    BY <1>6, <1>17, <2>1, <2>2, <2>3, <2>4, ZenonT(30) DEF Files
<1>20. Exact(cache)'
  <2>1. verify_metadata(cache')
    BY <1>9, <1>10, <1>12, <1>18, Zenon DEF verify_metadata
  <2>2. (cache[Bitmap] \cap (0..(End(cache) - 1)) = owned \cup Fixed)'
    BY <1>12, <1>17, <1>18, ZenonT(30)
  <2>. QED
    BY <2>1, <2>2, Zenon DEF Exact, Inside
<1>21. OneSize'
  <2>1. \A x \in Supers' : x = s \/ x \in Supers
    BY <1>0, <1>12, <1>14, Zenon DEF Supers
  <2>2. \A x \in Primaries' : x = s
    BY <1>14, <1>18, Zenon DEF Primaries, NextSupers
  <2>3. SB(cache) \in Primaries
    BY DEF Primaries
  <2>. QED
    BY <1>1, <1>10, <2>1, <2>2, <2>3 DEF OneSize, End
<1>. QED
  BY <1>14, <1>15, <1>19, <1>20, <1>21, Restful

\* A mount and what it does to the files.
LEMMA MountKeeps ==
    ASSUME ResizeInv, Mount
    PROVE  ResizeInv'
<1>1. PICK b \in 0..(End(cache) - 1) :
          LET bits == IF b \in owned THEN cache[Bitmap] \ {b} ELSE cache[Bitmap] \cup {b}
              free == FreeIn(bits, End(cache))
          IN  /\ b \in owned \/ b \notin cache[Bitmap]
              /\ owned' = IF b \in owned THEN owned \ {b} ELSE owned \cup {b}
              /\ cache' = [cache EXCEPT ![Bitmap] = bits, ![Desc(0)] = DescOf(bits, free),
                                        ![Super(0)].free = free]
  BY Zenon DEF Mount
<1>2. /\ Mountable /\ disk' = cache' /\ mounts' = mounts + 1
      /\ UNCHANGED <<phase, pc, sbraw, goal, todo, cont, pending, world>>
  BY Zenon DEF Mount, locals
<1>3. PICK bits : bits = IF b \in owned THEN cache[Bitmap] \ {b} ELSE cache[Bitmap] \cup {b}
  BY Zenon
<1>4. PICK free : free = FreeIn(bits, End(cache))
  OBVIOUS
<1>5. /\ b \in owned \/ b \notin cache[Bitmap]
      /\ owned' = IF b \in owned THEN owned \ {b} ELSE owned \cup {b}
      /\ cache' = [cache EXCEPT ![Bitmap] = bits, ![Desc(0)] = DescOf(bits, free),
                                ![Super(0)].free = free]
  BY <1>1, <1>3, <1>4, Zenon
<1>. QED
  BY <1>2, <1>3, <1>4, <1>5, Remounted, Zenon

\* A mount that crashes.
LEMMA MountCrashKeeps ==
    ASSUME ResizeInv, MountCrash
    PROVE  ResizeInv'
<1>0. 0 \in Copies
  BY Geometry
<1>1. PICK b \in (0..(End(cache) - 1)) \ cache[Bitmap] : pending' = {b}
  BY Zenon DEF MountCrash
<1>2. /\ "crash" \in world /\ Mountable
      /\ cache' = [cache EXCEPT ![Super(0)].recover = TRUE]
      /\ disk' = cache' /\ mounts' = mounts + 1
      /\ UNCHANGED <<phase, pc, sbraw, goal, todo, cont, owned, world>>
  BY DEF MountCrash, locals
<1>3. /\ pc = "idle" /\ mounts < MaxMounts /\ SB(cache).clean
  BY <1>2, Zenon DEF Mountable
<1>4. Types /\ Files /\ Guarded /\ OneSize
  BY Zenon DEF ResizeInv
<1>5. /\ SB(cache) \in SuperT /\ End(cache) \in Target..GroupEnd
      /\ cache[Bitmap] \in SUBSET Bits /\ cache[Bitmap] \in Bitmaps
      /\ owned \cup pending \subseteq 0..(End(cache) - 1)
  BY Sizes, Zenon
<1>6. cache \in [Cells -> Values] /\ \A x \in Cells : Fits(x, cache[x])
  BY <1>4, Zenon DEF Types
<1>7. Exact(cache)
  BY <1>3, <1>4, Zenon DEF Guarded, MayBeClean
<1>. DEFINE s == [SB(cache) EXCEPT !.recover = TRUE]
<1>8. s \in SuperT /\ s.free = SB(cache).free /\ s.blocks = End(cache) /\ s.clean
  BY <1>3, <1>5, Zenon DEF SuperT, End
<1>9. cache' = [x \in Cells |-> IF x = Super(0) THEN s ELSE cache[x]]
  BY <1>0, <1>2, <1>6, Apart, Zenon DEF SB
<1>. HIDE DEF s
<1>10. /\ cache'[Super(0)] = s /\ cache'[Desc(0)] = cache[Desc(0)] /\ cache'[Bitmap] = cache[Bitmap]
       /\ \A k \in Copies : k # 0 => cache'[Super(k)] = cache[Super(k)]
  BY <1>0, <1>9, Apart, Zenon
<1>11. cache' \in [Cells -> Values] /\ \A x \in Cells : Fits(x, cache'[x])
  <2>1. s \in Values
    BY <1>8, Zenon DEF Values
  <2>2. cache' \in [Cells -> Values]
    BY <1>6, <1>9, <2>1, Zenon
  <2>3. ASSUME NEW x \in Cells PROVE Fits(x, cache'[x])
    <3>1. CASE x = Super(0)
      BY <1>0, <1>8, <1>10, <3>1, Apart, Zenon DEF Fits
    <3>2. CASE x # Super(0)
      BY <1>6, <1>9, <3>2, Zenon
    <3>. QED
      BY <3>1, <3>2, Zenon
  <2>. QED
    BY <2>2, <2>3, Zenon
<1>12. Jobs' = {} /\ todo' = <<>> /\ Place' = "idle" /\ pc' = "idle"
  BY <1>2, <1>3, <1>4, NoJobsNext, Zenon DEF Types, Place
<1>13. Types'
  <2>1. mounts' \in 0..MaxMounts
    BY <1>2, <1>3, <1>4, Geometry DEF Types
  <2>. QED
    BY <1>2, <1>4, <1>11, <1>12, <2>1, ZenonT(30) DEF Types, Shrinking, Committing
<1>14. SB(cache') = s /\ End(cache') = End(cache)
  BY <1>8, <1>10, Zenon DEF SB, End
<1>15. Files'
  <2>1. \A x \in Bitmaps' : x = cache[Bitmap]
    BY <1>2, <1>10, <1>12, Zenon DEF Bitmaps
  <2>2. \A x \in ({SB(cache), SB(disk)} \cup NextSupers)' : x = s
    BY <1>2, <1>12, <1>14, Zenon DEF NextSupers
  <2>3. owned \cup pending' \subseteq 0..(s.blocks - 1)
    BY <1>1, <1>5, <1>8, Zenon
  <2>4. /\ owned \cup Fixed \subseteq cache[Bitmap]
        /\ cache[Bitmap] \cap (0..(Target - 1)) \subseteq owned \cup Fixed
        /\ owned \cap Fixed = {}
    BY <1>4, <1>5, Zenon DEF Files
  <2>5. pending' \cap Fixed = {}
    BY <1>1, <2>4, Zenon
  <2>. QED
    BY <1>2, <2>1, <2>2, <2>3, <2>4, <2>5, ZenonT(30) DEF Files
<1>16. Exact(cache)'
  <2>1. verify_metadata(cache) /\ Inside(cache[Bitmap], End(cache))
    BY <1>7, Zenon DEF Exact
  <2>2. verify_metadata(cache')
    BY <1>8, <1>10, <1>14, <2>1, Zenon DEF verify_metadata
  <2>3. Inside(cache[Bitmap], End(cache))'
    BY <1>2, <1>10, <1>14, <2>1, Zenon DEF Inside
  <2>. QED
    BY <2>2, <2>3, Zenon DEF Exact
<1>17. OneSize'
  <2>1. \A x \in Supers' : x = s \/ x \in Supers
    BY <1>0, <1>2, <1>10, <1>12, Zenon DEF Supers
  <2>2. \A x \in Primaries' : x = s
    BY <1>2, <1>12, <1>14, Zenon DEF Primaries, NextSupers
  <2>3. SB(cache) \in Primaries
    BY Zenon DEF Primaries
  <2>. QED
    BY <1>4, <1>8, <2>1, <2>2, <2>3, ZenonT(30) DEF OneSize, End
<1>. QED
  BY <1>2, <1>12, <1>13, <1>15, <1>16, <1>17, Restful

\* A consistent image of the files at rest, as at first and after a check.
AtRest(end) ==
    /\ owned \in SUBSET Bits /\ owned \subseteq 0..(end - 1)
    /\ cache = Image(owned, end) /\ disk = cache
    /\ owned \cap Fixed = {} /\ pending = {}
    /\ pc = "idle" /\ todo = <<>> /\ cont \in {"idle"} \cup Shrinking \cup Growing \cup Committing
    /\ phase \in {"staged", "metadata_finalize", "compacted", "filesystem_shrunk"}
    /\ goal \in 0..GroupEnd /\ mounts \in 0..MaxMounts /\ world \in Worlds

RestSuffices == \A end \in Target..GroupEnd : AtRest(end) => ResizeInv

\* An image that is exact, with no command running, satisfies the invariant.
LEMMA ImageRests == RestSuffices
<1>. SUFFICES ASSUME NEW end \in Target..GroupEnd, AtRest(end) PROVE ResizeInv
  BY Zenon DEF RestSuffices
<1>0. 0 \in Copies
  BY Geometry, Zenon
<1>1. Fixed \subseteq 0..(end - 1)
  BY FixedBelow, Zenon
<1>2. /\ owned \in SUBSET Bits /\ owned \subseteq 0..(end - 1)
      /\ cache = Image(owned, end) /\ disk = cache
      /\ owned \cap Fixed = {} /\ pending = {} /\ pc = "idle" /\ todo = <<>>
  BY DEF AtRest
<1>3. /\ cache \in [Cells -> Values] /\ \A x \in Cells : Fits(x, cache[x])
      /\ verify_metadata(cache) /\ End(cache) = end
      /\ cache[Bitmap] = owned \cup Fixed \cup Padding(end)
      /\ cache[Bitmap] \cap (0..(end - 1)) = owned \cup Fixed
      /\ \A k \in Copies : cache[Super(k)].blocks = end /\ cache[Super(k)].clean
  BY <1>1, <1>2, ImageFacts, Zenon
<1>4. Jobs = {} /\ Place = "idle" /\ NextSupers = {}
  BY <1>2, NoJobs, Zenon DEF Place, NextSupers
<1>5. Types
  BY <1>2, <1>3, <1>4 DEF Types, AtRest, Shrinking, Committing
<1>6. Files
  <2>1. \A x \in Bitmaps : x = cache[Bitmap]
    BY <1>2, <1>4, Zenon DEF Bitmaps
  <2>2. \A x \in {SB(cache), SB(disk)} \cup NextSupers : x.blocks = end
    BY <1>0, <1>2, <1>3, <1>4, Zenon DEF SB
  <2>3. owned \cup Fixed \subseteq cache[Bitmap]
    BY <1>3, Zenon
  <2>4. cache[Bitmap] \cap (0..(Target - 1)) \subseteq owned \cup Fixed
    <3>1. \A x \in 0..(Target - 1) : x \in 0..(end - 1)
      BY Geometry
    <3>. QED
      BY <1>3, <3>1, Zenon
  <2>. QED
    BY <1>2, <2>1, <2>2, <2>3, <2>4, Zenon DEF Files
<1>7. Exact(cache)
  BY <1>3, Zenon DEF Exact, Inside
<1>8. OneSize
  <2>1. \A x \in Supers : x.blocks = end
    BY <1>2, <1>3, <1>4, Zenon DEF Supers
  <2>2. \A x \in Primaries : x.blocks = end
    BY <1>0, <1>2, <1>3, <1>4, Zenon DEF Primaries, SB
  <2>. QED
    BY <2>1, <2>2, Zenon DEF OneSize
<1>. QED
  BY <1>2, <1>5, <1>6, <1>7, <1>8, Rest DEF CalmSuffices

\* The same after a step.
LEMMA ImageRestsNext == RestSuffices'
BY ImageRests, PTL

\* fsck replays what a crash left and writes such an image.
LEMMA FsckKeeps ==
    ASSUME ResizeInv, Fsck
    PROVE  ResizeInv'
<1>1. /\ pc = "idle" /\ owned' = owned \cup pending /\ pending' = {}
      /\ cache' = Image(owned', End(cache)) /\ disk' = cache'
      /\ UNCHANGED <<phase, pc, goal, todo, cont, mounts, world>>
  BY DEF Fsck, locals
<1>2. Types /\ Files
  BY Zenon DEF ResizeInv
<1>3. End(cache) \in Target..GroupEnd /\ owned \cup pending \subseteq 0..(End(cache) - 1)
  BY Sizes, Zenon
<1>4. owned' \in SUBSET Bits
  <2>1. \A x \in 0..(End(cache) - 1) : x \in Bits
    BY <1>3, Geometry DEF Bits
  <2>. QED
    BY <1>1, <1>3, <2>1, Zenon
<1>5. owned' \cap Fixed = {}
  BY <1>1, <1>2, Zenon DEF Files
<1>6. PICK end \in Target..GroupEnd : end = End(cache)
  BY <1>3, Zenon
<1>7. /\ pc' = "idle" /\ todo' = <<>> /\ cont' \in {"idle"} \cup Shrinking \cup Growing \cup Committing
      /\ phase' \in {"staged", "metadata_finalize", "compacted", "filesystem_shrunk"}
      /\ goal' \in 0..GroupEnd /\ mounts' \in 0..MaxMounts /\ world' \in Worlds
  BY <1>1, <1>2, Zenon DEF Types
<1>8. cache' = Image(owned', end) /\ owned' \cup pending' \subseteq 0..(end - 1)
  BY <1>1, <1>3, <1>6, Zenon
<1>. QED
  <2>1. AtRest(end)'
    BY <1>1, <1>4, <1>5, <1>7, <1>8, Zenon DEF AtRest
  <2>2. (Target..GroupEnd)' = Target..GroupEnd
    BY Zenon
  <2>. QED
    BY <2>1, <2>2, ImageRestsNext, Zenon DEF RestSuffices
-----------------------------------------------------------------------------
\* It holds to begin with.
LEMMA ResizeInit == Init => ResizeInv
<1>. SUFFICES ASSUME Init PROVE ResizeInv
  OBVIOUS
<1>1. Size \in Target..GroupEnd
  BY Geometry, Zenon
<1>2. owned \in SUBSET Bits /\ owned \subseteq 0..(Size - 1) /\ owned \cap Fixed = {}
  <2>1. \A x \in 0..(Size - 1) : x \in Bits
    BY <1>1, Geometry DEF Bits
  <2>. QED
    BY <2>1, Zenon DEF Init
<1>3. goal \in 0..GroupEnd /\ mounts \in 0..MaxMounts
  BY Geometry DEF Init
<1>4. AtRest(Size)
  BY <1>2, <1>3, Zenon DEF AtRest, Init
<1>. QED
  BY <1>1, <1>4, ImageRests, Zenon DEF RestSuffices

\* Nothing changes.
LEMMA StandingStill ==
    ASSUME ResizeInv, UNCHANGED vars
    PROVE  ResizeInv'
<1>1. UNCHANGED <<cache, disk, phase, pc, sbraw, goal, todo, cont, owned, pending, mounts, world>>
  BY Zenon DEF vars, device, locals, files
<1>2. Types /\ Files /\ Guarded /\ OneSize /\ Smaller /\ Flushed /\ Stages
  BY Zenon DEF ResizeInv
<1>3. Jobs' = Jobs /\ Place' = Place
  BY <1>1, Zenon DEF Jobs, Place
<1>4. NextSupers' = NextSupers /\ Bitmaps' = Bitmaps /\ Supers' = Supers /\ Primaries' = Primaries
  BY <1>1, <1>3, Zenon DEF NextSupers, Bitmaps, Supers, Primaries, SB
<1>5. Types'
  BY <1>1, <1>2, <1>3, Zenon DEF Types
<1>6. Files' /\ OneSize' /\ Smaller' /\ Flushed'
  BY <1>1, <1>2, <1>4, ZenonT(30) DEF Files, OneSize, Smaller, Flushed, SB, End
<1>7. Guarded'
  <2>1. MayBeClean' = MayBeClean /\ Exact(cache)' = Exact(cache)
    BY <1>1, <1>4, Zenon DEF MayBeClean, Exact, Inside
  <2>. QED
    BY <1>1, <1>2, <1>3, <2>1, Zenon DEF Guarded, SB
<1>8. Stages'
  <2>1. /\ NoneClean' = NoneClean /\ Marked' = Marked /\ Shrunk(FALSE)' = Shrunk(FALSE)
        /\ Grown(FALSE)' = Grown(FALSE)
    BY <1>1, <1>4, Zenon DEF NoneClean, Marked, Shrunk, Grown, Removed, Added
  <2>4. (pc = "write" /\ cont = "grow_size" =>
            \E b \in SUBSET Bits : Inside(b, goal) /\ Becomes(Bitmap, b))'
    <3>1. (\E b \in SUBSET Bits : Inside(b, goal) /\ Becomes(Bitmap, b))'
              = \E b \in SUBSET Bits : Inside(b, goal) /\ Becomes(Bitmap, b)
      BY <1>1, <1>3, Zenon DEF Inside, Becomes
    <3>. QED
      BY <1>1, <1>2, <3>1, Zenon DEF Stages
  <2>5. (\A k \in Copies : Becomes(Super(k), Marked))' = \A k \in Copies : Becomes(Super(k), Marked)
    BY <1>1, <1>3, <2>1, Zenon DEF Becomes
  <2>6. /\ Becomes(Super(0), Shrunk(FALSE))' = Becomes(Super(0), Shrunk(FALSE))
        /\ Becomes(Super(0), Grown(FALSE))' = Becomes(Super(0), Grown(FALSE))
    BY <1>1, <1>3, <2>1, Zenon DEF Becomes
  <2>7. /\ Inside(cache[Bitmap], sbraw.blocks)' = Inside(cache[Bitmap], sbraw.blocks)
        /\ Inside(cache[Bitmap], goal)' = Inside(cache[Bitmap], goal)
    BY <1>1, Zenon DEF Inside
  <2>8. SB(cache)' = SB(cache) /\ End(cache)' = End(cache)
    BY <1>1, Zenon DEF SB, End
  <2>9. (/\ Place \in Shrinking \cup Growing => sbraw \in SuperT
         /\ Place \in Shrinking =>
               goal = Target /\ Target < sbraw.blocks /\ owned \cup pending \subseteq 0..(Target - 1)
         /\ Place \in Growing =>
               sbraw.blocks < goal /\ sbraw.free <= sbraw.blocks
               /\ owned \cup pending \subseteq 0..(sbraw.blocks - 1))'
    BY <1>1, <1>2, <1>3, ZenonT(30) DEF Stages
  <2>10. (/\ pc = "write" /\ cont \in Starting => \A k \in Copies : Becomes(Super(k), Marked)
          /\ pc = "write" /\ cont = "grow_bitmap" => \A j \in Jobs : j[1] # Bitmap /\ j[1] # Desc(0)
          /\ Place \in Dirty => NoneClean \/ (pc = "write" /\ cont \in Starting))'
    BY <1>1, <1>2, <1>3, <2>1, <2>5, ZenonT(30) DEF Stages
  <2>11. (/\ Place = "grow_bitmap" =>
                Inside(cache[Bitmap], sbraw.blocks) /\ cache[Desc(0)].free <= sbraw.blocks
          /\ Place \in {"grow_bitmap", "grow_size"} =>
                \A s \in {SB(cache)} \cup NextSupers : s.blocks = sbraw.blocks)'
    BY <1>1, <1>2, <1>3, <1>4, <2>7, <2>8 DEF Stages
  <2>12. (/\ pc = "grow_size" \/ Place = "grow_verify" =>
                Inside(cache[Bitmap], goal) /\ \A j \in Jobs : j[1] # Bitmap
          /\ Place = "shrink_verify" => Becomes(Super(0), Shrunk(FALSE))
          /\ Place = "grow_verify" => Becomes(Super(0), Grown(FALSE)))'
    BY <1>1, <1>2, <1>3, <2>6, <2>7, ZenonT(30) DEF Stages
  <2>13. (Place \in Committing =>
             /\ Target < End(cache) /\ cache[Bitmap] \cap (Target..(End(cache) - 1)) = {}
             /\ \A j \in Jobs : j[1] = Super(0) /\ Alike(j[2], SB(cache)))'
    BY <1>1, <1>2, <1>3, <2>8 DEF Stages
  <2>. QED
    BY <2>4, <2>9, <2>10, <2>11, <2>12, <2>13, ZenonT(30) DEF Stages
<1>. QED
  BY <1>5, <1>6, <1>7, <1>8, Zenon DEF ResizeInv

\* A behaviour stays in its world.
LEMMA WorldStays == [Next]_vars => world' = world
BY ZenonT(30) DEF Next, vars, files, Write, FlushDevice, Finalize, finalize_metadata_only_shrink,
   FinalizeLogDirty, FinalizeBitmap, FinalizeSize, FinalizeClean, FinalizeDone, FinalizeRefused,
   Grow, grow_within_last_group, GrowBitmap, GrowSize, GrowClean, Commit,
   commit_staged_relocation, CommitBegin, CommitClean, CommitRefused, CommitDone,
   repair_metadata_counters, set_volume_label, Interrupted, PowerLoss, Mount, MountCrash, Fsck

\* Every step keeps it.
LEMMA ResizeStep == ResizeInv /\ Spared /\ [Next]_vars => ResizeInv'
<1>. SUFFICES ASSUME ResizeInv, Spared, [Next]_vars PROVE ResizeInv'
  OBVIOUS
<1>1. CASE Write
  BY <1>1, WriteKeeps, Zenon
<1>2. CASE FlushDevice
  BY <1>2, FlushKeeps, Zenon
<1>3. CASE Finalize
  BY <1>3, FinalizeBegins, CheckpointKeeps, FinalizeMarksTail, FinalizeShrinks, FinalizeCleans,
     CommandReturns
  DEF Finalize
<1>4. CASE Grow
  BY <1>4, GrowBegins, GrowFreesTail, GrowGrows, GrowCleans, Zenon DEF Grow
<1>5. CASE Commit
  BY <1>5, CommitBegins, CheckpointKeeps, CommitCleans, CommandReturns DEF Commit
<1>6. CASE repair_metadata_counters
  BY <1>6, RepairKeeps, Zenon
<1>7. CASE set_volume_label
  BY <1>7, LabelKeeps, Zenon
<1>8. CASE Interrupted
  BY <1>8, CommandReturns
<1>9. CASE PowerLoss
  BY <1>9, PowerLossKeeps
<1>10. CASE Mount
  BY <1>10, MountKeeps
<1>11. CASE MountCrash
  BY <1>11, MountCrashKeeps
<1>12. CASE Fsck
  BY <1>12, FsckKeeps
<1>13. CASE UNCHANGED vars
  BY <1>13, StandingStill, Zenon
<1>. QED
  BY <1>1, <1>2, <1>3, <1>4, <1>5, <1>6, <1>7, <1>8, <1>9, <1>10, <1>11, <1>12, <1>13 DEF Next

\* In a world that is spared, the invariant always holds.
THEOREM ResizeInvariant == Spec => [](Spared => ResizeInv)
<1>1. Init => (Spared => ResizeInv)
  BY ResizeInit, Zenon
<1>2. (Spared => ResizeInv) /\ [Next]_vars => (Spared => ResizeInv)'
  <2>1. [Next]_vars => (Spared' => Spared)
    BY WorldStays, Zenon DEF Spared
  <2>. QED
    BY <2>1, ResizeStep, Zenon
<1>. QED
  BY <1>1, <1>2, PTL DEF Spec

-----------------------------------------------------------------------------
\* The cells of the device hold superblocks, descriptors and bitmaps of sizes
\* within the group, whatever is interrupted between write_super_copies and a flush.
THEOREM ResizeTypes == Spec => [](Spared => TypeOK)
<1>1. ResizeInv => TypeOK
  <2>. SUFFICES ASSUME ResizeInv PROVE TypeOK
    BY Zenon
  <2>1. Types
    BY Zenon DEF ResizeInv
  <2>2. ASSUME NEW c \in [Cells -> Values], \A x \in Cells : Fits(x, c[x])
        PROVE  /\ End(c) \in 1..GroupEnd /\ SB(c).free \in 0..GroupEnd
               /\ c[Bitmap] \subseteq Bits /\ c[Desc(0)].free \in 0..GroupEnd
    <3>1. /\ SB(c) \in SuperT /\ c[Desc(0)] \in DescT /\ c[Bitmap] \in SUBSET Bits
          /\ End(c) \in Target..GroupEnd
      BY <2>2, Typed, Zenon
    <3>. QED
      BY <3>1, Geometry, SuperFields DEF DescT
  <2>3. \A c \in {cache, disk} : /\ End(c) \in 1..GroupEnd /\ SB(c).free \in 0..GroupEnd
                                 /\ c[Bitmap] \subseteq Bits /\ c[Desc(0)].free \in 0..GroupEnd
    BY <2>1, <2>2, Zenon DEF Types
  <2>4. DOMAIN Image({}, Size) = Cells
    BY ZenonT(30) DEF Image, Cells
  <2>. QED
    BY <2>1, <2>3, <2>4, Zenon DEF TypeOK, Types
<1>. QED
  BY <1>1, ResizeInvariant, PTL

\* A clean filesystem is exact, after any interrupted finalize_metadata_only_shrink,
\* grow_within_last_group, commit, repair or label, and any retry of them.
THEOREM ResizeCleanIsExact == Spec => [](Spared => CleanIsExact)
<1>1. ResizeInv => CleanIsExact
  BY Zenon DEF ResizeInv, Guarded, MayBeClean, Exact, Inside, CleanIsExact
<1>. QED
  BY <1>1, ResizeInvariant, PTL

\* No shrink, grow, commit or repair leaves a file's block past the end.
THEOREM ResizeFilesFit == Spec => [](Spared => FilesFit)
<1>1. ResizeInv => FilesFit
  BY Sizes, Zenon DEF FilesFit
<1>. QED
  BY <1>1, ResizeInvariant, PTL

\* A clean superblock read through the cache is never smaller than the durable
\* filesystem, which is what partition synchronization relies on.
THEOREM ResizeDurablySmaller == Spec => [](Spared => DurablySmaller)
<1>1. ResizeInv => DurablySmaller
  <2>. SUFFICES ASSUME ResizeInv, SB(cache).clean PROVE End(disk) <= End(cache)
    BY Zenon DEF DurablySmaller
  <2>. QED
    BY Sizes, Geometry, Zenon
<1>. QED
  BY <1>1, ResizeInvariant, PTL

\* Superblock copies that say clean agree on the size, wherever write_super_copies
\* was cut off.
THEOREM ResizeCleanCopiesAgree == Spec => [](Spared => CleanCopiesAgree)
<1>1. ResizeInv => CleanCopiesAgree
  <2>. SUFFICES ASSUME ResizeInv, NEW k \in Copies, NEW l \in Copies,
                       cache[Super(k)].clean, cache[Super(l)].clean
                PROVE  cache[Super(k)].blocks = cache[Super(l)].blocks
    BY Zenon DEF CleanCopiesAgree
  <2>1. cache[Super(k)] \in Supers /\ cache[Super(l)] \in Supers /\ SB(cache) \in Primaries
    BY DEF Supers, Primaries
  <2>. QED
    BY <2>1, Zenon DEF ResizeInv, OneSize
<1>. QED
  BY <1>1, ResizeInvariant, PTL
=============================================================================
