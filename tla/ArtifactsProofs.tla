--------------------------- MODULE ArtifactsProofs --------------------------
(***************************************************************************)
(* What is published stays and is whole, a restore that reports success is *)
(* exact, and the first partition table can be had back: for every number  *)
(* of paths, runs, chunks and table entries, whatever the commands race    *)
(* for and wherever one is killed or power is lost.                        *)
(***************************************************************************)
EXTENDS Artifacts, WellFoundedInduction, TLAPS

\* Where a command is: before its file has the name, before that is durable, and
\* after.
Before == {"header", "chunks", "footer", "complete", "flush", "undo", "flush_undo", "publish", "link"}
Linked == {"rename_sync", "link_sync"}
Durable == {"unlink", "unlink_sync", "published", "flush_sector"}

PublishTypes ==
    /\ PublishTypeOK
    /\ data = [f \in Files |-> data[f]] /\ ddata = [f \in Files |-> ddata[f]]
    /\ limit \in [Procs -> 0 .. MaxAttempts]
    /\ pc \in [Procs -> {"idle"} \cup Before \cup Linked \cup Durable]

\* A path that has a file keeps it, in the directory and on stable storage; the
\* file of a command that has not come to publish it has no such name, and that
\* of one that has, has its path.
NamesInv ==
    /\ \A q \in Paths : /\ ddir[q] # None => dir[q] = ddir[q]
                        /\ dir[q] # None => dir[q][2] <= runs[dir[q][1]]
    /\ \A p \in Procs : pc[p] # "idle" => file[p] \in Files /\ file[p] = <<p, runs[p]>> /\ path[p] \in Paths
    /\ \A p \in Procs, q \in Paths : pc[p] \in Before => dir[q] # file[p]
    /\ \A p \in Procs : pc[p] \in Linked \cup Durable => dir[path[p]] = file[p]
    /\ \A p \in Procs : pc[p] \in Durable => ddir[path[p]] = file[p]
    /\ \A a \in acked : dir[a[1]] = a[2] /\ ddir[a[1]] = a[2]

PublishInv == PublishTypes /\ NamesInv

\* What has a name is whole and flushed, and so is what is about to get one.
WholeInv ==
    /\ \A q \in Paths : dir[q] # None =>
          ddata[dir[q]] = data[dir[q]] /\ Whole(dir[q], data[dir[q]])
    /\ \A p \in Procs : pc[p] \in {"publish", "link"} =>
          ddata[file[p]] = data[file[p]] /\ Whole(file[p], data[file[p]])

Partly(n, footer) == [complete |-> FALSE, records |-> [i \in 1 .. n |-> source[i]], footer |-> footer]
AllOf == [complete |-> TRUE, records |-> [i \in 1 .. Chunks |-> source[i]], footer |-> TRUE]

\* The image as far as create has got.
CreateInv ==
    /\ pc[Image] = "chunks" => \E n \in 0 .. Chunks - 1 : Content = Partly(n, FALSE)
    /\ pc[Image] = "footer" => Content = Partly(Chunks, FALSE)
    /\ pc[Image] = "complete" => Content = Partly(Chunks, TRUE)
    /\ pc[Image] = "flush" => Content = AllOf

\* What the read-back leaves possible for a chunk it has passed.
Passed(i) == dtarget[i] = source[i] \/ (dtarget[i] = Bad /\ i \notin uncached)

\* A restore reads a published image; what it has read back is as in the source,
\* and the medium has what was written or has it wrong.
RestoreInv ==
    /\ ImageTypeOK /\ source \in Sources
    /\ target = [i \in 1 .. Chunks |-> target[i]]
    /\ \A i \in 1 .. Chunks : target[i] \in {Old, Bad, source[i]}
    /\ \A i \in 1 .. Chunks : dtarget[i] \in {Old, Bad, source[i]}
    /\ restoring \in {"write", "footer", "check"} => \E q \in Paths : from = dir[q] /\ Published(q)
    /\ restoring \in {"write", "check"} => at \in 1 .. Chunks
    /\ restoring = "check" => \A i \in 1 .. Chunks : dtarget[i] \in {target[i], Bad}
    /\ restoring = "check" => tdirty = {} /\ \A i \in 1 .. at - 1 : Passed(i)
    /\ restoring = "ok" => tdirty = {} /\ \A i \in 1 .. Chunks : Passed(i)

\* A durable undo file has the first table.
Undo == \E q \in Paths : ddir[q] # None /\ ddir[q][1] = Mbr /\ ddata[ddir[q]] = original

\* Until there is one, the first table is all there is: in the sector and in
\* every undo file.
MbrInv ==
    /\ sector \in Sectors /\ dsector \in Sectors
    /\ pc[Mbr] # "idle" => edited \in Sectors
    /\ pc[Mbr] \in {"flush_undo", "publish", "link", "unlink", "unlink_sync", "published"} \cup Linked =>
          data[file[Mbr]] = sector
    /\ \A q \in Paths : dir[q] # None /\ dir[q][1] = Mbr => data[dir[q]] \in Sectors
    /\ Undo \/ /\ sector = original /\ dsector = original
               /\ \A q \in Paths : dir[q] # None /\ dir[q][1] = Mbr => data[dir[q]] = original

ArtifactsInv == PublishInv /\ WholeInv /\ CreateInv /\ RestoreInv /\ MbrInv

-----------------------------------------------------------------------------
\* The steps of the two commands, as far as the directory and the files go.
Working == Before \ {"publish", "link"}

Waits == UNCHANGED <<dir, ddir, data, ddata, file, path, runs, limit, acked>>

PublishStep ==
    \/ \E p \in Procs :
          \/ pc[p] = "idle" /\ \E q \in Paths, s \in Working : CreateTemp(p, q) /\ Goes(p, s)
          \/ pc[p] \in Working /\ \E s \in Working : (\E c : WriteTemp(p, c)) /\ Goes(p, s)
          \/ pc[p] \in Working /\ FlushTemp(p) /\ Goes(p, "publish")
          \/ pc[p] # "idle" /\ Fail(p)
          \/ publish_file_noreplace(p)
          \/ pc[p] \in Durable /\ Succeed(p)
          \/ pc[p] \in Durable /\ Waits /\ \E s \in Durable \cup {"idle"} : Goes(p, s)
          \/ Kill(p)
    \/ LosePower
    \/ UNCHANGED publish

\* A name on stable storage is there for good; a name is new only when a command
\* at its publication gives it to its file, and is lost only with the power; and
\* the content of a file that has one, or is at its publication, does not change.
Stays ==
    /\ \A q \in Paths : ddir[q] # None => ddir'[q] = ddir[q] /\ dir'[q] = ddir[q]
    /\ \A q \in Paths : dir'[q] \in {None, dir[q]} \/
          \E p \in Procs : pc[p] \in {"publish", "link"} /\ dir'[q] = file[p]
    /\ LosePower \/ \A q \in Paths : dir[q] # None => dir'[q] = dir[q]
    /\ \A q \in Paths : dir[q] # None =>
          data'[dir[q]] = data[dir[q]] /\ ddata'[dir[q]] = ddata[dir[q]]
    /\ \A p \in Procs : pc[p] \in {"publish", "link"} =>
          data'[file[p]] = data[file[p]] /\ ddata'[file[p]] = ddata[file[p]]
    /\ \A p \in Procs : pc'[p] \in {"publish", "link"} => file'[p] = file[p]

\* Every step keeps the invariant of the directory, and what has a name.
LEMMA PublishKeeps ==
    ASSUME PublishInv, WholeInv, PublishStep
    PROVE  PublishInv' /\ Stays
<1>. USE ArtifactsAssumption
<1>0. /\ \A q \in Paths : q \in Names /\ q \notin Files
      /\ \A f \in Files : f \in Names /\ f # None /\ f[1] \in Procs /\ f[2] \in 1 .. MaxAttempts
      /\ \A p \in Procs, k \in 1 .. MaxAttempts : <<p, k>> \in Files /\ <<p, k>>[1] = p /\ <<p, k>>[2] = k
  BY DEF Names, Files
<1>1. /\ dir \in [Names -> Files \cup {None}] /\ ddir \in [Names -> Files \cup {None}]
      /\ file \in [Procs -> Files \cup {None}] /\ path \in [Procs -> Paths \cup {None}]
      /\ runs \in [Procs -> 0 .. MaxAttempts]
      /\ acked \subseteq Paths \X Files
      /\ \A f \in Files : dir[f] \in {f, None} /\ ddir[f] \in {f, None}
      /\ data = [f \in Files |-> data[f]] /\ ddata = [f \in Files |-> ddata[f]]
      /\ limit \in [Procs -> 0 .. MaxAttempts]
      /\ pc \in [Procs -> {"idle"} \cup Before \cup Linked \cup Durable]
  BY DEF PublishInv, PublishTypes, PublishTypeOK
<1>. DEFINE Moves(p, s) == \A r \in Procs : pc'[r] = IF r = p THEN s ELSE pc[r]
<1>2. ASSUME NEW p \in Procs, NEW s, Goes(p, s), s \in {"idle"} \cup Before \cup Linked \cup Durable
      PROVE  Moves(p, s) /\ pc' \in [Procs -> {"idle"} \cup Before \cup Linked \cup Durable]
  <2>1. pc' = [pc EXCEPT ![p] = s]
    BY <1>2, Zenon DEF Goes
  <2>. HIDE DEF Before, Linked, Durable
  <2>. QED
    BY <1>1, <1>2, <2>1
<1>4. /\ \A q \in Paths : dir[q] # None =>
            dir[q] \in Files /\ dir[q][1] \in Procs /\ dir[q][2] \in Nat /\ dir[q][2] <= runs[dir[q][1]]
      /\ \A r \in Procs : runs[r] \in Nat
      /\ \A r \in Procs : pc[r] # "idle" => file[r] \in Files /\ path[r] \in Paths /\ file[r] # None
      /\ \A r, v \in Procs : pc[r] # "idle" /\ pc[v] # "idle" /\ r # v => file[r] # file[v]
  BY <1>0, <1>1 DEF PublishInv, NamesInv
<1>3. ASSUME NEW p \in Procs, pc[p] = "idle", NEW q \in Paths, NEW s \in Working, CreateTemp(p, q), Goes(p, s)
      PROVE  PublishInv' /\ Stays
  <2>. DEFINE f == <<p, runs[p] + 1>>
  <2>1. /\ f \in Files /\ f[1] = p /\ f[2] = runs[p] + 1 /\ runs[p] + 1 \in 1 .. MaxAttempts
    <3>1. runs[p] + 1 \in 1 .. MaxAttempts
      BY <1>1, <1>3 DEF CreateTemp
    <3>. QED
      BY <1>0, <3>1, Zenon
  <2>2. Moves(p, s) /\ pc' \in [Procs -> {"idle"} \cup Before \cup Linked \cup Durable]
    BY <1>2, <1>3, Zenon DEF Working
  <2>3. /\ dir' = [dir EXCEPT ![f] = f] /\ runs' = [runs EXCEPT ![p] = runs[p] + 1]
        /\ file' = [file EXCEPT ![p] = f] /\ path' = [path EXCEPT ![p] = q]
        /\ UNCHANGED <<ddir, data, ddata, limit, acked>>
    BY <1>1, <1>3, Zenon DEF CreateTemp
  <2>. HIDE DEF f, Moves
  <2>4. /\ \A n \in Paths : dir'[n] = dir[n] /\ ddir'[n] = ddir[n]
        /\ \A r \in Procs : /\ file'[r] = IF r = p THEN f ELSE file[r]
                            /\ path'[r] = IF r = p THEN q ELSE path[r]
                            /\ runs'[r] = IF r = p THEN runs[p] + 1 ELSE runs[r]
    BY <1>0, <1>1, <2>1, <2>3
  <2>5. PublishTypes'
    BY <1>0, <1>1, <2>1, <2>2, <2>3 DEF PublishTypes, PublishTypeOK
  <2>6. \A n \in Paths : dir[n] # f
    BY <1>0, <1>1, <2>1, SMTT(30) DEF PublishInv, NamesInv
  <2>7. NamesInv'
    <3>1. \A n \in Paths : dir'[n] # None => dir'[n][2] <= runs'[dir'[n][1]]
      <4>1. \A r \in Procs : runs[r] <= runs'[r] /\ runs'[r] \in Nat
        BY <1>4, <2>4, SMTT(30)
      <4>. QED
        <5>1. ASSUME NEW n \in Paths, dir[n] # None PROVE dir[n][2] <= runs'[dir[n][1]]
          <6>. DEFINE r == dir[n][1]
                      k == dir[n][2]
          <6>1. r \in Procs /\ k \in Nat /\ k <= runs[r]
            BY <1>4, <5>1, Zenon
          <6>. HIDE DEF r, k
          <6>2. k <= runs'[r]
            BY <1>4, <4>1, <6>1
          <6>. QED
            BY <6>2 DEF r, k
        <5>. QED
          BY <2>4, <5>1
    <3>2. \A r \in Procs : pc'[r] # "idle" => file'[r] \in Files /\ file'[r] = <<r, runs'[r]>> /\ path'[r] \in Paths
      <4>1. file'[p] \in Files /\ file'[p] = <<p, runs'[p]>> /\ path'[p] \in Paths
        BY <2>1, <2>4 DEF f
      <4>2. \A r \in Procs : r # p => /\ pc'[r] = pc[r] /\ file'[r] = file[r]
                                      /\ path'[r] = path[r] /\ runs'[r] = runs[r]
        BY <2>2, <2>4, Zenon DEF Moves
      <4>3. \A r \in Procs : pc[r] # "idle" => file[r] \in Files /\ file[r] = <<r, runs[r]>> /\ path[r] \in Paths
        BY Zenon DEF PublishInv, NamesInv
      <4>. QED
        BY <4>1, <4>2, <4>3
    <3>3. \A r \in Procs, n \in Paths : pc'[r] \in Before => dir'[n] # file'[r]
      BY <2>2, <2>4, <2>6, SMTT(30) DEF PublishInv, NamesInv, Moves
    <3>4. \A r \in Procs : pc'[r] \in Linked \cup Durable => r # p /\ pc'[r] = pc[r]
      BY <2>2 DEF Moves, Working, Before, Linked, Durable
    <3>5. \A r \in Procs : /\ pc[r] \in Linked \cup Durable => path[r] \in Paths
      BY DEF PublishInv, NamesInv, Linked, Durable
    <3>6. \A a \in acked : a[1] \in Paths
      BY <1>1, Zenon
    <3>. QED
      BY <2>3, <2>4, <3>1, <3>2, <3>3, <3>4, <3>5, <3>6 DEF PublishInv, NamesInv
  <2>8. Stays
    BY <1>3, <2>2, <2>3, <2>4 DEF Stays, Moves, Working, PublishInv, NamesInv
  <2>. QED
    BY <2>5, <2>7, <2>8 DEF PublishInv
\* The command keeps its file, and the paths and their files stay as they are.
<1>5. ASSUME NEW p \in Procs, NEW s, Moves(p, s), pc[p] # "idle",
             \/ s = "idle"
             \/ s \in Before /\ pc[p] \in Before
             \/ s \in Durable /\ pc[p] \in Durable,
             UNCHANGED <<file, path, runs, acked>>,
             \A q \in Paths : dir'[q] = dir[q] /\ ddir'[q] = ddir[q],
             \A f \in Files : \/ data'[f] = data[f] /\ ddata'[f] = ddata[f]
                              \/ f = file[p] /\ pc[p] \in Working
      PROVE  NamesInv' /\ Stays
  <2>1. \A r \in Procs : /\ pc'[r] # "idle" => pc[r] # "idle"
                         /\ pc'[r] \in Before => pc[r] \in Before
                         /\ pc'[r] \in Linked \cup Durable => pc[r] \in Linked \cup Durable
                         /\ pc'[r] \in Durable => pc[r] \in Durable
    BY <1>5 DEF Before, Linked, Durable
  <2>2. \A a \in acked : a[1] \in Paths
    BY <1>1
  <2>3. \A r \in Procs : pc[r] \in Linked \cup Durable => path[r] \in Paths
    BY <1>4, Zenon DEF Linked, Durable
  <2>4. NamesInv'
    BY <1>5, <2>1, <2>2, <2>3 DEF PublishInv, NamesInv
  <2>5. \A q \in Paths : dir[q] # None => data'[dir[q]] = data[dir[q]] /\ ddata'[dir[q]] = ddata[dir[q]]
    BY <1>4, <1>5 DEF PublishInv, NamesInv, Working
  <2>6. \A r \in Procs : pc[r] \in {"publish", "link"} =>
             data'[file[r]] = data[file[r]] /\ ddata'[file[r]] = ddata[file[r]]
    BY <1>4, <1>5 DEF Working
  <2>7. Stays
    BY <1>5, <2>5, <2>6 DEF Stays, PublishInv, NamesInv
  <2>. QED
    BY <2>4, <2>7
\* The command gives its path to its file.
<1>6. ASSUME NEW p \in Procs, NEW s \in Linked, Moves(p, s), pc[p] \in {"publish", "link"},
             UNCHANGED <<file, path, runs, acked, data, ddata, ddir>>, dir[path[p]] = None,
             \A q \in Paths : dir'[q] = IF q = path[p] THEN file[p] ELSE dir[q]
      PROVE  NamesInv' /\ Stays
  <2>0. pc[p] # "idle" /\ pc[p] \in Before /\ s \notin Before \cup Durable \cup {"idle", "publish", "link"}
    BY <1>6 DEF Before, Linked, Durable
  <2>1. \A r \in Procs \ {p} : pc'[r] = pc[r]
    BY <1>6, Zenon
  <2>2. \A r \in Procs \ {p} : pc[r] # "idle" => file[r] # file[p] /\ path[r] \in Paths
    BY <1>4, <2>0, Zenon
  <2>3. \A r \in Procs : pc[r] \in Linked \cup Durable => r # p /\ pc[r] # "idle" /\ path[r] # path[p]
    BY <1>4, <1>6, <2>0 DEF PublishInv, NamesInv, Before, Linked, Durable
  <2>4. \A a \in acked : a[1] \in Paths /\ a[2] # None /\ a[1] # path[p]
    BY <1>0, <1>1, <1>6 DEF PublishInv, NamesInv
  <2>5. ddir[path[p]] = None
    BY <1>4, <1>6, <2>0, Zenon DEF PublishInv, NamesInv
  <2>6. file[p][1] = p /\ file[p][2] = runs[p] /\ file[p] # None /\ path[p] \in Paths
    BY <1>4, <2>0 DEF PublishInv, NamesInv
  <2>7. NamesInv'
    <3>1. \A q \in Paths : /\ ddir'[q] # None => dir'[q] = ddir'[q]
                           /\ dir'[q] # None => dir'[q][2] <= runs'[dir'[q][1]]
      BY <1>4, <1>6, <2>5, <2>6 DEF PublishInv, NamesInv
    <3>2. \A r \in Procs : pc'[r] # "idle" => file'[r] \in Files /\ file'[r] = <<r, runs'[r]>> /\ path'[r] \in Paths
      BY <1>6, <2>0, <2>1 DEF PublishInv, NamesInv
    <3>3. \A r \in Procs, q \in Paths : pc'[r] \in Before => dir'[q] # file'[r]
      <4>1. \A r \in Procs : pc'[r] \in Before => r # p /\ pc[r] \in Before /\ pc[r] # "idle"
        BY <1>6, <2>0, <2>1, Zenon DEF Before
      <4>. QED
        BY <1>6, <2>2, <4>1 DEF PublishInv, NamesInv
    <3>4. \A r \in Procs : pc'[r] \in Linked \cup Durable => dir'[path'[r]] = file'[r]
      <4>1. \A r \in Procs \ {p} : pc[r] \in Linked \cup Durable => dir[path[r]] = file[r] /\ path[r] \in Paths
        BY <2>2, <2>3, Zenon DEF PublishInv, NamesInv
      <4>. QED
        BY <1>6, <2>1, <2>3, <2>6, <4>1
    <3>5. \A r \in Procs : pc'[r] \in Durable => ddir'[path'[r]] = file'[r]
      BY <1>6, <2>0, <2>1 DEF PublishInv, NamesInv
    <3>6. \A a \in acked : dir'[a[1]] = a[2] /\ ddir'[a[1]] = a[2]
      BY <1>6, <2>4 DEF PublishInv, NamesInv
    <3>. QED
      BY <1>6, <3>1, <3>2, <3>3, <3>4, <3>5, <3>6, Zenon DEF NamesInv
  <2>8. Stays
    BY <1>6, <2>5 DEF Stays, PublishInv, NamesInv
  <2>. QED
    BY <2>7, <2>8, Zenon
<1>7. ASSUME NEW p \in Procs, pc[p] \in Working, NEW s \in Working, NEW c, WriteTemp(p, c), Goes(p, s)
      PROVE  PublishInv' /\ Stays
  <2>1. pc[p] # "idle" /\ file[p] \in Files /\ s \in Before /\ pc[p] \in Before
    BY <1>4, <1>7 DEF Working, Before
  <2>2. Moves(p, s) /\ pc' \in [Procs -> {"idle"} \cup Before \cup Linked \cup Durable]
    BY <1>2, <1>7, <2>1, Zenon
  <2>3. data' = [data EXCEPT ![file[p]] = c] /\ UNCHANGED <<dir, ddir, ddata, file, path, runs, limit, acked>>
    BY <1>7 DEF WriteTemp
  <2>4. PublishTypes'
    BY <1>1, <2>1, <2>2, <2>3, Zenon DEF PublishTypes, PublishTypeOK
  <2>5. \A f \in Files : f # file[p] => data'[f] = data[f]
    BY <1>1, <2>1, <2>3, Zenon
  <2>. HIDE DEF Moves
  <2>. QED
    BY <1>5, <1>7, <2>1, <2>2, <2>3, <2>4, <2>5, Zenon DEF PublishInv
<1>8. ASSUME NEW p \in Procs, pc[p] \in Working, FlushTemp(p), Goes(p, "publish")
      PROVE  PublishInv' /\ Stays
  <2>1. pc[p] # "idle" /\ file[p] \in Files /\ "publish" \in Before /\ pc[p] \in Before
    BY <1>4, <1>8 DEF Working, Before
  <2>2. Moves(p, "publish") /\ pc' \in [Procs -> {"idle"} \cup Before \cup Linked \cup Durable]
    BY <1>2, <1>8, <2>1, Zenon
  <2>3. /\ ddata' = [ddata EXCEPT ![file[p]] = data[file[p]]]
        /\ UNCHANGED <<dir, ddir, data, file, path, runs, limit, acked>>
    BY <1>8, Zenon DEF FlushTemp
  <2>4. PublishTypes'
    BY <1>1, <2>1, <2>2, <2>3, SMTT(30) DEF PublishTypes, PublishTypeOK
  <2>5. \A f \in Files : f # file[p] => ddata'[f] = ddata[f]
    BY <1>1, <2>1, <2>3
  <2>. HIDE DEF Moves
  <2>. QED
    BY <1>5, <1>8, <2>1, <2>2, <2>3, <2>4, <2>5, Zenon DEF PublishInv
<1>9. ASSUME NEW p \in Procs, pc[p] # "idle", NEW s \in {"idle", "unlink_sync"}, Goes(p, s),
             s = "idle" \/ pc[p] = "unlink", dir' = [dir EXCEPT ![file[p]] = None],
             UNCHANGED <<ddir, data, ddata, file, path, runs, limit, acked>>
      PROVE  PublishInv' /\ Stays
  <2>1. file[p] \in Files /\ (s = "idle" \/ (s \in Durable /\ pc[p] \in Durable))
    BY <1>4, <1>9 DEF Durable
  <2>2. Moves(p, s) /\ pc' \in [Procs -> {"idle"} \cup Before \cup Linked \cup Durable]
    BY <1>2, <1>9, <2>1, Zenon
  <2>3. PublishTypes'
    BY <1>0, <1>1, <1>9, <2>1, <2>2 DEF PublishTypes, PublishTypeOK
  <2>4. \A q \in Paths : dir'[q] = dir[q]
    BY <1>0, <1>1, <1>9, <2>1
  <2>. HIDE DEF Moves
  <2>. QED
    BY <1>5, <1>9, <2>1, <2>2, <2>3, <2>4 DEF PublishInv
<1>10. ASSUME NEW p \in Procs, pc[p] # "idle", Fail(p) PROVE PublishInv' /\ Stays
  BY <1>9, <1>10, Zenon DEF Fail
<1>11. ASSUME NEW p \in Procs, NEW s, Goes(p, s), pc[p] # "idle", Waits,
              s = "idle" \/ (s = "link" /\ pc[p] = "publish") \/ (s \in Durable /\ pc[p] \in Durable)
       PROVE  PublishInv' /\ Stays
  <2>1. s = "idle" \/ (s \in Before /\ pc[p] \in Before) \/ (s \in Durable /\ pc[p] \in Durable)
    BY <1>11 DEF Before
  <2>2. Moves(p, s) /\ pc' \in [Procs -> {"idle"} \cup Before \cup Linked \cup Durable]
    BY <1>2, <1>11, <2>1, Zenon
  <2>3. PublishTypes'
    BY <1>1, <1>11, <2>2, Zenon DEF PublishTypes, PublishTypeOK, Waits
  <2>. HIDE DEF Moves
  <2>. QED
    BY <1>5, <1>11, <2>1, <2>2, <2>3, Zenon DEF PublishInv, Waits
<1>12. ASSUME NEW p \in Procs, NEW s \in Linked, Goes(p, s), pc[p] \in {"publish", "link"}, dir[path[p]] = None,
              NEW x \in {file[p], None},
              dir' = [[dir EXCEPT ![path[p]] = file[p]] EXCEPT ![file[p]] = x]
                \/ dir' = [dir EXCEPT ![path[p]] = file[p]],
              UNCHANGED <<ddir, data, ddata, file, path, runs, limit, acked>>
       PROVE  PublishInv' /\ Stays
  <2>1. file[p] \in Files /\ path[p] \in Paths /\ path[p] # file[p]
    BY <1>0, <1>4, <1>12, Zenon
  <2>2. Moves(p, s) /\ pc' \in [Procs -> {"idle"} \cup Before \cup Linked \cup Durable]
    BY <1>2, <1>12, Zenon
  <2>5. dir' \in [Names -> Files \cup {None}] /\ \A f \in Files : dir'[f] \in {f, None}
    <3>1. path[p] \in Names /\ file[p] \in Names /\ path[p] \notin Files
      BY <1>0, <2>1, Zenon
    <3>2. CASE dir' = [dir EXCEPT ![path[p]] = file[p]]
      BY <1>1, <2>1, <3>1, <3>2
    <3>3. CASE dir' = [[dir EXCEPT ![path[p]] = file[p]] EXCEPT ![file[p]] = x]
      <4>. DEFINE d == [dir EXCEPT ![path[p]] = file[p]]
      <4>1. d \in [Names -> Files \cup {None}] /\ \A f \in Files : d[f] \in {f, None}
        BY <1>1, <2>1, <3>1
      <4>2. dir' = [d EXCEPT ![file[p]] = x]
        BY <3>3, Zenon
      <4>. HIDE DEF d
      <4>. QED
        BY <1>12, <2>1, <3>1, <4>1, <4>2
    <3>. QED
      BY <1>12, <3>2, <3>3, Zenon
  <2>3. PublishTypes'
    BY <1>1, <1>12, <2>2, <2>5, Zenon DEF PublishTypes, PublishTypeOK
  <2>4. \A q \in Paths : dir'[q] = IF q = path[p] THEN file[p] ELSE dir[q]
    BY <1>0, <1>1, <1>12, <2>1
  <2>. HIDE DEF Moves
  <2>. QED
    BY <1>6, <1>12, <2>1, <2>2, <2>3, <2>4, Zenon DEF PublishInv
<1>13. ASSUME NEW p \in Procs, TryRename(p) \/ Link(p) \/ Unlink(p) PROVE PublishInv' /\ Stays
  <2>1. pc[p] # "idle"
    BY <1>13, Zenon DEF TryRename, Link, Unlink
  <2>2. CASE TryRename(p)
    BY <1>10, <1>11, <1>12, <2>1, <2>2, Zenon DEF TryRename, Linked, Waits
  <2>3. CASE Link(p)
    BY <1>10, <1>12, <2>1, <2>3, Zenon DEF Link, Linked
  <2>4. CASE Unlink(p)
    BY <1>9, <1>10, <2>1, <2>4, Zenon DEF Unlink
  <2>. QED
    BY <1>13, <2>2, <2>3, <2>4, Zenon
\* The names of its file become durable.
<1>14. ASSUME NEW p \in Procs, fsync_parent_directory(p) PROVE PublishInv' /\ Stays
  <2>1. pc[p] \in Linked \cup {"unlink_sync"} /\ pc[p] # "idle" /\ AfterSync[pc[p]] \in Durable
    BY <1>14 DEF fsync_parent_directory, AfterSync, Linked, Durable
  <2>2. CASE Fail(p)
    BY <1>10, <2>1, <2>2, Zenon
  <2>3. CASE /\ ddir' = [[ddir EXCEPT ![path[p]] = dir[path[p]]] EXCEPT ![file[p]] = dir[file[p]]]
             /\ Goes(p, AfterSync[pc[p]]) /\ UNCHANGED <<dir, data, ddata, file, path, runs, limit, acked>>
    <3>. DEFINE s == AfterSync[pc[p]]
    <3>1. /\ file[p] \in Files /\ path[p] \in Paths /\ file[p] # None /\ dir[path[p]] = file[p]
          /\ path[p] \in Names /\ file[p] \in Names /\ path[p] \notin Files
      BY <1>0, <1>4, <2>1 DEF PublishInv, NamesInv, Durable
    <3>2. Moves(p, s) /\ pc' \in [Procs -> {"idle"} \cup Before \cup Linked \cup Durable]
      BY <1>2, <2>1, <2>3, Zenon
    <3>. HIDE DEF Moves, s
    <3>3. \A n \in Names : ddir'[n] = IF n \in {path[p], file[p]} THEN dir[n] ELSE ddir[n]
      BY <1>1, <2>3, <3>1, Zenon
    <3>4. ddir' \in [Names -> Files \cup {None}] /\ \A f \in Files : ddir'[f] \in {f, None}
      <4>1. ddir' = [n \in Names |-> ddir'[n]]
        BY <1>1, <2>3, Zenon
      <4>2. \A n \in Names : ddir'[n] \in Files \cup {None}
        BY <1>1, <3>3
      <4>3. \A f \in Files : ddir'[f] \in {f, None}
        BY <1>0, <1>1, <3>3, Zenon
      <4>. QED
        BY <4>1, <4>2, <4>3
    <3>5. PublishTypes'
      BY <1>1, <2>3, <3>2, <3>4, Zenon DEF PublishTypes, PublishTypeOK
    <3>6. \A q \in Paths : ddir'[q] = IF q = path[p] THEN file[p] ELSE ddir[q]
      BY <1>0, <3>1, <3>3
    <3>7. NamesInv'
      <4>1. s \notin Before \cup Linked \cup {"idle"} /\ pc[p] \in Linked \cup Durable
        BY <2>1 DEF s, Before, Linked, Durable
      <4>2. \A q \in Paths : ddir'[q] # None => dir'[q] = ddir'[q]
        BY <2>3, <3>1, <3>6, ZenonT(30) DEF PublishInv, NamesInv
      <4>3. \A r \in Procs : pc'[r] \in Durable => ddir'[path'[r]] = file'[r]
        <5>1. \A r \in Procs : pc[r] \in Durable => /\ path[r] \in Paths /\ ddir[path[r]] = file[r]
                                                    /\ dir[path[r]] = file[r]
          BY <1>4 DEF PublishInv, NamesInv, Durable
        <5>2. \A r \in Procs : r # p => pc'[r] = pc[r]
          BY <3>2, Zenon DEF Moves
        <5>3. \A r \in Procs : pc[r] \in Durable => ddir'[path[r]] = file[r]
          BY <3>1, <3>6, <5>1
        <5>4. ddir'[path[p]] = file[p]
          BY <3>1, <3>6, Zenon
        <5>. QED
          BY <2>3, <5>2, <5>3, <5>4
      <4>4. \A a \in acked : ddir'[a[1]] = a[2]
        <5>1. \A a \in acked : a[1] \in Paths /\ dir[a[1]] = a[2] /\ ddir[a[1]] = a[2]
          BY <1>1 DEF PublishInv, NamesInv
        <5>2. dir[path[p]] = file[p]
          BY <3>1, Zenon
        <5>. QED
          BY <3>6, <5>1, <5>2, Zenon
      <4>5. \A r \in Procs : pc'[r] \in Before => pc[r] \in Before
        BY <3>2, <4>1, Zenon DEF Moves
      <4>6. \A r \in Procs : /\ pc'[r] \in Linked \cup Durable => pc[r] \in Linked \cup Durable
                             /\ pc'[r] # "idle" => pc[r] # "idle"
        BY <2>1, <3>2, <4>1, Zenon DEF Moves
      <4>7. /\ \A q \in Paths : dir'[q] # None => dir'[q][2] <= runs'[dir'[q][1]]
            /\ \A r \in Procs : pc'[r] # "idle" =>
                  file'[r] \in Files /\ file'[r] = <<r, runs'[r]>> /\ path'[r] \in Paths
        BY <2>3, <4>6, Zenon DEF PublishInv, NamesInv
      <4>8. /\ \A r \in Procs, q \in Paths : pc'[r] \in Before => dir'[q] # file'[r]
            /\ \A r \in Procs : pc'[r] \in Linked \cup Durable => dir'[path'[r]] = file'[r]
        BY <2>3, <4>5, <4>6 DEF PublishInv, NamesInv
      <4>9. \A a \in acked' : dir'[a[1]] = a[2] /\ ddir'[a[1]] = a[2]
        BY <2>3, <4>4, Zenon DEF PublishInv, NamesInv
      <4>. QED
        BY <4>2, <4>3, <4>7, <4>8, <4>9, Zenon DEF NamesInv
    <3>8. Stays
      <4>1. UNCHANGED <<dir, data, ddata, file>>
        BY <2>3
      <4>2. \A q \in Paths : ddir[q] # None => ddir'[q] = ddir[q] /\ dir[q] = ddir[q]
        <5>1. \A q \in Paths : ddir[q] # None => dir[q] = ddir[q]
          BY Zenon DEF PublishInv, NamesInv
        <5>2. dir[path[p]] = file[p]
          BY <3>1
        <5>. QED
          BY <3>6, <5>1, <5>2, Zenon
      <4>. QED
        BY <4>1, <4>2, Zenon DEF Stays
    <3>. QED
      BY <3>5, <3>7, <3>8, Zenon DEF PublishInv
  <2>. QED
    BY <1>14, <2>2, <2>3, Zenon DEF fsync_parent_directory
<1>15. ASSUME NEW p \in Procs, pc[p] \in Durable, Succeed(p) PROVE PublishInv' /\ Stays
  <2>1. /\ file[p] \in Files /\ path[p] \in Paths /\ dir[path[p]] = file[p] /\ ddir[path[p]] = file[p]
    BY <1>4, <1>15, Zenon DEF PublishInv, NamesInv, Durable
  <2>2. Moves(p, "idle") /\ pc' \in [Procs -> {"idle"} \cup Before \cup Linked \cup Durable]
    BY <1>2, <1>15, Zenon DEF Succeed
  <2>3. acked' = acked \cup {<<path[p], file[p]>>} /\ UNCHANGED <<dir, ddir, data, ddata, file, path, runs, limit>>
    BY <1>15, Zenon DEF Succeed
  <2>4. PublishTypes'
    BY <1>1, <2>1, <2>2, <2>3 DEF PublishTypes, PublishTypeOK
  <2>5. \A r \in Procs : pc'[r] # "idle" => pc'[r] = pc[r]
    BY <2>2, Zenon
  <2>6. \A a \in acked' : dir[a[1]] = a[2] /\ ddir[a[1]] = a[2]
    BY <2>1, <2>3 DEF PublishInv, NamesInv
  <2>7. NamesInv'
    <3>1. \A r \in Procs : /\ pc'[r] \in Before => pc[r] \in Before
                           /\ pc'[r] \in Linked \cup Durable => pc[r] \in Linked \cup Durable
                           /\ pc'[r] \in Durable => pc[r] \in Durable
      BY <2>5, Zenon DEF Before, Linked, Durable
    <3>. QED
      BY <2>3, <2>5, <2>6, <3>1 DEF PublishInv, NamesInv
  <2>8. Stays
    BY <2>2, <2>3 DEF Stays, PublishInv, NamesInv
  <2>. QED
    BY <2>4, <2>7, <2>8 DEF PublishInv
<1>16. ASSUME LosePower PROVE PublishInv' /\ Stays
  <2>1. PICK keep \in SUBSET {n \in Names : dir[n] # ddir[n]} :
           dir' = [n \in Names |-> IF n \in keep THEN dir[n] ELSE ddir[n]]
    BY <1>16, Zenon DEF LosePower
  <2>2. PICK hold, mix \in SUBSET {f \in Files : data[f] # ddata[f]} :
           data' = [f \in Files |-> IF f \in hold THEN data[f] ELSE IF f \in mix THEN Torn ELSE ddata[f]]
    BY <1>16, Zenon DEF LosePower
  <2>3. ddir' = dir' /\ ddata' = data' /\ UNCHANGED <<file, path, runs, limit, acked>>
        /\ \A r \in Procs : pc'[r] = "idle"
    BY <1>16, Zenon DEF LosePower
  <2>4. PublishTypes'
    <3>1. dir' \in [Names -> Files \cup {None}] /\ \A f \in Files : dir'[f] \in {f, None}
      BY <1>0, <1>1, <2>1
    <3>2. data' = [f \in Files |-> data'[f]]
      BY <2>2, Zenon
    <3>3. pc' \in [Procs -> {"idle"} \cup Before \cup Linked \cup Durable]
      BY <1>16, Zenon DEF LosePower
    <3>. QED
      BY <1>1, <2>3, <3>1, <3>2, <3>3, Zenon DEF PublishTypes, PublishTypeOK
  <2>5. \A q \in Paths : /\ dir'[q] \in {None, dir[q]}
                         /\ ddir[q] # None => dir'[q] = ddir[q] /\ dir'[q] = dir[q]
    <3>1. \A q \in Paths : dir'[q] \in {dir[q], ddir[q]}
      BY <1>0, <2>1
    <3>. QED
      BY <3>1, Zenon DEF PublishInv, NamesInv
  <2>6. \A f \in Files : data[f] = ddata[f] => data'[f] = data[f]
    BY <2>2, Zenon
  <2>7. NamesInv'
    <3>1. \A q \in Paths : dir'[q] # None => dir'[q] = dir[q]
      BY <2>5, Zenon
    <3>2. \A a \in acked : a[1] \in Paths /\ a[2] # None
      BY <1>0, <1>1
    <3>3. \A a \in acked : dir'[a[1]] = a[2]
      BY <2>5, <3>2 DEF PublishInv, NamesInv
    <3>4. "idle" \notin Before \cup Linked \cup Durable
      BY Zenon DEF Before, Linked, Durable
    <3>. QED
      BY <2>3, <3>1, <3>3, <3>4 DEF PublishInv, NamesInv
  <2>8. Stays
    <3>1. \A q \in Paths : dir[q] # None => data'[dir[q]] = data[dir[q]] /\ data'[dir[q]] = ddata[dir[q]]
      BY <1>4, <2>6, Zenon DEF WholeInv
    <3>2. \A r \in Procs : pc[r] \in {"publish", "link"} =>
             data'[file[r]] = data[file[r]] /\ data'[file[r]] = ddata[file[r]]
      BY <1>4, <2>6 DEF WholeInv
    <3>. QED
      BY <1>16, <2>3, <2>5, <3>1, <3>2, Zenon DEF Stays
  <2>. QED
    BY <2>4, <2>7, <2>8 DEF PublishInv
<1>17. ASSUME UNCHANGED publish PROVE PublishInv' /\ Stays
  <2>1. PublishInv'
    BY <1>17 DEF publish, PublishInv, PublishTypes, PublishTypeOK, NamesInv
  <2>2. Stays
    BY <1>17 DEF publish, Stays, PublishInv, NamesInv
  <2>. QED
    BY <2>1, <2>2, Zenon
<1>18. "idle" \notin Durable
  BY DEF Durable
<1>. QED
  BY Zenon, <1>3, <1>7, <1>8, <1>10, <1>11, <1>13, <1>14, <1>15, <1>16, <1>17, <1>18
     DEF PublishStep, publish_file_noreplace, Kill, Waits

-----------------------------------------------------------------------------
\* Every step of the commands, a kill and a loss of power is one of those.
LEMMA NextPublishes == ArtifactsInv /\ [Next]_vars => PublishStep
<1>. SUFFICES ASSUME [Next]_vars PROVE PublishStep
  OBVIOUS
<1>. USE ArtifactsAssumption
<1>0. Image \in Procs /\ Mbr \in Procs
  OBVIOUS
<1>1. CASE ImageNext
  <2>1. CASE \E q \in Paths : CreateStart(q)
    <3>1. "header" \in Working
      BY DEF Working, Before
    <3>. QED
      BY <1>0, <2>1, <3>1 DEF CreateStart, PublishStep
  <2>2. CASE WriteHeader \/ WriteChunk \/ WriteFooter \/ WriteComplete
    <3>1. {"header", "chunks", "footer", "complete", "flush"} \subseteq Working
      BY DEF Working, Before
    <3>2. /\ pc[Image] \in Working /\ (\E c : WriteTemp(Image, c))
          /\ \E s \in Working : Goes(Image, s)
      BY <2>2, <3>1, Zenon DEF WriteHeader, WriteChunk, WriteFooter, WriteComplete
    <3>. QED
      BY <1>0, <3>2 DEF PublishStep
  <2>3. CASE FlushImage
    <3>1. "flush" \in Working
      BY DEF Working, Before
    <3>. QED
      BY <1>0, <2>3, <3>1, Zenon DEF FlushImage, PublishStep
  <2>4. CASE CreateFails
    BY <1>0, <2>4, Zenon DEF CreateFails, PublishStep
  <2>5. CASE CreatePublishes
    <3>1. "published" \in Durable
      BY DEF Durable
    <3>. QED
      BY <1>0, <2>5, <3>1 DEF CreatePublishes, PublishStep
  <2>6. CASE \/ \E q \in Paths : RestoreStart(q)
             \/ \E f \in Files, i \in 1 .. Chunks, what \in {"record", "payload"} : Decay(f, i, what)
             \/ RestoreWrite \/ RestoreFlush \/ RestoreCheck \/ RestoreFails
    <3>1. UNCHANGED publish
      BY <2>6 DEF RestoreStart, Decay, RestoreWrite, RestoreFlush, RestoreCheck, RestoreFails
    <3>. QED
      BY <3>1, Zenon DEF PublishStep
  <2>. QED
    BY <1>1, <2>1, <2>2, <2>3, <2>4, <2>5, <2>6, Zenon DEF ImageNext
<1>2. CASE MbrNext
  <2>1. CASE \E q \in Paths, e \in Edits : ResizeStart(q, e)
    <3>1. "undo" \in Working
      BY DEF Working, Before
    <3>. QED
      BY <1>0, <2>1, <3>1 DEF ResizeStart, PublishStep
  <2>2. CASE WriteUndo \/ FlushUndo
    <3>1. "undo" \in Working /\ "flush_undo" \in Working
      BY Zenon DEF Working, Before
    <3>. QED
      BY <1>0, <2>2, <3>1, Zenon DEF WriteUndo, FlushUndo, PublishStep
  <2>3. CASE ResizeFails \/ ResizePublishes
    BY <1>0, <2>3, Zenon DEF ResizeFails, ResizePublishes, PublishStep
  <2>4. CASE WriteSector \/ FlushSector
    <3>1. "published" \in Durable /\ "flush_sector" \in Durable
      BY Zenon DEF Durable
    <3>. QED
      BY <1>0, <2>4, <3>1, Zenon DEF WriteSector, FlushSector, PublishStep, Waits
  <2>5. CASE WriteBack \/ \E q \in Paths : RestoreSector(q)
    BY <2>5, Zenon DEF WriteBack, RestoreSector, PublishStep
  <2>. QED
    BY <1>2, <2>1, <2>2, <2>3, <2>4, <2>5, Zenon DEF MbrNext
<1>3. CASE Killed \/ PowerLoss \/ UNCHANGED vars
  BY <1>3, Zenon DEF Killed, PowerLoss, vars, PublishStep
<1>. QED
  BY <1>1, <1>2, <1>3 DEF Next

\* A command does not touch the file of the other, and what was the source and
\* the first table stays that.
LEMMA Apart ==
    ASSUME ArtifactsInv
    PROVE  /\ [Next]_vars => source' = source /\ original' = original
           /\ ImageNext => /\ pc'[Mbr] = pc[Mbr] /\ file'[Mbr] = file[Mbr]
                           /\ pc[Mbr] # "idle" => data'[file[Mbr]] = data[file[Mbr]]
           /\ MbrNext => /\ pc'[Image] = pc[Image] /\ file'[Image] = file[Image]
                         /\ pc[Image] # "idle" => data'[file[Image]] = data[file[Image]]
<1>. USE ArtifactsAssumption
<1>1. /\ pc \in [Procs -> {"idle"} \cup Before \cup Linked \cup Durable]
      /\ file \in [Procs -> Files \cup {None}]
      /\ data = [f \in Files |-> data[f]]
      /\ \A p \in Procs : pc[p] # "idle" => file[p] \in Files /\ file[p][1] = p
  BY DEF ArtifactsInv, PublishInv, PublishTypes, PublishTypeOK, NamesInv
<1>2. ASSUME NEW p \in Procs, NEW r \in Procs, p # r,
             \/ \E q \in Paths, s \in Working : CreateTemp(p, q) /\ Goes(p, s)
             \/ \E s : Goes(p, s) /\ UNCHANGED <<file, data>>
             \/ pc[p] # "idle" /\ \E s, c : Goes(p, s) /\ WriteTemp(p, c)
             \/ UNCHANGED publish
      PROVE  /\ pc'[r] = pc[r] /\ file'[r] = file[r]
             /\ pc[r] # "idle" => data'[file[r]] = data[file[r]]
  <2>1. pc'[r] = pc[r]
    BY <1>1, <1>2 DEF Goes, publish
  <2>2. file'[r] = file[r]
    BY <1>1, <1>2 DEF CreateTemp, WriteTemp, publish
  <2>3. pc[r] # "idle" => data'[file[r]] = data[file[r]]
    <3>1. CASE pc[p] # "idle" /\ \E c : data' = [data EXCEPT ![file[p]] = c]
      BY <1>1, <1>2, <3>1
    <3>2. CASE data' = data
      BY <3>2, Zenon
    <3>. QED
      BY <1>2, <3>1, <3>2, Zenon DEF CreateTemp, WriteTemp, publish
  <2>. QED
    BY <2>1, <2>2, <2>3, Zenon
<1>3. ASSUME NEW p \in Procs, publish_file_noreplace(p) \/ Fail(p) \/ Succeed(p)
      PROVE  (\E s : Goes(p, s)) /\ UNCHANGED <<file, data>>
  BY <1>3 DEF publish_file_noreplace, TryRename, Link, Unlink, fsync_parent_directory, Fail, Succeed
<1>. USE DEF imageVars, mbrVars, restoreVars
<1>0. Image \in Procs /\ Mbr \in Procs /\ Image # Mbr
  BY Zenon
<1>4. ASSUME ImageNext
      PROVE  /\ source' = source
             /\ pc'[Mbr] = pc[Mbr] /\ file'[Mbr] = file[Mbr]
             /\ pc[Mbr] # "idle" => data'[file[Mbr]] = data[file[Mbr]]
  <2>2. source' = source
    <3>1. CASE \E q \in Paths : CreateStart(q) \/ RestoreStart(q)
      BY <3>1, Zenon DEF CreateStart, RestoreStart
    <3>2. CASE WriteHeader \/ WriteChunk \/ WriteFooter \/ WriteComplete \/ FlushImage \/ CreateFails \/ CreatePublishes
      BY <3>2, Zenon DEF WriteHeader, WriteChunk, WriteFooter, WriteComplete, FlushImage, CreateFails, CreatePublishes
    <3>3. CASE \/ \E f \in Files, i \in 1 .. Chunks, what \in {"record", "payload"} : Decay(f, i, what)
               \/ RestoreWrite \/ RestoreFlush \/ RestoreCheck \/ RestoreFails
      BY <3>3, Zenon DEF Decay, RestoreWrite, RestoreFlush, RestoreCheck, RestoreFails
    <3>. QED
      BY <1>4, <3>1, <3>2, <3>3, Zenon DEF ImageNext
  <2>3. \/ \E q \in Paths, s \in Working : CreateTemp(Image, q) /\ Goes(Image, s)
        \/ \E s : Goes(Image, s) /\ UNCHANGED <<file, data>>
        \/ pc[Image] # "idle" /\ \E s, c : Goes(Image, s) /\ WriteTemp(Image, c)
        \/ UNCHANGED publish
    <3>1. CASE \E q \in Paths : CreateStart(q)
      BY <3>1 DEF CreateStart, Working, Before
    <3>2. CASE WriteHeader \/ WriteChunk \/ WriteFooter \/ WriteComplete
      BY <3>2, Zenon DEF WriteHeader, WriteChunk, WriteFooter, WriteComplete
    <3>3. CASE FlushImage \/ CreateFails \/ CreatePublishes
      BY <1>3, <3>3, Zenon DEF FlushImage, FlushTemp, CreateFails, CreatePublishes
    <3>4. CASE \/ \E q \in Paths : RestoreStart(q)
               \/ \E f \in Files, i \in 1 .. Chunks, what \in {"record", "payload"} : Decay(f, i, what)
               \/ RestoreWrite \/ RestoreFlush \/ RestoreCheck \/ RestoreFails
      BY <3>4, Zenon DEF RestoreStart, Decay, RestoreWrite, RestoreFlush, RestoreCheck, RestoreFails
    <3>. QED
      BY <1>4, <3>1, <3>2, <3>3, <3>4, Zenon DEF ImageNext
  <2>. QED
    BY <1>0, <1>2, <2>2, <2>3, Zenon
<1>5. ASSUME MbrNext
      PROVE  /\ original' = original
             /\ pc'[Image] = pc[Image] /\ file'[Image] = file[Image]
             /\ pc[Image] # "idle" => data'[file[Image]] = data[file[Image]]
  <2>1. \/ \E q \in Paths, s \in Working : CreateTemp(Mbr, q) /\ Goes(Mbr, s)
        \/ \E s : Goes(Mbr, s) /\ UNCHANGED <<file, data>>
        \/ pc[Mbr] # "idle" /\ \E s, c : Goes(Mbr, s) /\ WriteTemp(Mbr, c)
        \/ UNCHANGED publish
    <3>1. CASE \E q \in Paths, e \in Edits : ResizeStart(q, e)
      BY <3>1, Zenon DEF ResizeStart, Working, Before
    <3>2. CASE WriteUndo
      BY <3>2, Zenon DEF WriteUndo
    <3>3. CASE FlushUndo \/ ResizeFails \/ ResizePublishes \/ WriteSector \/ FlushSector
      BY <1>3, <3>3, Zenon DEF FlushUndo, FlushTemp, ResizeFails, ResizePublishes, WriteSector, FlushSector
    <3>4. CASE WriteBack \/ \E q \in Paths : RestoreSector(q)
      BY <3>4 DEF WriteBack, RestoreSector
    <3>. QED
      BY <1>5, <3>1, <3>2, <3>3, <3>4, Zenon DEF MbrNext
  <2>2. original' = original
    BY <1>5, ZenonT(30) DEF MbrNext, ResizeStart, WriteUndo, FlushUndo, ResizeFails, ResizePublishes, WriteSector,
                FlushSector, WriteBack, RestoreSector
  <2>. QED
    BY <1>0, <1>2, <2>1, <2>2, Zenon
<1>6. [Next]_vars => source' = source /\ original' = original
  BY <1>4, <1>5, Zenon DEF Next, vars, Killed, PowerLoss, ImageLosePower, MbrLosePower
<1>. QED
  BY <1>4, <1>5, <1>6, Zenon

\* What has a name, or is about to get one, stays whole.
LEMMA WholeKeeps ==
    ASSUME ArtifactsInv, [Next]_vars
    PROVE  WholeInv'
<1>. USE ArtifactsAssumption
<1>1. PublishInv' /\ Stays /\ source' = source
  BY PublishKeeps, NextPublishes, Apart, Zenon DEF ArtifactsInv
<1>2. ASSUME NEW f, NEW c PROVE Whole(f, c)' = Whole(f, c)
  BY <1>1, Zenon DEF Whole
<1>3. ASSUME NEW q \in Paths, dir'[q] # None
      PROVE  ddata'[dir'[q]] = data'[dir'[q]] /\ Whole(dir'[q], data'[dir'[q]])
  BY <1>1, <1>3 DEF Stays, ArtifactsInv, WholeInv
<1>4. ASSUME NEW p \in Procs, pc'[p] \in {"publish", "link"}, pc[p] \notin {"publish", "link"}
      PROVE  ddata'[file'[p]] = data'[file'[p]] /\ Whole(file'[p], data'[file'[p]])
  <2>0. /\ pc \in [Procs -> {"idle"} \cup Before \cup Linked \cup Durable]
        /\ file[p] \in Files \cup {None}
        /\ pc[p] # "idle" => file[p] \in Files /\ file[p][1] = p
        /\ data = [f \in Files |-> data[f]] /\ ddata = [f \in Files |-> ddata[f]]
    BY DEF ArtifactsInv, PublishInv, PublishTypes, PublishTypeOK, NamesInv
  <2>1. CASE ImageNext /\ p = Image
    <3>1. FlushImage
      <4>1. ASSUME NEW s, Goes(Image, s) PROVE pc'[Image] = s
        BY <2>0, <4>1, Zenon DEF Goes
      <4>2. ~\E q \in Paths : CreateStart(q) \/ RestoreStart(q)
        BY <1>4, <2>1, <4>1 DEF CreateStart, RestoreStart, publish
      <4>3. ~WriteHeader /\ ~WriteChunk /\ ~WriteFooter /\ ~WriteComplete
        BY <1>4, <2>1, <4>1, Zenon DEF WriteHeader, WriteChunk, WriteFooter, WriteComplete
      <4>4. ~CreateFails /\ ~CreatePublishes
        BY <1>4, <2>1, <4>1 DEF CreateFails, CreatePublishes, publish_file_noreplace, TryRename, Link, Unlink,
                                fsync_parent_directory, Fail, Succeed, AfterSync
      <4>5. ~RestoreWrite /\ ~RestoreFlush /\ ~RestoreCheck /\ ~RestoreFails
        BY <1>4, <2>1, Zenon DEF RestoreWrite, RestoreFlush, RestoreCheck, RestoreFails, publish
      <4>6. ~\E f \in Files, i \in 1 .. Chunks, what \in {"record", "payload"} : Decay(f, i, what)
        BY <1>4, <2>1, Zenon DEF Decay, publish
      <4>. QED
        BY <2>1, <4>2, <4>3, <4>4, <4>5, <4>6, Zenon DEF ImageNext
    <3>2. data[file[Image]] = AllOf /\ source \in Sources
      BY <3>1 DEF FlushImage, ArtifactsInv, CreateInv, RestoreInv, Content
    <3>3. AllOf \notin {Torn, Empty}
      <4>1. \A n \in 0 .. Chunks, c, d \in BOOLEAN :
               [complete |-> c, records |-> [i \in 1 .. n |-> source[i]], footer |-> d] \notin {Torn, Empty}
        BY <3>2, Zenon
      <4>2. Chunks \in 0 .. Chunks
        OBVIOUS
      <4>. QED
        BY <4>1, <4>2, Zenon DEF AllOf
    <3>4. data' = data /\ file' = file /\ ddata' = [ddata EXCEPT ![file[Image]] = data[file[Image]]]
      BY <3>1, Zenon DEF FlushImage, FlushTemp
    <3>5. file[Image] \in Files
      BY <2>0, <2>1, <3>1, Zenon DEF FlushImage
    <3>6. ddata'[file[Image]] = data[file[Image]]
      BY <2>0, <3>4, <3>5, Zenon
    <3>. QED
      BY <2>1, <3>2, <3>3, <3>4, <3>6, Zenon DEF Whole, AllOf
  <2>2. CASE MbrNext /\ p = Mbr
    <3>1. FlushUndo
      <4>1. ASSUME NEW s, Goes(Mbr, s) PROVE pc'[Mbr] = s
        BY <2>0, <4>1 DEF Goes
      <4>2. ~\E q \in Paths, e \in Edits : ResizeStart(q, e)
        BY <1>4, <2>2, <4>1, Zenon DEF ResizeStart
      <4>3. ~WriteUndo /\ ~WriteSector /\ ~FlushSector
        BY <1>4, <2>2, <4>1, Zenon DEF WriteUndo, WriteSector, FlushSector, Succeed
      <4>4. ~ResizeFails /\ ~ResizePublishes
        BY <1>4, <2>2, <4>1 DEF ResizeFails, ResizePublishes, publish_file_noreplace, TryRename, Link, Unlink,
                                fsync_parent_directory, Fail, AfterSync
      <4>5. ~WriteBack /\ ~\E q \in Paths : RestoreSector(q)
        BY <1>4, <2>2, Zenon DEF WriteBack, RestoreSector, publish
      <4>. QED
        BY <2>2, <4>2, <4>3, <4>4, <4>5, Zenon DEF MbrNext
    <3>2. data[file[Mbr]] \in Sectors
      BY <3>1 DEF FlushUndo, ArtifactsInv, MbrInv
    <3>4. data' = data /\ file' = file /\ ddata' = [ddata EXCEPT ![file[Mbr]] = data[file[Mbr]]]
      BY <3>1 DEF FlushUndo, FlushTemp
    <3>5. file[Mbr] \in Files /\ file[Mbr][1] # Image
      BY <2>0, <2>2, <3>1, Zenon DEF FlushUndo
    <3>6. ddata'[file[Mbr]] = data[file[Mbr]]
      BY <2>0, <3>4, <3>5, Zenon
    <3>. QED
      BY <2>2, <3>2, <3>4, <3>5, <3>6, Zenon DEF Whole
  <2>3. CASE Killed \/ PowerLoss \/ UNCHANGED vars
    BY <1>4, <2>0, <2>3, Zenon DEF Killed, Kill, Goes, PowerLoss, LosePower, vars, publish
  <2>. QED
    BY <1>4, <2>1, <2>2, <2>3, Apart, Zenon DEF Next
<1>5. ASSUME NEW p \in Procs, pc'[p] \in {"publish", "link"}
      PROVE  ddata'[file'[p]] = data'[file'[p]] /\ Whole(file'[p], data'[file'[p]])
  BY <1>1, <1>4, <1>5 DEF Stays, ArtifactsInv, WholeInv
<1>. QED
  BY <1>1, <1>3, <1>5 DEF WholeInv, Whole

\* Create writes the image in order: the records of the source, the footer, and
\* then the completion bit.
LEMMA CreateKeeps ==
    ASSUME ArtifactsInv, [Next]_vars
    PROVE  CreateInv'
<1>. USE ArtifactsAssumption
<1>0. /\ pc \in [Procs -> {"idle"} \cup Before \cup Linked \cup Durable]
      /\ data = [f \in Files |-> data[f]]
      /\ file[Image] \in Files \cup {None}
      /\ pc[Image] # "idle" => file[Image] \in Files
      /\ source' = source /\ source \in Sources /\ CreateInv
  BY Apart, ZenonT(30) DEF ArtifactsInv, PublishInv, PublishTypes, PublishTypeOK, NamesInv, RestoreInv
<1>. DEFINE Early == {"chunks", "footer", "complete", "flush"}
<1>1. ASSUME NEW s, Goes(Image, s) PROVE pc'[Image] = s
  BY <1>0, <1>1 DEF Goes
<1>2. ASSUME NEW c, pc[Image] # "idle", WriteTemp(Image, c) PROVE Content' = c
  BY <1>0, <1>2 DEF WriteTemp, Content
<1>3. CASE pc'[Image] \notin Early
  BY <1>3, Zenon DEF CreateInv
<1>4. CASE pc'[Image] = pc[Image] /\ file'[Image] = file[Image]
           /\ (pc[Image] # "idle" => data'[file[Image]] = data[file[Image]])
  <2>1. AllOf' = AllOf
    BY <1>0 DEF AllOf
  <2>2. pc[Image] # "idle" => Content' = Content
    BY <1>4, Zenon DEF Content
  <2>3. /\ \A n \in 0 .. Chunks - 1 : Partly(n, FALSE)' = Partly(n, FALSE)
        /\ Partly(Chunks, FALSE)' = Partly(Chunks, FALSE) /\ Partly(Chunks, TRUE)' = Partly(Chunks, TRUE)
    BY <1>0 DEF Partly
  <2>. QED
    BY <1>0, <1>4, <2>1, <2>2, <2>3, Zenon DEF CreateInv
<1>5. CASE WriteHeader
  <2>1. Content' = [complete |-> FALSE, records |-> <<>>, footer |-> FALSE] /\ pc'[Image] = "chunks"
    BY <1>1, <1>2, <1>5, Zenon DEF WriteHeader
  <2>2. Content' = Partly(0, FALSE)'
    <3>1. [i \in 1 .. 0 |-> source[i]] = << >>
      OBVIOUS
    <3>. QED
      BY <1>0, <2>1, <3>1, Zenon DEF Partly
  <2>3. 0 \in 0 .. Chunks - 1
    OBVIOUS
  <2>. QED
    BY <2>1, <2>2, <2>3, Zenon DEF CreateInv
<1>6. CASE WriteChunk
  <2>1. PICK n \in 0 .. Chunks - 1 : Content = Partly(n, FALSE)
    BY <1>0, <1>6, Zenon DEF WriteChunk, CreateInv
  <2>2. /\ Content' = [Content EXCEPT !.records = Append(@, source[Len(@) + 1])]
        /\ pc'[Image] = IF Len(Content.records) + 1 = Chunks THEN "footer" ELSE "chunks"
    BY <1>1, <1>2, <1>6, Zenon DEF WriteChunk
  <2>. DEFINE sq == [i \in 1 .. n |-> source[i]]
  <2>3. Len(sq) = n /\ Append(sq, source[n + 1]) = [i \in 1 .. n + 1 |-> source[i]]
    OBVIOUS
  <2>4. Content.records = sq
    BY <2>1 DEF Partly
  <2>5. Content' = [complete |-> FALSE, records |-> Append(sq, source[n + 1]), footer |-> FALSE]
    <3>. HIDE DEF sq
    <3>1. Content = [complete |-> FALSE, records |-> sq, footer |-> FALSE]
      BY <2>1 DEF Partly, sq
    <3>. QED
      BY <2>2, <2>3, <3>1, Zenon
  <2>6. Content' = Partly(n + 1, FALSE)'
    BY <1>0, <2>3, <2>5, Zenon DEF Partly
  <2>7. pc'[Image] = IF n + 1 = Chunks THEN "footer" ELSE "chunks"
    BY <2>2, <2>3, <2>4, Zenon
  <2>8. CASE n + 1 = Chunks
    BY <2>6, <2>7, <2>8, Zenon DEF CreateInv, Partly
  <2>9. CASE n + 1 # Chunks
    <3>1. n + 1 \in 0 .. Chunks - 1
      BY <2>9
    <3>. QED
      BY <2>6, <2>7, <2>9, <3>1, Zenon DEF CreateInv
  <2>. QED
    BY <2>8, <2>9
<1>7. CASE WriteFooter
  <2>1. Content' = [Content EXCEPT !.footer = TRUE] /\ pc'[Image] = "complete" /\ Content = Partly(Chunks, FALSE)
    BY <1>0, <1>1, <1>2, <1>7, Zenon DEF WriteFooter, CreateInv
  <2>. QED
    BY <1>0, <2>1, Zenon DEF CreateInv, Partly
<1>8. CASE WriteComplete
  <2>1. Content' = [Content EXCEPT !.complete = TRUE] /\ pc'[Image] = "flush" /\ Content = Partly(Chunks, TRUE)
    BY <1>0, <1>1, <1>2, <1>8, Zenon DEF WriteComplete, CreateInv
  <2>. QED
    BY <1>0, <2>1, Zenon DEF CreateInv, Partly, AllOf
<1>9. CASE \E q \in Paths : CreateStart(q)
  BY <1>1, <1>3, <1>9, Zenon DEF CreateStart
<1>10. CASE FlushImage \/ CreateFails \/ CreatePublishes
  <2>1. CASE FlushImage \/ CreateFails
    BY <1>1, <1>3, <2>1, Zenon DEF FlushImage, CreateFails, Fail
  <2>2. CASE pc[Image] = "published" /\ Succeed(Image)
    BY <1>1, <1>3, <2>2, Zenon DEF Succeed
  <2>3. CASE TryRename(Image) \/ Link(Image) \/ Unlink(Image)
    BY <1>1, <1>3, <2>3, Zenon DEF TryRename, Link, Unlink, Fail
  <2>4. CASE fsync_parent_directory(Image)
    BY <1>1, <1>3, <2>4 DEF fsync_parent_directory, Fail, AfterSync
  <2>. QED
    BY <1>10, <2>1, <2>2, <2>3, <2>4, Zenon DEF CreatePublishes, publish_file_noreplace
<1>11. CASE \/ \E q \in Paths : RestoreStart(q)
            \/ \E f \in Files, i \in 1 .. Chunks, what \in {"record", "payload"} : Decay(f, i, what)
            \/ RestoreWrite \/ RestoreFlush \/ RestoreCheck \/ RestoreFails
  BY <1>4, <1>11, Zenon DEF RestoreStart, Decay, RestoreWrite, RestoreFlush, RestoreCheck, RestoreFails, publish
<1>12. CASE MbrNext
  BY <1>4, <1>12, Apart, Zenon
<1>13. CASE Killed \/ PowerLoss \/ UNCHANGED vars
  <2>1. CASE Killed
    BY <1>0, <1>3, <1>4, <2>1, Zenon DEF Killed, Kill, Goes
  <2>2. CASE PowerLoss
    BY <1>3, <2>2, Zenon DEF PowerLoss, LosePower
  <2>3. CASE UNCHANGED vars
    BY <1>4, <2>3, Zenon DEF vars, publish
  <2>. QED
    BY <1>13, <2>1, <2>2, <2>3, Zenon
<1>. QED
  BY <1>5, <1>6, <1>7, <1>8, <1>9, <1>10, <1>11, <1>12, <1>13, Zenon DEF Next, ImageNext

\* A path loses its file only with the power: no command replaces what is there.
LEMMA NamesStay ==
    ASSUME ArtifactsInv, ImageNext \/ MbrNext \/ Killed \/ UNCHANGED vars
    PROVE  \A q \in Paths : dir[q] # None => dir'[q] = dir[q]
<1>. USE ArtifactsAssumption
<1>0. /\ dir \in [Names -> Files \cup {None}]
      /\ runs \in [Procs -> 0 .. MaxAttempts] /\ limit \in [Procs -> 0 .. MaxAttempts]
      /\ \A p \in Procs : pc[p] # "idle" => file[p] \in Files /\ path[p] \in Paths
      /\ \A q \in Paths : q \in Names /\ q \notin Files
  BY Zenon DEF ArtifactsInv, PublishInv, PublishTypes, PublishTypeOK, NamesInv, Names
<1>1. ASSUME NEW p \in Procs,
             \/ dir' = dir
             \/ \E q \in Paths : CreateTemp(p, q)
             \/ pc[p] # "idle" /\ Fail(p)
             \/ publish_file_noreplace(p)
      PROVE  \A q \in Paths : dir[q] # None => dir'[q] = dir[q]
  <2>1. CASE dir' = dir
    BY <2>1, Zenon
  <2>2. CASE \E q \in Paths : CreateTemp(p, q)
    <3>1. runs[p] + 1 \in 1 .. MaxAttempts /\ dir' = [dir EXCEPT ![<<p, runs[p] + 1>>] = <<p, runs[p] + 1>>]
      BY <1>0, <2>2 DEF CreateTemp
    <3>2. <<p, runs[p] + 1>> \in Files
      BY <3>1, Zenon DEF Files
    <3>. QED
      BY <1>0, <3>1, <3>2, Zenon
  <2>3. CASE pc[p] # "idle" /\ Fail(p)
    BY <1>0, <2>3 DEF Fail
  <2>4. CASE publish_file_noreplace(p)
    <3>1. pc[p] # "idle"
      BY <2>4, Zenon DEF publish_file_noreplace, TryRename, Link, Unlink, fsync_parent_directory, AfterSync
    <3>2. \/ dir' = dir \/ dir' = [dir EXCEPT ![file[p]] = None]
          \/ dir[path[p]] = None /\ dir' = [dir EXCEPT ![path[p]] = file[p], ![file[p]] = None]
          \/ dir[path[p]] = None /\ dir' = [dir EXCEPT ![path[p]] = file[p]]
      BY <2>4, Zenon DEF publish_file_noreplace, TryRename, Link, Unlink, fsync_parent_directory, Fail
    <3>. QED
      BY <1>0, <3>1, <3>2
  <2>. QED
    BY <1>1, <2>1, <2>2, <2>3, <2>4, Zenon
<1>2. CASE ImageNext
  <2>1. Image \in Procs
    BY Zenon
  <2>2. \/ dir' = dir
        \/ \E q \in Paths : CreateTemp(Image, q)
        \/ pc[Image] # "idle" /\ Fail(Image)
        \/ publish_file_noreplace(Image)
    <3>1. CASE \E q \in Paths : CreateStart(q)
      BY <3>1 DEF CreateStart
    <3>2. CASE WriteHeader \/ WriteChunk \/ WriteFooter \/ WriteComplete
      BY <3>2, Zenon DEF WriteHeader, WriteChunk, WriteFooter, WriteComplete, WriteTemp
    <3>3. CASE FlushImage \/ CreateFails \/ CreatePublishes
      BY <3>3, Zenon DEF FlushImage, FlushTemp, CreateFails, CreatePublishes, Succeed
    <3>4. CASE \/ \E q \in Paths : RestoreStart(q)
               \/ \E f \in Files, i \in 1 .. Chunks, what \in {"record", "payload"} : Decay(f, i, what)
               \/ RestoreWrite \/ RestoreFlush \/ RestoreCheck \/ RestoreFails
      BY <3>4, Zenon DEF RestoreStart, Decay, RestoreWrite, RestoreFlush, RestoreCheck, RestoreFails, publish
    <3>. QED
      BY <1>2, <3>1, <3>2, <3>3, <3>4, Zenon DEF ImageNext
  <2>. QED
    BY <1>1, <2>1, <2>2, Zenon
<1>3. CASE MbrNext
  <2>1. Mbr \in Procs
    BY Zenon
  <2>2. \/ dir' = dir
        \/ \E q \in Paths : CreateTemp(Mbr, q)
        \/ pc[Mbr] # "idle" /\ Fail(Mbr)
        \/ publish_file_noreplace(Mbr)
    <3>1. CASE \E q \in Paths, e \in Edits : ResizeStart(q, e)
      BY <3>1, Zenon DEF ResizeStart
    <3>2. CASE WriteUndo \/ FlushUndo \/ ResizeFails \/ ResizePublishes
      BY <3>2, Zenon DEF WriteUndo, WriteTemp, FlushUndo, FlushTemp, ResizeFails, ResizePublishes
    <3>3. CASE WriteSector \/ FlushSector \/ WriteBack \/ \E q \in Paths : RestoreSector(q)
      BY <3>3, Zenon DEF WriteSector, FlushSector, Succeed, WriteBack, RestoreSector, publish
    <3>. QED
      BY <1>3, <3>1, <3>2, <3>3, Zenon DEF MbrNext
  <2>. QED
    BY <1>1, <2>1, <2>2, Zenon
<1>4. CASE Killed \/ UNCHANGED vars
  BY <1>4, Zenon DEF Killed, Kill, vars, publish
<1>. QED
  BY <1>2, <1>3, <1>4, Zenon

\* What a published image holds is the source, and a restore does not lose it.
LEMMA RestoreKeeps ==
    ASSUME ArtifactsInv, [Next]_vars
    PROVE  RestoreInv'
<1>. USE ArtifactsAssumption
<1>0. /\ source' = source /\ RestoreInv /\ ImageTypeOK
      /\ \A i \in 1 .. Chunks : target[i] \in {Old, Bad, source[i]}
      /\ \A i \in 1 .. Chunks : dtarget[i] \in {Old, Bad, source[i]}
  BY Apart, Zenon DEF ArtifactsInv, RestoreInv
<1>. DEFINE Reads == \E q \in Paths : from = dir[q] /\ Published(q)
<1>1. ASSUME Reads
      PROVE  \A i \in 1 .. Chunks : data[from].records[i] = source[i]
  <2>1. PICK q \in Paths : from = dir[q] /\ Published(q)
    BY <1>1, Zenon
  <2>2. data[from] = [complete |-> TRUE, records |-> [i \in 1 .. Chunks |-> source[i]], footer |-> TRUE]
    BY <2>1, Zenon DEF ArtifactsInv, WholeInv, Whole, Published
  <2>3. data[from].records = [i \in 1 .. Chunks |-> source[i]]
    BY <2>2
  <2>. QED
    BY <2>3, Zenon
<1>2. ASSUME ImageNext \/ MbrNext \/ Killed \/ UNCHANGED vars
      PROVE  \A q \in Paths : Published(q) => dir'[q] = dir[q] /\ Published(q)'
  BY <1>2, NamesStay DEF Published
<1>3. CASE (ImageNext \/ MbrNext \/ Killed \/ UNCHANGED vars) /\ UNCHANGED restoreVars
  BY <1>0, <1>2, <1>3, Zenon DEF RestoreInv, ImageTypeOK, restoreVars, disk, Passed
<1>4. CASE ImageNext
  <2>1. CASE \E q \in Paths : RestoreStart(q)
    <3>1. PICK q \in Paths : RestoreStart(q)
      BY <2>1, Zenon
    <3>2. Published(q)' /\ from' = dir'[q] /\ from' \in Files
      BY <1>2, <1>4, <3>1, Zenon DEF RestoreStart, Published, ArtifactsInv, PublishInv, PublishTypes, PublishTypeOK, Names
    <3>. QED
      <4>1. /\ restoring' = "write" /\ at' = 1 /\ UNCHANGED <<source, target, dtarget, tdirty, uncached>>
        BY <3>1, Zenon DEF RestoreStart, disk
      <4>2. 1 \in 1 .. Chunks /\ 1 \in 0 .. Chunks + 1
        OBVIOUS
      <4>. QED
        BY <1>0, <3>2, <4>1, <4>2, Zenon DEF RestoreInv, ImageTypeOK
  <2>2. ASSUME restoring \in {"write", "footer", "check"}, UNCHANGED <<publish, from>>
        PROVE  /\ \E q \in Paths : from' = dir'[q] /\ Published(q)'
               /\ from' \in Files \cup {None}
    BY <1>0, <2>2, Zenon DEF RestoreInv, ImageTypeOK, Published, publish
  <2>3. CASE RestoreWrite
    <3>1. restoring = "write" /\ UNCHANGED <<publish, source, from>> /\ at \in 1 .. Chunks /\ Reads
      BY <1>0, <2>3, Zenon DEF RestoreWrite, RestoreReturns, RestoreInv
    <3>2. CASE RestoreReturns("error")
      BY <1>0, <2>2, <3>1, <3>2, Zenon DEF RestoreReturns, RestoreInv, ImageTypeOK, disk
    <3>3. CASE /\ target' = [target EXCEPT ![at] = data[from].records[at]]
               /\ UNCHANGED <<dtarget, uncached>>
               /\ tdirty' = tdirty \cup {at}
               /\ at' = at + 1
               /\ restoring' = IF at = Chunks THEN "footer" ELSE "write"
      <4>1. target' = [target EXCEPT ![at] = source[at]]
        BY <1>1, <3>1, <3>3, Zenon
      <4>2. /\ target' = [i \in 1 .. Chunks |-> target'[i]]
            /\ \A i \in 1 .. Chunks : target'[i] \in {Old, Bad, source[i]}
        <5>1. target = [i \in 1 .. Chunks |-> target[i]]
          BY <1>0, Zenon DEF RestoreInv
        <5>. QED
          BY <1>0, <3>1, <4>1, <5>1, Zenon
      <4>3. tdirty' \subseteq 1 .. Chunks /\ at' \in 0 .. Chunks + 1 /\ (at # Chunks => at' \in 1 .. Chunks)
        BY <1>0, <3>1, <3>3 DEF ImageTypeOK
      <4>. QED
        BY <1>0, <2>2, <3>1, <3>3, <4>2, <4>3, Zenon DEF RestoreInv, ImageTypeOK
    <3>. QED
      BY <2>3, <3>2, <3>3, Zenon DEF RestoreWrite
  <2>4. CASE RestoreFlush
    <3>1. restoring = "footer" /\ UNCHANGED <<publish, source, from, target>>
      BY <2>4, Zenon DEF RestoreFlush, RestoreReturns, disk
    <3>2. CASE RestoreReturns("error")
      BY <1>0, <2>2, <3>1, <3>2, Zenon DEF RestoreReturns, RestoreInv, ImageTypeOK, disk
    <3>3. CASE /\ \E spoilt \in SUBSET (1 .. Chunks) : \E gone \in SUBSET spoilt : FlushTarget(spoilt, gone)
               /\ restoring' = "check" /\ at' = 1
      <4>1. PICK spoilt \in SUBSET (1 .. Chunks) : \E gone \in SUBSET spoilt : FlushTarget(spoilt, gone)
        BY <3>3, Zenon
      <4>2. PICK gone \in SUBSET spoilt : FlushTarget(spoilt, gone)
        BY <4>1, Zenon
      <4>3. /\ dtarget' = [i \in 1 .. Chunks |-> IF i \in spoilt THEN Bad ELSE target[i]]
            /\ uncached' \subseteq 1 .. Chunks /\ tdirty' = {}
        BY <4>1, <4>2, Zenon DEF FlushTarget
      <4>4. \A i \in 1 .. Chunks : dtarget'[i] \in {target[i], Bad}
        BY <4>3, Zenon
      <4>5. \A i \in 1 .. Chunks : dtarget'[i] \in {Old, Bad, source[i]}
        BY <1>0, <4>4, Zenon
      <4>6. 1 \in 1 .. Chunks /\ 1 \in 0 .. Chunks + 1 /\ \A i \in 1 .. 1 - 1 : FALSE
        OBVIOUS
      <4>7. \A i \in 1 .. at' - 1 : Passed(i)'
        BY <3>3, <4>6, Zenon
      <4>8. ImageTypeOK'
        BY <2>2, <3>1, <3>3, <4>3, <4>6, Zenon DEF ImageTypeOK
      <4>9. /\ source' \in Sources /\ target' = [i \in 1 .. Chunks |-> target'[i]]
            /\ \A i \in 1 .. Chunks : target'[i] \in {Old, Bad, source'[i]}
        BY <1>0, <3>1, Zenon DEF RestoreInv
      <4>10. /\ \A i \in 1 .. Chunks : dtarget'[i] \in {Old, Bad, source'[i]}
             /\ \A i \in 1 .. Chunks : dtarget'[i] \in {target'[i], Bad}
        BY <1>0, <3>1, <4>4, <4>5, Zenon
      <4>11. restoring' = "check" /\ at' \in 1 .. Chunks
        BY <3>3, <4>6, Zenon
      <4>12. \E q \in Paths : from' = dir'[q] /\ Published(q)'
        BY <2>2, <3>1, Zenon
      <4>. QED
        BY <4>3, <4>7, <4>8, <4>9, <4>10, <4>11, <4>12, Zenon DEF RestoreInv
    <3>. QED
      BY <2>4, <3>2, <3>3, Zenon DEF RestoreFlush
  <2>5. CASE RestoreCheck
    <3>1. /\ restoring = "check" /\ at \in 1 .. Chunks /\ Reads
          /\ UNCHANGED <<publish, source, from, target, dtarget, tdirty, uncached>>
      BY <1>0, <2>5, Zenon DEF RestoreCheck, RestoreReturns, RestoreInv, disk
    <3>2. CASE RestoreReturns("error")
      BY <1>0, <2>2, <3>1, <3>2, Zenon DEF RestoreReturns, RestoreInv, ImageTypeOK
    <3>3. CASE /\ ReadBack(at) = data[from].records[at]
               /\ at' = at + 1
               /\ restoring' = IF at = Chunks THEN "ok" ELSE "check"
      <4>1. tdirty = {} /\ \A i \in 1 .. at : Passed(i)
        <5>1. tdirty = {} /\ \A i \in 1 .. at - 1 : Passed(i)
          BY <1>0, <3>1, Zenon DEF RestoreInv
        <5>2. Passed(at)
          <6>1. ReadBack(at) = source[at]
            BY <1>1, <3>1, <3>3, Zenon
          <6>2. dtarget[at] \in {target[at], Bad}
            BY <1>0, <3>1, Zenon DEF RestoreInv
          <6>. QED
            BY <6>1, <6>2, Zenon DEF ReadBack, Passed
        <5>3. \A i \in 1 .. at : i \in 1 .. at - 1 \/ i = at
          BY <3>1
        <5>. QED
          BY <5>1, <5>2, <5>3, Zenon
      <4>2. at' \in 0 .. Chunks + 1 /\ (at # Chunks => at' \in 1 .. Chunks) /\ at' - 1 = at
        BY <3>1, <3>3
      <4>3. tdirty' = {} /\ \A i \in 1 .. at' - 1 : Passed(i)'
        BY <1>0, <3>1, <4>1, <4>2, Zenon DEF Passed
      <4>4. /\ ImageTypeOK' /\ source' \in Sources
            /\ target' = [i \in 1 .. Chunks |-> target'[i]]
            /\ \A i \in 1 .. Chunks : target'[i] \in {Old, Bad, source'[i]}
            /\ \A i \in 1 .. Chunks : dtarget'[i] \in {Old, Bad, source'[i]}
            /\ \A i \in 1 .. Chunks : dtarget'[i] \in {target'[i], Bad}
        BY <1>0, <2>2, <3>1, <3>3, <4>2, Zenon DEF RestoreInv, ImageTypeOK
      <4>5. \E q \in Paths : from' = dir'[q] /\ Published(q)'
        BY <2>2, <3>1, Zenon
      <4>6. CASE at = Chunks
        <5>1. restoring' = "ok" /\ \A i \in 1 .. Chunks : Passed(i)'
          BY <3>3, <4>2, <4>3, <4>6, Zenon
        <5>. QED
          BY <4>3, <4>4, <5>1, Zenon DEF RestoreInv
      <4>7. CASE at # Chunks
        BY <3>3, <4>2, <4>3, <4>4, <4>5, <4>7, Zenon DEF RestoreInv
      <4>. QED
        BY <4>6, <4>7, Zenon
    <3>. QED
      BY <2>5, <3>2, <3>3, Zenon DEF RestoreCheck
  <2>6. CASE RestoreFails
    <3>1. CASE UNCHANGED <<target, tdirty>>
      BY <1>0, <2>6, <3>1, Zenon DEF RestoreFails, RestoreInv, ImageTypeOK
    <3>2. CASE restoring = "write" /\ target' = [target EXCEPT ![at] = Bad] /\ tdirty' = tdirty \cup {at}
      <4>1. at \in 1 .. Chunks /\ target = [i \in 1 .. Chunks |-> target[i]]
        BY <1>0, <3>2 DEF RestoreInv
      <4>2. /\ target' = [i \in 1 .. Chunks |-> target'[i]]
            /\ \A i \in 1 .. Chunks : target'[i] \in {Old, Bad, source[i]}
        BY <1>0, <3>2, <4>1, Zenon
      <4>. QED
        BY <1>0, <2>6, <3>2, <4>1, <4>2, Zenon DEF RestoreFails, RestoreInv, ImageTypeOK
    <3>. QED
      BY <2>6, <3>1, <3>2, Zenon DEF RestoreFails
  <2>. QED
    BY Zenon, <1>3, <1>4, <2>1, <2>3, <2>4, <2>5, <2>6
       DEF ImageNext, CreateStart, WriteHeader, WriteChunk, WriteFooter, WriteComplete, FlushImage, CreateFails,
           CreatePublishes, Decay, imageVars
<1>5. CASE PowerLoss
  <2>1. PICK kept \in SUBSET tdirty, torn \in SUBSET tdirty :
           dtarget' = [i \in 1 .. Chunks |->
                          IF i \in torn THEN Bad ELSE IF i \in kept THEN target[i] ELSE dtarget[i]]
    BY <1>5, Zenon DEF PowerLoss, ImageLosePower
  <2>2. /\ restoring' = IF restoring \in {"write", "footer", "check"} THEN "error" ELSE restoring
        /\ target' = dtarget' /\ tdirty' = {} /\ UNCHANGED <<uncached, from, at>>
    BY <1>5, Zenon DEF PowerLoss, ImageLosePower
  <2>3. /\ target' = [i \in 1 .. Chunks |-> target'[i]]
        /\ \A i \in 1 .. Chunks : dtarget'[i] \in {Old, Bad, source[i]}
    <3>1. target' = [i \in 1 .. Chunks |-> target'[i]]
      BY <2>1, <2>2, Zenon
    <3>2. ASSUME NEW i \in 1 .. Chunks PROVE dtarget'[i] \in {target[i], dtarget[i], Bad}
      BY <2>1, Zenon
    <3>. QED
      BY <1>0, <3>1, <3>2, Zenon
  <2>4. ASSUME restoring = "ok", NEW i \in 1 .. Chunks PROVE Passed(i)'
    <3>1. tdirty = {} /\ Passed(i)
      BY <1>0, <2>4, Zenon DEF RestoreInv
    <3>2. dtarget'[i] = dtarget[i]
      BY <2>1, <3>1, Zenon
    <3>. QED
      BY <1>0, <2>2, <3>1, <3>2, Zenon DEF Passed
  <2>5. restoring' \in {"idle", "ok", "error"} /\ (restoring' = "ok" => restoring = "ok")
    BY <1>0, <2>2, Zenon DEF ImageTypeOK
  <2>6. ImageTypeOK'
    BY <1>0, <2>2, <2>5, Zenon DEF ImageTypeOK
  <2>7. restoring' \notin {"write", "footer", "check"}
    BY <2>5
  <2>. QED
    BY <1>0, <2>2, <2>3, <2>4, <2>5, <2>6, <2>7, Zenon DEF RestoreInv
<1>. QED
  BY <1>3, <1>4, <1>5 DEF Next, Killed, imageVars, vars

\* A set of naturals that is not empty has a least element.
LEMMA Least ==
    ASSUME NEW S \in SUBSET Nat, S # {}
    PROVE  \E m \in S : \A n \in S : m <= n
<1>. DEFINE R == OpToRel(<, Nat)
<1>1. IsWellFoundedOn(R, Nat)
  BY NatLessThanWellFounded, Zenon
<1>. HIDE DEF R
<1>2. PICK m \in S : \A n \in S : ~(<<n, m>> \in R)
  BY <1>1, WFMin, Zenon
<1>3. \A n \in S : ~(n < m)
  BY <1>2, Zenon DEF R, OpToRel
<1>. QED
  BY <1>3

\* What comes first of some ranges, in the order that validate sorts them by.
LEMMA First ==
    ASSUME NEW r \in SUBSET (Nat \X Nat \X Nat), r # {}
    PROVE  \E b \in r : \A c \in r : c = b \/ Precedes(b, c)
<1>0. \A c \in r : c[1] \in Nat /\ c[2] \in Nat /\ c[3] \in Nat /\ c = <<c[1], c[2], c[3]>>
  OBVIOUS
<1>1. PICK x \in r : \A c \in r : x[1] <= c[1]
  <2>. DEFINE S == {c[1] : c \in r}
  <2>1. S \in SUBSET Nat /\ S # {}
    BY <1>0
  <2>2. \E m \in S : \A n \in S : m <= n
    BY <2>1, Least, Zenon
  <2>. QED
    BY <2>2
<1>2. PICK y \in r : y[1] = x[1] /\ \A c \in r : c[1] = x[1] => y[2] <= c[2]
  <2>. DEFINE S == {c[2] : c \in {d \in r : d[1] = x[1]}}
  <2>1. S \in SUBSET Nat /\ S # {}
    BY <1>0, <1>1
  <2>2. \E m \in S : \A n \in S : m <= n
    BY <2>1, Least, Zenon
  <2>. QED
    BY <2>2, Zenon
<1>3. PICK z \in r : z[1] = x[1] /\ z[2] = y[2] /\ \A c \in r : c[1] = x[1] /\ c[2] = y[2] => z[3] <= c[3]
  <2>. DEFINE S == {c[3] : c \in {d \in r : d[1] = x[1] /\ d[2] = y[2]}}
  <2>1. S \in SUBSET Nat /\ S # {}
    BY <1>0, <1>2
  <2>2. \E m \in S : \A n \in S : m <= n
    BY <2>1, Least, Zenon
  <2>. QED
    BY <2>2, Zenon
<1>4. ASSUME NEW c \in r, c # z PROVE Precedes(z, c)
  <2>1. c[1] # z[1] \/ c[2] # z[2] \/ c[3] # z[3]
    BY <1>0, <1>4, Zenon
  <2>. QED
    BY <1>0, <1>1, <1>2, <1>3, <2>1 DEF Precedes
<1>. QED
  BY <1>4

\* It is enough that validate compares neighbours: then no two partitions share
\* a sector.
LEMMA Validated ==
    ASSUME NEW t \in [Entries -> [type : Nat, first_lba : Nat, sectors : Nat]],
           \A i \in Entries : t[i].type # 238,
           validate(t)
    PROVE  t \in Sectors
<1>. USE ArtifactsAssumption
<1>1. ASSUME NEW i \in Used(t)
      PROVE  /\ i \in Entries /\ i \in Nat /\ t[i].first_lba \in Nat /\ t[i].sectors \in Nat \ {0}
             /\ last_lba(t[i]) = t[i].first_lba + t[i].sectors - 1
             /\ last_lba(t[i]) \in Nat /\ last_lba(t[i]) < DiskSectors
  BY DEF Used, last_lba, validate
<1>. DEFINE Range(i) == <<t[i].first_lba, last_lba(t[i]), i>>
<1>2. /\ Ranges(t) \in SUBSET (Nat \X Nat \X Nat)
      /\ \A i \in Used(t) : Range(i) \in Ranges(t)
      /\ \A a \in Ranges(t) : \E i \in Used(t) : a = Range(i)
  BY <1>1 DEF Ranges, Used
<1>3. ASSUME NEW a \in Ranges(t), NEW b \in Ranges(t), Precedes(a, b)
      PROVE  b[1] > a[2]
  <2>. DEFINE later == {c \in Ranges(t) : Precedes(a, c)}
  <2>1. PICK n \in later : \A c \in later : c = n \/ Precedes(n, c)
    BY <1>2, <1>3, First, Zenon
  <2>. DEFINE N(c) == c[1] \in Nat /\ c[2] \in Nat /\ c[3] \in Nat
  <2>2. \A c \in Ranges(t) : N(c)
    BY <1>2, SMTT(30)
  <2>3. ~\E c \in Ranges(t) : Precedes(a, c) /\ Precedes(c, n)
    <3>1. SUFFICES ASSUME NEW c \in Ranges(t), Precedes(a, c), Precedes(c, n) PROVE FALSE
      BY Zenon
    <3>2. c = n \/ Precedes(n, c)
      BY <2>1, <3>1, Zenon
    <3>3. N(c) /\ N(n)
      BY <2>1, <2>2
    <3>. QED
      BY <3>1, <3>2, <3>3, SMTT(30) DEF Precedes
  <2>4. <<a, n>> \in Neighbours(Ranges(t))
    BY <2>1, <2>3, Zenon DEF Neighbours
  <2>5. n[1] > a[2]
    BY <2>4, Zenon DEF validate
  <2>6. n[1] <= b[1]
    BY <1>3, <2>1, <2>2, SMTT(30) DEF Precedes
  <2>. QED
    BY <2>1, <2>2, <2>5, <2>6
<1>4. ASSUME NEW i \in Used(t), NEW j \in Used(t), i # j
      PROVE  Covers(t, i) \cap Covers(t, j) = {}
  <2>. DEFINE a == Range(i)
              b == Range(j)
  <2>1. a \in Ranges(t) /\ b \in Ranges(t)
    BY <1>2, SMTT(30)
  <2>2. Precedes(a, b) \/ Precedes(b, a)
    <3>1. /\ a[1] \in Nat /\ a[2] \in Nat /\ a[3] = i /\ i \in Nat
          /\ b[1] \in Nat /\ b[2] \in Nat /\ b[3] = j /\ j \in Nat
      BY <1>1, <1>4
    <3>. HIDE DEF a, b
    <3>. QED
      BY <1>4, <3>1, SMTT(30) DEF Precedes
  <2>3. t[j].first_lba > last_lba(t[i]) \/ t[i].first_lba > last_lba(t[j])
    BY <1>3, <2>1, <2>2
  <2>. DEFINE fi == t[i].first_lba
              si == t[i].sectors
              fj == t[j].first_lba
              sj == t[j].sectors
  <2>4. /\ fi \in Nat /\ si \in Nat /\ fj \in Nat /\ sj \in Nat
        /\ fj > fi + si - 1 \/ fi > fj + sj - 1
    BY <1>1, <2>3, SMTT(30)
  <2>. HIDE DEF fi, si, fj, sj
  <2>5. (fi .. fi + si - 1) \cap (fj .. fj + sj - 1) = {}
    BY <2>4
  <2>. QED
    BY <2>5 DEF Covers, fi, si, fj, sj
<1>5. \A i \in Used(t) : Covers(t, i) \subseteq 0 .. DiskSectors - 1
  BY <1>1 DEF Covers
<1>. QED
  BY <1>4, <1>5 DEF Sectors, Sound

\* Nothing but the first table is written before an undo file of it is durable.
LEMMA MbrKeeps ==
    ASSUME ArtifactsInv, [Next]_vars
    PROVE  MbrInv'
<1>. USE ArtifactsAssumption
<1>0. /\ original' = original /\ PublishInv' /\ Stays /\ MbrInv /\ PublishInv
      /\ pc \in [Procs -> {"idle"} \cup Before \cup Linked \cup Durable]
      /\ data = [f \in Files |-> data[f]]
      /\ \A q \in Paths : dir[q] \in Files \cup {None} /\ ddir[q] \in Files \cup {None}
      /\ pc[Mbr] # "idle" => file[Mbr] \in Files /\ file[Mbr][1] = Mbr /\ path[Mbr] \in Paths
      /\ pc[Image] # "idle" => file[Image][1] = Image
      /\ None \notin Files
  <2>1. original' = original /\ PublishInv' /\ Stays /\ MbrInv /\ PublishInv
    BY PublishKeeps, NextPublishes, Apart, Zenon DEF ArtifactsInv
  <2>2. /\ pc \in [Procs -> {"idle"} \cup Before \cup Linked \cup Durable]
        /\ data = [f \in Files |-> data[f]]
        /\ \A q \in Paths : dir[q] \in Files \cup {None} /\ ddir[q] \in Files \cup {None}
    BY <2>1, Zenon DEF PublishInv, PublishTypes, PublishTypeOK, Names
  <2>3. \A p \in Procs : pc[p] # "idle" => file[p] \in Files /\ file[p][1] = p /\ path[p] \in Paths
    BY <2>1 DEF PublishInv, NamesInv
  <2>. QED
    BY <2>1, <2>2, <2>3, Zenon
<1>. DEFINE Holds == {"flush_undo", "publish", "link", "unlink", "unlink_sync", "published"} \cup Linked
            Mine(q) == dir[q] # None /\ dir[q][1] = Mbr
<1>1. Undo => Undo'
  <2>1. SUFFICES ASSUME NEW q \in Paths, ddir[q] # None, ddir[q][1] = Mbr, ddata[ddir[q]] = original
                 PROVE  Undo'
    BY Zenon DEF Undo
  <2>2. dir[q] = ddir[q] /\ ddir'[q] = ddir[q]
    <3>1. NamesInv
      BY <1>0, Zenon DEF PublishInv
    <3>2. dir[q] = ddir[q]
      BY <2>1, <3>1, Zenon DEF NamesInv
    <3>3. ddir'[q] = ddir[q]
      BY <1>0, <2>1, Zenon DEF Stays
    <3>. QED
      BY <3>2, <3>3, Zenon
  <2>3. ddata'[dir[q]] = ddata[dir[q]]
    BY <1>0, <2>1, <2>2, Zenon DEF Stays
  <2>. QED
    BY <1>0, <2>1, <2>2, <2>3, Zenon DEF Undo
<1>2. ASSUME NEW q \in Paths, Mine(q)'
      PROVE  \/ Mine(q) /\ dir'[q] = dir[q] /\ data'[dir'[q]] = data[dir[q]]
             \/ pc[Mbr] \in {"publish", "link"} /\ dir'[q] = file[Mbr] /\ data'[dir'[q]] = sector
  <2>1. dir'[q] # None /\ dir'[q][1] = Mbr
    BY <1>2, Zenon
  <2>2. CASE dir'[q] = dir[q]
    <3>1. dir[q] # None /\ dir[q][1] = Mbr
      BY <2>1, <2>2, Zenon
    <3>2. data'[dir[q]] = data[dir[q]]
      BY <1>0, <3>1, Zenon DEF Stays
    <3>. QED
      BY <2>2, <3>1, <3>2, Zenon
  <2>3. CASE \E p \in Procs : pc[p] \in {"publish", "link"} /\ dir'[q] = file[p]
    <3>1. PICK p \in Procs : pc[p] \in {"publish", "link"} /\ dir'[q] = file[p]
      BY <2>3, Zenon
    <3>2. pc[p] # "idle"
      BY <3>1
    <3>3. p # Image
      BY <1>0, <2>1, <3>1, <3>2, Zenon
    <3>4. p = Mbr
      BY <3>3, Zenon
    <3>5. data'[file[Mbr]] = data[file[Mbr]]
      BY <1>0, <3>1, <3>4, Zenon DEF Stays
    <3>6. data[file[Mbr]] = sector
      BY <1>0, <3>1, <3>4, Zenon DEF MbrInv
    <3>. QED
      BY <3>1, <3>4, <3>5, <3>6, Zenon
  <2>. QED
    BY <1>0, <2>1, <2>2, <2>3, Zenon DEF Stays
<1>3. ASSUME NEW q \in Paths, Mine(q)'
      PROVE  data'[dir'[q]] \in Sectors /\ (~Undo => data'[dir'[q]] = original)
  <2>1. CASE Mine(q) /\ data'[dir'[q]] = data[dir[q]]
    BY <1>0, <2>1, Zenon DEF MbrInv
  <2>2. CASE data'[dir'[q]] = sector
    BY <1>0, <2>2, Zenon DEF MbrInv
  <2>. QED
    BY <1>2, <1>3, <2>1, <2>2, Zenon
<1>4. /\ \A q \in Paths : (dir[q] # None /\ dir[q][1] = Mbr)' => data'[dir'[q]] \in Sectors
      /\ ~Undo => \A q \in Paths : (dir[q] # None /\ dir[q][1] = Mbr)' => data'[dir'[q]] = original'
  BY <1>0, <1>3, Zenon
\* It is then enough to look at the sector.
<1>5. ASSUME sector' \in Sectors, dsector' \in Sectors,
             pc'[Mbr] # "idle" => edited' \in Sectors,
             pc'[Mbr] \in Holds => data'[file'[Mbr]] = sector',
             Undo' \/ (sector' = original /\ dsector' = original)
      PROVE  MbrInv'
  BY <1>0, <1>1, <1>4, <1>5, Zenon DEF MbrInv
<1>6. CASE UNCHANGED mbrVars /\ (pc'[Mbr] = "idle" \/
             (pc'[Mbr] = pc[Mbr] /\ file'[Mbr] = file[Mbr] /\ data'[file[Mbr]] = data[file[Mbr]]))
  <2>1. /\ sector' \in Sectors /\ dsector' \in Sectors
        /\ Undo' \/ (sector' = original /\ dsector' = original)
    BY <1>0, <1>1, <1>6, Zenon DEF MbrInv, mbrVars
  <2>2. CASE pc'[Mbr] = "idle"
    BY <1>5, <2>1, <2>2, Zenon DEF Linked
  <2>3. CASE pc'[Mbr] = pc[Mbr] /\ file'[Mbr] = file[Mbr] /\ data'[file[Mbr]] = data[file[Mbr]]
    <3>1. pc'[Mbr] # "idle" => edited' \in Sectors
      BY <1>0, <1>6, <2>3, Zenon DEF MbrInv, mbrVars
    <3>2. pc'[Mbr] \in Holds => data'[file'[Mbr]] = sector'
      BY <1>0, <1>6, <2>3, Zenon DEF MbrInv, mbrVars
    <3>. QED
      BY <1>5, <2>1, <3>1, <3>2, Zenon
  <2>. QED
    BY <1>6, <2>2, <2>3, Zenon
<1>7. CASE ImageNext /\ UNCHANGED mbrVars
  BY <1>6, <1>7, Apart, Zenon
<1>8. CASE Killed \/ UNCHANGED vars
  <2>1. CASE UNCHANGED vars
    BY <1>6, <2>1, Zenon DEF vars, publish
  <2>2. CASE Killed
    BY <1>0, <1>6, <2>2, Zenon DEF Killed, Kill, Goes
  <2>. QED
    BY <1>8, <2>1, <2>2, Zenon
<1>9. CASE PowerLoss
  <2>1. sector' = dsector /\ UNCHANGED <<dsector, edited, original>> /\ pc'[Mbr] = "idle"
    BY <1>9, Zenon DEF PowerLoss, LosePower, MbrLosePower
  <2>. QED
    BY <1>0, <1>1, <1>5, <2>1, Zenon DEF MbrInv, Linked
<1>10. ASSUME NEW s, Goes(Mbr, s) PROVE pc'[Mbr] = s
  BY <1>0, <1>10, Zenon DEF Goes
<1>11. CASE MbrNext
  <2>1. ASSUME NEW q \in Paths, NEW e \in Edits, ResizeStart(q, e) PROVE MbrInv'
    <3>1. /\ edited' = [sector EXCEPT ![e.index].first_lba = e.first, ![e.index].sectors = e.sectors]
          /\ UNCHANGED <<sector, dsector, original>> /\ pc'[Mbr] = "undo"
      BY <1>10, <2>1, Zenon DEF ResizeStart
    <3>2. e.index \in Entries /\ e.first \in Nat /\ e.sectors \in Nat
      OBVIOUS
    <3>3. edited' \in Sectors
      <4>1. /\ sector \in [Entries -> [type : Nat, first_lba : Nat, sectors : Nat]]
            /\ \A i \in Entries : sector[i].type = 238 => sector[i].sectors # 0
        BY <1>0, Zenon DEF MbrInv, Sectors
      <4>. DEFINE row == sector[e.index]
      <4>2. row \in [type : Nat, first_lba : Nat, sectors : Nat]
        BY <3>2, <4>1
      <4>3. edited' = [sector EXCEPT ![e.index] = [row EXCEPT !.first_lba = e.first, !.sectors = e.sectors]]
        BY <3>1, <3>2, <4>1, Zenon
      <4>4. [row EXCEPT !.first_lba = e.first, !.sectors = e.sectors] \in [type : Nat, first_lba : Nat, sectors : Nat]
        BY <3>2, <4>2, Zenon
      <4>5. [row EXCEPT !.first_lba = e.first, !.sectors = e.sectors].type = row.type
        BY <4>2, Zenon
      <4>6. \A i \in Entries : sector[i].type # 238
        BY <2>1, <4>1 DEF ResizeStart, Protective, Used
      <4>7. validate(edited')
        BY <2>1 DEF ResizeStart
      <4>. HIDE DEF row
      <4>8. edited' \in [Entries -> [type : Nat, first_lba : Nat, sectors : Nat]]
        BY <3>2, <4>1, <4>3, <4>4, Zenon
      <4>9. \A i \in Entries : edited'[i].type # 238
        BY <3>2, <4>1, <4>3, <4>5, <4>6 DEF row
      <4>. QED
        BY <4>7, <4>8, <4>9, Validated, Zenon
    <3>. QED
      BY <1>0, <1>1, <1>5, <3>1, <3>3, SMTT(30) DEF MbrInv, Linked
  <2>2. CASE WriteUndo
    <3>1. UNCHANGED mbrVars /\ pc[Mbr] = "undo" /\ pc'[Mbr] = "flush_undo" /\ file' = file
          /\ data' = [data EXCEPT ![file[Mbr]] = sector]
      BY <1>10, <2>2, Zenon DEF WriteUndo, WriteTemp
    <3>2. data'[file'[Mbr]] = sector
      BY <1>0, <3>1
    <3>. QED
      BY <1>0, <1>1, <1>5, <3>1, <3>2, Zenon DEF MbrInv, mbrVars
  <2>3. CASE FlushUndo
    <3>1. UNCHANGED mbrVars /\ pc[Mbr] = "flush_undo" /\ file' = file /\ data' = data
      BY <2>3, Zenon DEF FlushUndo, FlushTemp
    <3>2. /\ sector' \in Sectors /\ dsector' \in Sectors /\ edited' \in Sectors
          /\ Undo' \/ (sector' = original /\ dsector' = original)
      BY <1>0, <1>1, <3>1, Zenon DEF MbrInv, mbrVars
    <3>3. data'[file'[Mbr]] = sector'
      BY <1>0, <3>1, Zenon DEF MbrInv, mbrVars
    <3>. QED
      BY <1>5, <3>2, <3>3, Zenon
  <2>4. CASE ResizeFails \/ ResizePublishes
    <3>1. UNCHANGED <<mbrVars, data, file>> /\ (pc'[Mbr] = "idle" \/ (pc[Mbr] \in Holds /\ pc'[Mbr] \in Holds))
      <4>1. CASE ResizeFails
        BY <1>10, <4>1, Zenon DEF ResizeFails, Fail
      <4>2. CASE ResizePublishes /\ TryRename(Mbr)
        BY <1>10, <4>2, Zenon DEF ResizePublishes, TryRename, Fail, Linked
      <4>3. CASE ResizePublishes /\ Link(Mbr)
        BY <1>10, <4>3, Zenon DEF ResizePublishes, Link, Fail, Linked
      <4>4. CASE ResizePublishes /\ Unlink(Mbr)
        BY <1>10, <4>4, Zenon DEF ResizePublishes, Unlink, Fail, Linked
      <4>5. CASE ResizePublishes /\ fsync_parent_directory(Mbr)
        BY <1>10, <4>5 DEF ResizePublishes, fsync_parent_directory, AfterSync, Fail, Linked
      <4>. QED
        BY <2>4, <4>1, <4>2, <4>3, <4>4, <4>5, Zenon DEF ResizePublishes, publish_file_noreplace
    <3>2. CASE pc'[Mbr] = "idle"
      BY <1>6, <3>1, <3>2, Zenon
    <3>3. CASE pc[Mbr] \in Holds /\ pc'[Mbr] \in Holds
      <4>1. data'[file'[Mbr]] = sector' /\ edited' \in Sectors /\ sector' \in Sectors /\ dsector' \in Sectors
        BY <1>0, <3>1, <3>3, Zenon DEF MbrInv, mbrVars, Linked
      <4>2. Undo' \/ (sector' = original /\ dsector' = original)
        BY <1>0, <1>1, <3>1, Zenon DEF MbrInv, mbrVars
      <4>. QED
        BY <1>5, <4>1, <4>2, Zenon
    <3>. QED
      BY <3>1, <3>2, <3>3, Zenon
  <2>5. CASE WriteSector
    <3>1. /\ sector' \in {sector, edited} /\ pc[Mbr] = "published" /\ pc'[Mbr] \in {"flush_sector", "idle"}
          /\ UNCHANGED <<dsector, edited, original, dir, ddir, data, ddata, file>>
      BY <1>10, <2>5, Zenon DEF WriteSector
    <3>2. data[file[Mbr]] = sector /\ edited \in Sectors
      BY <1>0, <3>1, Zenon DEF MbrInv
    <3>3. ddir[path[Mbr]] = file[Mbr] /\ dir[path[Mbr]] = file[Mbr]
      BY <1>0, <3>1, Zenon DEF PublishInv, NamesInv, Durable
    <3>4. ddata[file[Mbr]] = sector
      <4>1. file[Mbr] # None /\ path[Mbr] \in Paths
        BY <1>0, <3>1, Zenon
      <4>. QED
        BY <3>2, <3>3, <4>1, Zenon DEF ArtifactsInv, WholeInv
    <3>5. Undo
      <4>1. CASE sector = original
        BY <1>0, <3>1, <3>3, <3>4, <4>1 DEF Undo
      <4>. QED
        BY <1>0, <4>1, Zenon DEF MbrInv
    <3>6. sector' \in Sectors /\ dsector' \in Sectors /\ edited' \in Sectors /\ pc'[Mbr] \notin Holds
      BY <1>0, <3>1, <3>2, Zenon DEF MbrInv, Linked
    <3>. QED
      BY <1>1, <1>5, <3>5, <3>6, Zenon
  <2>6. CASE FlushSector
    <3>1. /\ dsector' \in {sector, dsector} /\ pc'[Mbr] = "idle"
          /\ UNCHANGED <<sector, edited, original>>
      BY <1>10, <2>6 DEF FlushSector, Succeed
    <3>. QED
      BY <1>0, <1>1, <1>5, <3>1, Zenon DEF MbrInv, Linked
  <2>7. CASE WriteBack
    <3>1. dsector' = sector /\ UNCHANGED <<publish, sector, edited, original>>
      BY <2>7 DEF WriteBack
    <3>. QED
      <4>1. /\ sector' \in Sectors /\ dsector' \in Sectors
            /\ Undo' \/ (sector' = original /\ dsector' = original)
        BY <1>0, <1>1, <3>1, Zenon DEF MbrInv
      <4>2. pc'[Mbr] # "idle" => edited' \in Sectors
        BY <1>0, <3>1, Zenon DEF MbrInv, publish
      <4>3. pc'[Mbr] \in Holds => data'[file'[Mbr]] = sector'
        BY <1>0, <3>1, Zenon DEF MbrInv, publish
      <4>. QED
        BY <1>5, <4>1, <4>2, <4>3, Zenon
  <2>8. ASSUME NEW q \in Paths, RestoreSector(q) PROVE MbrInv'
    <3>1. /\ sector' = data[dir[q]] /\ dsector' \in {sector', dsector} /\ Mine(q) /\ pc[Mbr] = "idle"
          /\ UNCHANGED <<publish, edited, original>>
      BY <2>8, Zenon DEF RestoreSector
    <3>. QED
      <4>1. data[dir[q]] \in Sectors /\ (~Undo => data[dir[q]] = original)
        BY <1>0, <3>1, Zenon DEF MbrInv
      <4>2. /\ sector' \in Sectors /\ dsector' \in Sectors
            /\ Undo' \/ (sector' = original /\ dsector' = original)
        BY <1>0, <1>1, <3>1, <4>1, Zenon DEF MbrInv
      <4>3. pc'[Mbr] = "idle" /\ "idle" \notin Holds
        BY <3>1, Zenon DEF publish, Linked
      <4>. QED
        BY <1>5, <4>2, <4>3, Zenon
  <2>. QED
    BY <1>11, <2>1, <2>2, <2>3, <2>4, <2>5, <2>6, <2>7, <2>8 DEF MbrNext
<1>. QED
  BY <1>7, <1>8, <1>9, <1>11 DEF Next

-----------------------------------------------------------------------------
\* Nothing is published, written or restored at first.
LEMMA ArtifactsStarts == Init => ArtifactsInv
<1>. USE ArtifactsAssumption
<1>. SUFFICES ASSUME Init PROVE ArtifactsInv
  BY Zenon
<1>1. PublishTypes
  BY DEF Init, PublishInit, PublishTypes, PublishTypeOK, Names, Files
<1>2. NamesInv
  BY Zenon DEF Init, PublishInit, NamesInv, Names, Before, Linked, Durable
<1>3. WholeInv /\ CreateInv
  BY Zenon DEF Init, PublishInit, WholeInv, CreateInv, Names
<1>4. RestoreInv
  BY DEF Init, ImageInit, RestoreInv, ImageTypeOK
<1>5. MbrInv
  BY DEF Init, PublishInit, MbrInit, MbrInv, Names, Linked
<1>. QED
  BY <1>1, <1>2, <1>3, <1>4, <1>5, Zenon DEF ArtifactsInv, PublishInv

\* The invariant of the commands, the directory and the sector holds throughout.
LEMMA ArtifactsInvariant == Spec => []ArtifactsInv
<1>1. ArtifactsInv /\ [Next]_vars => ArtifactsInv'
  BY PublishKeeps, NextPublishes, WholeKeeps, CreateKeeps, RestoreKeeps, MbrKeeps DEF ArtifactsInv
<1>. QED
  BY <1>1, ArtifactsStarts, PTL DEF Spec

\* A success is for good: the path names the file that was written and its
\* content is there, now and after a loss of power.
THEOREM SuccessIsKept == Spec => []AckedKept
<1>1. ArtifactsInv => AckedKept
  <2>. USE ArtifactsAssumption
  <2>1. SUFFICES ASSUME ArtifactsInv, NEW a \in acked
                 PROVE  dir[a[1]] = a[2] /\ ddir[a[1]] = a[2] /\ ddata[a[2]] = data[a[2]]
    BY Zenon DEF AckedKept
  <2>2. a[1] \in Paths /\ a[2] \in Files /\ dir[a[1]] = a[2] /\ ddir[a[1]] = a[2]
    BY <2>1 DEF ArtifactsInv, PublishInv, PublishTypes, PublishTypeOK, NamesInv
  <2>. QED
    BY <2>1, <2>2, Zenon DEF ArtifactsInv, WholeInv
<1>. QED
  BY <1>1, ArtifactsInvariant, PTL

\* What a path names is whole, now and after a loss of power, and verify accepts
\* an image under it unless it was damaged.
THEOREM NamedIsWhole == Spec => []PublishedWhole
<1>1. ArtifactsInv => PublishedWhole
  <2>. USE ArtifactsAssumption
  <2>1. SUFFICES ASSUME ArtifactsInv, NEW q \in Paths
                 PROVE  /\ dir[q] # None => Whole(dir[q], data[dir[q]])
                        /\ ddir[q] # None => Whole(ddir[q], ddata[ddir[q]])
                        /\ Published(q) => (walk_image(dir[q]) \/ \E d \in damage : d[1] = dir[q])
    BY Zenon DEF PublishedWhole
  <2>2. /\ dir[q] # None => Whole(dir[q], data[dir[q]]) /\ ddata[dir[q]] = data[dir[q]]
        /\ ddir[q] # None => dir[q] = ddir[q]
    BY <2>1, Zenon DEF ArtifactsInv, WholeInv, PublishInv, NamesInv
  <2>3. ASSUME Published(q), \A d \in damage : d[1] # dir[q]
        PROVE  walk_image(dir[q])
    <3>. DEFINE f == dir[q]
    <3>1. data[f] \notin {Torn, Empty} /\ data[f] = AllOf
      BY <2>2, <2>3, Zenon DEF Published, Whole, AllOf
    <3>2. \A i \in 1 .. Chunks, w \in {"record", "payload"} : <<f, i, w>> \notin damage
      BY <2>3, Zenon
    <3>3. data[f].complete /\ data[f].footer /\ Len(data[f].records) = Chunks
      BY <3>1 DEF AllOf
    <3>. HIDE DEF f
    <3>4. parse_header(f) /\ parse_footer(f)
      BY <3>1, <3>3, Zenon DEF parse_header, parse_footer
    <3>5. \A i \in 1 .. Chunks : parse_record(f, i) /\ PayloadIntact(f, i)
      BY <3>2, <3>3 DEF parse_record, PayloadIntact
    <3>6. walk_image(f)
      BY <3>3, <3>4, <3>5, Zenon DEF walk_image
    <3>. QED
      BY <3>6, Zenon DEF f
  <2>. QED
    BY <2>2, <2>3, Zenon
<1>. QED
  BY <1>1, ArtifactsInvariant, PTL

\* After a restore that reports success each chunk on the medium is that of the
\* source, or one that the medium stored wrongly and the page cache answered for
\* when it was read back; and none writes what did not come from the source.
THEOREM RestoredIsExact == Spec => []RestoreExact
<1>1. ArtifactsInv => RestoreExact
  BY Zenon DEF ArtifactsInv, RestoreInv, RestoreExact, Passed
<1>. QED
  BY <1>1, ArtifactsInvariant, PTL

\* The table the disk had at first can always be had back.
THEOREM FirstTableIsKept == Spec => []OriginalKept
<1>1. ArtifactsInv => OriginalKept
  BY Zenon DEF ArtifactsInv, MbrInv, OriginalKept, Undo
<1>. QED
  BY <1>1, ArtifactsInvariant, PTL

\* No table on the disk or on its way there has partitions that share a sector or
\* lie past the end, however many entries a table has.
THEOREM DiskTablesAreSound == Spec => []TablesSound
<1>1. ArtifactsInv => TablesSound
  BY DEF ArtifactsInv, MbrInv, Sectors, TablesSound
<1>. QED
  BY <1>1, ArtifactsInvariant, PTL

\* A name on stable storage is never taken away or given to another file, and
\* its file is not written again: a rename never replaces, and Cleanup unlinks
\* the temporary name only (core/file_util.cpp).
NamesForGood ==
    [][\A q \in Paths : ddir[q] # None =>
          ddir'[q] = ddir[q] /\ dir'[q] = ddir[q] /\ data'[ddir[q]] = data[ddir[q]]]_publish

\* No step of a command, no kill and no loss of power takes a durable name or
\* its content away, whether or not the command had reported success.
THEOREM NamesAreForGood == Spec => NamesForGood
<1>1. ArtifactsInv /\ [Next]_vars =>
        [\A q \in Paths : ddir[q] # None =>
            ddir'[q] = ddir[q] /\ dir'[q] = ddir[q] /\ data'[ddir[q]] = data[ddir[q]]]_publish
  <2>. SUFFICES ASSUME ArtifactsInv, [Next]_vars, NEW q \in Paths, ddir[q] # None
                PROVE  ddir'[q] = ddir[q] /\ dir'[q] = ddir[q] /\ data'[ddir[q]] = data[ddir[q]]
    BY Zenon
  <2>1. Stays /\ dir[q] = ddir[q]
    BY PublishKeeps, NextPublishes DEF ArtifactsInv, PublishInv, NamesInv
  <2>. QED
    BY <2>1, Zenon DEF Stays
<1>. QED
  BY <1>1, ArtifactsInvariant, PTL DEF Spec, NamesForGood
=============================================================================
