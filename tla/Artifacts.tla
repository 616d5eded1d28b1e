----------------------------- MODULE Artifacts ------------------------------
(***************************************************************************)
(* An fsx image create, an fsx image restore and an fsx mbr command, run   *)
(* at the same time in one directory, with the same paths to choose from.  *)
(***************************************************************************)
EXTENDS Image, Mbr

vars == <<publish, imageVars, mbrVars>>

\* The tables a sector may hold: the partitions lie apart and on the disk, and a
\* protective entry is one in use (an edit of another one would not be compared
\* with the partitions).
Sectors ==
    {t \in [Entries -> [type : Nat, first_lba : Nat, sectors : Nat]] :
        Sound(t) /\ \A i \in Entries : t[i].type = 238 => t[i].sectors # 0}

ASSUME ArtifactsAssumption ==
    /\ Procs = {Image, Mbr} /\ Image # Mbr
    /\ MaxAttempts \in Nat /\ Limits \subseteq [Procs -> 0 .. MaxAttempts]
    /\ Chunks \in Nat \ {0} /\ MaxDamage \in Nat
    /\ None \notin Files /\ None \notin Paths /\ Paths \cap Files = {}
    /\ \A s \in Sources : s = [i \in 1 .. Chunks |-> s[i]]
    /\ \A s \in Sources, n \in 0 .. Chunks, c, d \in BOOLEAN :
          [complete |-> c, records |-> [i \in 1 .. n |-> s[i]], footer |-> d] \notin {Torn, Empty}
    /\ Entries \subseteq Nat /\ DiskSectors \in Nat
    /\ \A t \in Tables : t \in Sectors
    /\ Torn \notin Sectors /\ Empty \notin Sectors
    /\ Edits \subseteq [index : Entries, first : Nat, sectors : Nat]

Init == PublishInit /\ ImageInit /\ MbrInit

Killed == \E p \in Procs : Kill(p) /\ UNCHANGED <<imageVars, mbrVars>>

PowerLoss == LosePower /\ ImageLosePower /\ MbrLosePower

Next ==
    \/ ImageNext /\ UNCHANGED mbrVars
    \/ MbrNext /\ UNCHANGED imageVars
    \/ Killed
    \/ PowerLoss

Spec == Init /\ [][Next]_vars

-----------------------------------------------------------------------------
TypeOK ==
    /\ PublishTypeOK /\ ImageTypeOK
    /\ edited = None \/ Used(edited) \subseteq Entries
    /\ pc[Image] \in {"idle", "header", "chunks", "footer", "complete", "flush", "publish",
                      "rename_sync", "link", "link_sync", "unlink", "unlink_sync", "published"}
    /\ pc[Mbr] \in {"idle", "undo", "flush_undo", "publish", "rename_sync", "link", "link_sync",
                    "unlink", "unlink_sync", "published", "flush_sector"}

\* The image a create has written in full, and a sector.
Whole(f, content) ==
    /\ content # Torn /\ content # Empty
    /\ f[1] = Image =>
          content = [complete |-> TRUE, records |-> [i \in 1 .. Chunks |-> source[i]], footer |-> TRUE]

\* What a path names is whole, as it is now and as it would be after a loss of
\* power: "A header without the completion bit is never accepted" has no case to
\* refuse under a final name (docs/IMAGE_FORMAT.md), and the undo path "is never
\* exposed as a partially written file" (partition/mbr.cpp).
\* fsx image verify accepts an image under such a name unless it was damaged.
PublishedWhole ==
    \A q \in Paths :
        /\ dir[q] # None => Whole(dir[q], data[dir[q]])
        /\ ddir[q] # None => Whole(ddir[q], ddata[ddir[q]])
        /\ Published(q) => (walk_image(dir[q]) \/ \E d \in damage : d[1] = dir[q])
=============================================================================
