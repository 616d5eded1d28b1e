------------------------------ MODULE Publish -------------------------------
(***************************************************************************)
(* How a command makes a new file appear under the name the user gave      *)
(* (core/file_util.cpp), and the directory it does that in.                *)
(*                                                                         *)
(* A command writes a temporary file, flushes it, and moves it to its path *)
(* by a rename that replaces nothing, or where that is unknown by a link   *)
(* and an unlink; after either the directory is flushed.  Several commands *)
(* may run at once and want the same path.  A command may be killed, and   *)
(* power may fail: of what has not been flushed any part may then be gone, *)
(* a name as well as a content.                                            *)
(***************************************************************************)
EXTENDS Integers, FiniteSets

CONSTANTS Procs,        \* the commands that publish a file
          Paths,        \* the names users give
          Limits,       \* bounds: how often each command is run, one is chosen
          MaxAttempts,  \* the largest of them
          Torn,         \* a content that is only a part of what was written
          Empty,        \* the content of a new file
          None

\* A file, which is also its temporary name: no two runs choose the same.
Files == Procs \X (1 .. MaxAttempts)
Names == Paths \cup Files

VARIABLES dir, ddir,    \* the file of each name; as it is on stable storage
          data, ddata,  \* the content of each file; as it is on stable storage
          pc,           \* where each command is
          file, path,   \* its temporary file and the path it publishes to
          runs, limit,  \* how often it was started, and may be
          acked         \* the names and files of the runs that succeeded

publish == <<dir, ddir, data, ddata, pc, file, path, runs, limit, acked>>

PublishInit ==
    /\ dir = [n \in Names |-> None] /\ ddir = dir
    /\ data = [f \in Files |-> Empty] /\ ddata = data
    /\ pc = [p \in Procs |-> "idle"]
    /\ file = [p \in Procs |-> None] /\ path = [p \in Procs |-> None]
    /\ runs = [p \in Procs |-> 0] /\ limit \in Limits
    /\ acked = {}

Goes(p, s) == pc' = [pc EXCEPT ![p] = s]

\* mkstemp, or O_CREAT|O_EXCL with a random name.
CreateTemp(p, q) ==
    LET f == <<p, runs[p] + 1>>
    IN  /\ runs[p] < limit[p]
        /\ runs' = [runs EXCEPT ![p] = @ + 1]
        /\ file' = [file EXCEPT ![p] = f]
        /\ path' = [path EXCEPT ![p] = q]
        /\ dir' = [dir EXCEPT ![f] = f]
        /\ UNCHANGED <<ddir, data, ddata, limit, acked>>

\* A write to the temporary file, and its flush.
WriteTemp(p, content) ==
    /\ data' = [data EXCEPT ![file[p]] = content]
    /\ UNCHANGED <<dir, ddir, ddata, file, path, runs, limit, acked>>

FlushTemp(p) ==
    /\ ddata' = [ddata EXCEPT ![file[p]] = data[file[p]]]
    /\ UNCHANGED <<dir, ddir, data, file, path, runs, limit, acked>>

\* An error return: Cleanup unlinks the temporary name, if it is still there.
Fail(p) ==
    /\ dir' = [dir EXCEPT ![file[p]] = None]
    /\ Goes(p, "idle")
    /\ UNCHANGED <<ddir, data, ddata, file, path, runs, limit, acked>>

-----------------------------------------------------------------------------
TryRenameExchange(p) ==
    /\ pc[p] = "publish"
    /\ dir' = [dir EXCEPT ![path[p]] = file[p], ![file[p]] = dir[path[p]]]
    /\ Goes(p, "rename_sync")
    /\ UNCHANGED <<ddir, data, ddata, file, path, runs, limit, acked>>

\* renameat2(RENAME_NOREPLACE): done, refused, or not known to this system.
TryRename(p) ==
    /\ pc[p] = "publish"
    /\ \/ /\ dir[path[p]] = None
          /\ dir' = [dir EXCEPT ![path[p]] = file[p], ![file[p]] = None]
          /\ Goes(p, "rename_sync")
          /\ UNCHANGED <<ddir, data, ddata, file, path, runs, limit, acked>>
       \/ Fail(p)
       \/ Goes(p, "link") /\ UNCHANGED <<dir, ddir, data, ddata, file, path, runs, limit, acked>>

\* publish_with_link: the first name stays until the second is durable.
Link(p) ==
    /\ pc[p] = "link"
    /\ \/ /\ dir[path[p]] = None
          /\ dir' = [dir EXCEPT ![path[p]] = file[p]]
          /\ Goes(p, "link_sync")
          /\ UNCHANGED <<ddir, data, ddata, file, path, runs, limit, acked>>
       \/ Fail(p)

Unlink(p) ==
    /\ pc[p] = "unlink"
    /\ \/ /\ dir' = [dir EXCEPT ![file[p]] = None]
          /\ Goes(p, "unlink_sync")
          /\ UNCHANGED <<ddir, data, ddata, file, path, runs, limit, acked>>
       \/ Fail(p)

AfterSync == [rename_sync |-> "published", link_sync |-> "unlink", unlink_sync |-> "published"]

fsync_parent_directoryLazy(p) ==
    /\ pc[p] \in DOMAIN AfterSync
    /\ \/ Goes(p, AfterSync[pc[p]]) /\ UNCHANGED <<dir, ddir, data, ddata, file, path, runs, limit, acked>>
       \/ Fail(p)

\* fsync_parent_directory: both names of the file become durable, or it fails.
fsync_parent_directory(p) ==
    /\ pc[p] \in DOMAIN AfterSync
    /\ \/ /\ ddir' = [ddir EXCEPT ![path[p]] = dir[path[p]], ![file[p]] = dir[file[p]]]
          /\ Goes(p, AfterSync[pc[p]])
          /\ UNCHANGED <<dir, data, ddata, file, path, runs, limit, acked>>
       \/ Fail(p)

publish_file_noreplace(p) == TryRename(p) \/ Link(p) \/ Unlink(p) \/ fsync_parent_directory(p)

\* The command prints that it is done.
Succeed(p) ==
    /\ acked' = acked \cup {<<path[p], file[p]>>}
    /\ Goes(p, "idle")
    /\ UNCHANGED <<dir, ddir, data, ddata, file, path, runs, limit>>

Kill(p) ==
    /\ pc[p] # "idle"
    /\ Goes(p, "idle")
    /\ UNCHANGED <<dir, ddir, data, ddata, file, path, runs, limit, acked>>

\* Power fails: of the names and contents not flushed, any may be the old ones,
\* and a content may be a mixture.
LosePower ==
    /\ \E keep \in SUBSET {n \in Names : dir[n] # ddir[n]} :
          dir' = [n \in Names |-> IF n \in keep THEN dir[n] ELSE ddir[n]]
    /\ \E keep, mix \in SUBSET {f \in Files : data[f] # ddata[f]} :
          data' = [f \in Files |-> IF f \in keep THEN data[f] ELSE IF f \in mix THEN Torn ELSE ddata[f]]
    /\ ddir' = dir' /\ ddata' = data'
    /\ pc' = [p \in Procs |-> "idle"]
    /\ UNCHANGED <<file, path, runs, limit, acked>>

-----------------------------------------------------------------------------
PublishTypeOK ==
    /\ dir \in [Names -> Files \cup {None}] /\ ddir \in [Names -> Files \cup {None}]
    /\ file \in [Procs -> Files \cup {None}] /\ path \in [Procs -> Paths \cup {None}]
    /\ runs \in [Procs -> 0 .. MaxAttempts]
    /\ acked \subseteq Paths \X Files
    /\ \A f \in Files : dir[f] \in {f, None} /\ ddir[f] \in {f, None}

\* A success is for good: from then on the path names the file that was written,
\* on stable storage too, and its content is there ("refusing to overwrite
\* existing"; "an already published object is never intentionally left with
\* zero durable names", core/file_util.cpp).
AckedKept ==
    \A a \in acked : /\ dir[a[1]] = a[2] /\ ddir[a[1]] = a[2]
                     /\ ddata[a[2]] = data[a[2]]
=============================================================================
