----------------------------- MODULE AtomicUpdate ----------------------------
(***************************************************************************)
(* FileFactory::AtomicUpdate: a stream that writes to a temporary file,    *)
(* which Close, or the stream's destructor, syncs and renames to the       *)
(* target; with FileUtils::SyncDirectory, and with power failures.         *)
(*                                                                         *)
(* An update is one call of AtomicUpdate with the life of its stream; any  *)
(* number of them run at once, in one or in several processes, on the same *)
(* target.  One action is one system call and what the thread does up to   *)
(* the next.  Data goes from the stream's buffer to the page cache and     *)
(* from there to the disk; so do the entries of the directory, in the      *)
(* order of the system calls.  The kernel may write back anything at any   *)
(* time, and a power failure leaves what is on the disk.                   *)
(*                                                                         *)
(* The contents of a file are abstracted to how much of what the user      *)
(* wrote is in it.  The names of temporary files are taken to differ.      *)
(***************************************************************************)
EXTENDS Naturals

CONSTANTS
    Updates,    \* each has a temporary file of its own
    Old,        \* the file that is there in the beginning
    NoFile,     \* there is none
    Chunks,     \* bound: writes per update
    MaxCrashes  \* bound: power failures

ASSUME FilesAssumption == {Old, NoFile} \cap Updates = {} /\ Old # NoFile
ASSUME BoundsAssumption == Chunks \in Nat /\ MaxCrashes \in Nat

VARIABLES
    target,        \* the file that has the name of the target
    temps,         \* updates whose temporary file has its name
    disk_target,   \* the same on the disk
    disk_temps,
    written,       \* what the user wrote to the stream
    lost,          \* updates of which a failed call may have lost data
    buffered,      \* what is in the stream's buffer
    content,       \* what is in the file
    disk_content,  \* the same on the disk
    pc,            \* where each update is, see Pcs
    withheld,      \* updates whose stream AtomicUpdate destroys itself
    crashes,       \* power failures so far
    renames,       \* history: how many there were
    rank,          \* history: the position of an update's rename among them
    failed,        \* history: updates with an error of AtomicUpdate or Close
    kept,          \* history: updates whose temporary file an unlink() failed on
    synced         \* history: updates that SyncDirectory was called for

dir_vars == <<target, temps>>
disk_vars == <<disk_target, disk_temps, disk_content>>
stream_vars == <<written, lost, buffered>>
fail_vars == <<failed, kept>>
history_vars == <<crashes, renames, rank, synced>>
vars == <<dir_vars, disk_vars, stream_vars, content, pc, withheld, fail_vars,
          history_vars>>

Pcs == {"idle",
        "opened",  \* the temporary file was created
        "stream",  \* the user has the stream
        "fsync", "close", "rename",  \* in Close, about to call it
        "unlink",  \* the destructor's Close has failed
        "renamed",  \* Close has returned
        "done"}

Init ==
    /\ target \in {Old, NoFile}
    /\ temps = {}
    /\ disk_target = target
    /\ disk_temps = {}
    /\ written = [u \in Updates |-> 0]
    /\ lost = {}
    /\ buffered = [u \in Updates |-> 0]
    /\ content = [u \in Updates |-> 0]
    /\ disk_content = [u \in Updates |-> 0]
    /\ pc = [u \in Updates |-> "idle"]
    /\ withheld = {}
    /\ failed = {}
    /\ kept = {}
    /\ crashes = 0
    /\ renames = 0
    /\ rank = [u \in Updates |-> 0]
    /\ synced = {}

Goto(u, label) == pc' = [pc EXCEPT ![u] = label]

\* The temporary file is removed, or stays: the result is ignored.
unlink(u) ==
    /\ \/ temps' = temps \ {u} /\ UNCHANGED kept
       \/ u \in temps /\ kept' = kept \cup {u} /\ UNCHANGED temps
    /\ UNCHANGED target

\* AtomicUpdate or Close returns an error, after an attempt to remove the
\* temporary file.
Fail(u, label) ==
    /\ unlink(u)
    /\ failed' = failed \cup {u}
    /\ Goto(u, label)

-----------------------------------------------------------------------------
(* AtomicUpdate                                                            *)

\* The mode, the name, the kind or the permissions of the target, or a
\* temporary file that cannot be opened.
refuse(u) ==
    /\ pc[u] = "idle"
    /\ failed' = failed \cup {u}
    /\ Goto(u, "done")
    /\ UNCHANGED <<dir_vars, disk_vars, stream_vars, content, withheld, kept,
                   history_vars>>

OpenFileHandle(u) ==
    /\ pc[u] = "idle"
    /\ temps' = temps \cup {u}
    /\ Goto(u, "opened")
    /\ UNCHANGED <<target, disk_vars, stream_vars, content, withheld,
                   fail_vars, history_vars>>

CreateFileStream_fails(u) ==
    /\ pc[u] = "opened"
    /\ Fail(u, "done")
    /\ UNCHANGED <<disk_vars, stream_vars, content, withheld, history_vars>>

\* If the ownership cannot be adjusted the user gets an error, and the stream is
\* destroyed: that closes it, and renames the file if unlink() has failed.
AdjustOwnership(u) ==
    /\ pc[u] = "opened"
    /\ \/ Goto(u, "stream") /\ UNCHANGED <<dir_vars, withheld, fail_vars>>
       \/ Fail(u, "stream") /\ withheld' = withheld \cup {u}
    /\ UNCHANGED <<disk_vars, stream_vars, content, history_vars>>

-----------------------------------------------------------------------------
(* The stream                                                              *)

\* The user writes, also after a Close that failed before its close().
write(u) ==
    /\ pc[u] = "stream" /\ u \notin withheld
    /\ written[u] < Chunks
    /\ written' = [written EXCEPT ![u] = @ + 1]
    /\ \/ buffered' = [buffered EXCEPT ![u] = @ + 1] /\ UNCHANGED lost
       \/ lost' = lost \cup {u} /\ UNCHANGED buffered
    /\ UNCHANGED <<dir_vars, disk_vars, content, pc, withheld, fail_vars,
                   history_vars>>

\* The buffer was full.
overflow(u) ==
    /\ pc[u] = "stream" /\ u \notin withheld
    /\ buffered[u] > 0
    /\ buffered' = [buffered EXCEPT ![u] = @ - 1]
    /\ content' = [content EXCEPT ![u] = @ + 1]
    /\ UNCHANGED <<dir_vars, disk_vars, written, lost, pc, withheld, fail_vars,
                   history_vars>>

\* Close fails with the file still open: the user, who called it, keeps the
\* stream, or the destructor, which called it, goes on.  What was to be written
\* may then be written twice or never when Close is called again.
FailOpen(u) ==
    /\ \/ u \notin withheld /\ Fail(u, "stream")
       \/ Fail(u, "unlink")
    /\ lost' \in {lost, lost \cup {u}}

\* Close, called by the user or the destructor: sync() ...
Close_sync(u) ==
    /\ pc[u] = "stream"
    /\ \/ /\ buffered' = [buffered EXCEPT ![u] = 0]
          /\ content' = [content EXCEPT ![u] = @ + buffered[u]]
          /\ Goto(u, "fsync")
          /\ UNCHANGED <<dir_vars, lost, fail_vars>>
       \/ FailOpen(u) /\ UNCHANGED <<buffered, content>>
    /\ UNCHANGED <<disk_vars, written, withheld, history_vars>>

\* Mutant: the data stays in the page cache.
Close_fsync_not(u) ==
    /\ pc[u] = "fsync"
    /\ Goto(u, "close")
    /\ UNCHANGED <<dir_vars, disk_vars, stream_vars, content, withheld,
                   fail_vars, history_vars>>

\* ... fsync() ...
Close_fsync(u) ==
    /\ pc[u] = "fsync"
    /\ \/ /\ disk_content' = [disk_content EXCEPT ![u] = content[u]]
          /\ Goto(u, "close")
          /\ UNCHANGED <<dir_vars, lost, fail_vars>>
       \/ FailOpen(u) /\ UNCHANGED disk_content
    /\ UNCHANGED <<disk_target, disk_temps, written, buffered, content, withheld,
                   history_vars>>

\* ... close() ...
Close_close(u) ==
    /\ pc[u] = "close"
    /\ \/ Goto(u, "rename") /\ UNCHANGED <<dir_vars, fail_vars>>
       \/ Fail(u, "done")
    /\ UNCHANGED <<disk_vars, stream_vars, content, withheld, history_vars>>

\* Mutant: the temporary file stays if it cannot be renamed.
Close_rename_littering(u) ==
    /\ pc[u] = "rename"
    /\ \/ /\ u \in temps
          /\ target' = u
          /\ temps' = temps \ {u}
          /\ renames' = renames + 1
          /\ rank' = [rank EXCEPT ![u] = renames']
          /\ Goto(u, "renamed")
          /\ UNCHANGED fail_vars
       \/ /\ failed' = failed \cup {u}
          /\ Goto(u, "done")
          /\ UNCHANGED <<dir_vars, kept, renames, rank>>
    /\ UNCHANGED <<disk_vars, stream_vars, content, withheld, crashes, synced>>

\* ... and rename(), which fails if the temporary file is not there any more.
Close_rename(u) ==
    /\ pc[u] = "rename"
    /\ \/ /\ u \in temps
          /\ target' = u
          /\ temps' = temps \ {u}
          /\ renames' = renames + 1
          /\ rank' = [rank EXCEPT ![u] = renames']
          /\ Goto(u, "renamed")
          /\ UNCHANGED fail_vars
       \/ Fail(u, "done") /\ UNCHANGED <<renames, rank>>
    /\ UNCHANGED <<disk_vars, stream_vars, content, withheld, crashes, synced>>

\* ~AtomicFileBuf, of a file that is still open.
destroy_open(u) ==
    /\ pc[u] = "unlink"
    /\ unlink(u)
    /\ Goto(u, "done")
    /\ UNCHANGED <<disk_vars, stream_vars, content, withheld, failed,
                   history_vars>>

-----------------------------------------------------------------------------
(* The kernel, the disk and SyncDirectory                                  *)

write_back_file(u) ==
    /\ disk_content' = [disk_content EXCEPT ![u] = content[u]]
    /\ UNCHANGED <<dir_vars, disk_target, disk_temps, stream_vars, content,
                   pc, withheld, fail_vars, history_vars>>

write_back_directory ==
    /\ disk_target' = target
    /\ disk_temps' = temps
    /\ UNCHANGED <<dir_vars, disk_content, stream_vars, content, pc, withheld,
                   fail_vars, history_vars>>

\* Mutant: it is a file of the directory that is synced.
SyncDirectory_file(u) ==
    /\ pc[u] = "renamed"
    /\ Goto(u, "done")
    /\ synced' = synced \cup {u}
    /\ disk_content' = [disk_content EXCEPT ![u] = content[u]]
    /\ UNCHANGED <<dir_vars, disk_target, disk_temps, stream_vars, content,
                   withheld, fail_vars, crashes, renames, rank>>

\* The user syncs the directory after the update.
SyncDirectory(u) ==
    /\ pc[u] = "renamed"
    /\ Goto(u, "done")
    /\ synced' = synced \cup {u}
    /\ disk_target' = target
    /\ disk_temps' = temps
    /\ UNCHANGED <<dir_vars, disk_content, stream_vars, content, withheld,
                   fail_vars, crashes, renames, rank>>

Running(u) == pc[u] \notin {"idle", "done"}

Killed(us) == pc' = [u \in Updates |-> IF u \in us THEN "done" ELSE pc[u]]

\* The process of an update is killed.
kill(u) ==
    /\ Running(u)
    /\ Killed({u})
    /\ UNCHANGED <<dir_vars, disk_vars, stream_vars, content, withheld,
                   fail_vars, history_vars>>

\* The power fails: all are killed, and what is not on the disk is lost.
crash ==
    /\ crashes < MaxCrashes
    /\ crashes' = crashes + 1
    /\ target' = disk_target
    /\ temps' = disk_temps
    /\ content' = disk_content
    /\ Killed({u \in Updates : Running(u)})
    /\ UNCHANGED <<disk_vars, stream_vars, withheld, fail_vars, renames, rank,
                   synced>>

-----------------------------------------------------------------------------
Close(u) == Close_sync(u) \/ Close_fsync(u) \/ Close_close(u) \/ Close_rename(u)

Next ==
    \/ \E u \in Updates :
          \/ refuse(u) \/ OpenFileHandle(u)
          \/ CreateFileStream_fails(u) \/ AdjustOwnership(u)
          \/ write(u) \/ overflow(u) \/ Close(u) \/ destroy_open(u)
          \/ write_back_file(u) \/ SyncDirectory(u) \/ kill(u)
    \/ write_back_directory \/ crash

Spec == Init /\ [][Next]_vars

-----------------------------------------------------------------------------
TypeOK ==
    /\ target \in Updates \cup {Old, NoFile}
    /\ disk_target \in Updates \cup {Old, NoFile}
    /\ temps \subseteq Updates /\ disk_temps \subseteq Updates
    /\ written \in [Updates -> Nat]
    /\ buffered \in [Updates -> Nat]
    /\ content \in [Updates -> Nat]
    /\ disk_content \in [Updates -> Nat]
    /\ lost \subseteq Updates /\ synced \subseteq Updates
    /\ withheld \subseteq Updates
    /\ failed \subseteq Updates /\ kept \subseteq Updates
    /\ pc \in [Updates -> Pcs]
    /\ crashes \in Nat /\ renames \in Nat
    /\ rank \in [Updates -> Nat]

\* "you will always either see the previous content (if any), or the newly
\* written complete data" (i_file_factory.h:57), also after a power failure:
\* what has the name of the target, in the page cache and on the disk, has all
\* the data that was written to it, unless a write to the stream failed, which
\* keeps neither Close nor the destructor from replacing the target, or a sync
\* or fsync failed and unlink() too, which keeps neither from doing so later.
TargetIntact ==
    \A u \in Updates \ lost :
        /\ target = u => content[u] = written[u]
        /\ disk_target = u => disk_content[u] = written[u]

\* An update that failed, at whatever step, has not touched the target, also if
\* its stream is written to and closed again, and leaves no temporary file
\* behind, unless an unlink() of its temporary file failed (file_buf.cpp:47,61,
\* file_factory.cpp:312,326); after a power failure its temporary file may be
\* there again.
FailureLeavesNothing ==
    \A u \in failed \ kept :
        /\ u \notin {target, disk_target}
        /\ crashes = 0 => u \notin temps

\* After SyncDirectory the update survives a power failure: the target is, on
\* the disk, that file or one that was renamed later.
SyncedSurvives ==
    \A u \in synced :
        /\ disk_target \in Updates
        /\ rank[disk_target] >= rank[u]
=============================================================================
