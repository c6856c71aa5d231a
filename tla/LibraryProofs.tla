---------------------------- MODULE LibraryProofs ---------------------------
(***************************************************************************)
(* Proofs about three components that share nothing but this module:       *)
(*  - AtomicUpdate, for any set of updates, any amount of data and any     *)
(*    number of power failures;                                            *)
(*  - SynchronizedQueue, for any number of senders, any length of the      *)
(*    queue and any number of pushes;                                      *)
(*  - SafeMath, whose integer operations are exact for operands and        *)
(*    results of every width and signedness.                               *)
(***************************************************************************)
EXTENDS AtomicUpdate, SynchronizedQueue, SafeMath, TLAPS

-----------------------------------------------------------------------------
(* AtomicUpdate                                                            *)

\* An update whose name is the target's, or may become it, has been written.
Progress(u) ==
    /\ pc[u] = "idle" => content[u] = 0 /\ disk_content[u] = 0
    /\ pc[u] \in {"idle", "opened", "stream"} /\ u \notin lost =>
          buffered[u] + content[u] = written[u]
    /\ pc[u] \in {"fsync", "close", "rename"} /\ u \notin lost =>
          buffered[u] = 0 /\ content[u] = written[u]
    /\ pc[u] \in {"close", "rename"} /\ u \notin lost =>
          disk_content[u] = written[u]
    /\ rank[u] > 0 =>
          /\ pc[u] \in {"renamed", "done"}
          /\ u \notin lost =>
                content[u] = written[u] /\ disk_content[u] = written[u]

\* What is renamed has its rank, and has not failed unless an unlink() has; a
\* failed update of a process that lives has no name unless an unlink() failed.
Renamed(u) ==
    /\ u \in {target, disk_target} \/ pc[u] = "renamed" => rank[u] > 0
    /\ rank[u] > 0 => u \notin failed \ kept
    /\ rank[u] <= renames
    /\ pc[u] = "idle" => u \notin failed \cup temps \cup disk_temps
    /\ u \in failed \ kept /\ (Running(u) \/ crashes = 0) => u \notin temps

\* No rename is undone while its process lives or once it is on the disk.
Latest(u) ==
    /\ pc[u] = "renamed" \/ u \in synced =>
          target \in Updates /\ rank[u] <= rank[target]
    /\ u \in synced =>
          /\ rank[u] > 0
          /\ disk_target \in Updates /\ rank[u] <= rank[disk_target]

\* The inductive invariant.
IInv ==
    /\ TypeOK
    /\ \A u \in Updates : Progress(u) /\ Renamed(u) /\ Latest(u)

-----------------------------------------------------------------------------
\* Nothing is renamed in the beginning.
LEMMA InitIInv == Init => IInv
  BY FilesAssumption, BoundsAssumption
  DEF Init, IInv, TypeOK, Pcs, Progress, Renamed, Latest, Running

\* An early return of AtomicUpdate (file_factory.cpp:260-302): no temporary file
\* was created.
LEMMA refuse_IInv ==
    ASSUME IInv, NEW u \in Updates, refuse(u)
    PROVE  IInv'
<1> USE FilesAssumption, BoundsAssumption
    DEF IInv, refuse, Goto, dir_vars, disk_vars, stream_vars, fail_vars,
        history_vars
<1>1. TypeOK'
  BY Zenon DEF TypeOK, Pcs
<1>2. ASSUME NEW v \in Updates PROVE Progress(v)'
  BY <1>2, Zenon DEF TypeOK, Pcs, Progress, Renamed, Running
<1>3. ASSUME NEW v \in Updates PROVE Renamed(v)'
  BY <1>3, Zenon DEF TypeOK, Pcs, Progress, Renamed, Running
<1>4. ASSUME NEW v \in Updates PROVE Latest(v)'
  BY <1>4, Zenon DEF TypeOK, Pcs, Progress, Renamed, Latest, Running
<1> QED
  BY <1>1, <1>2, <1>3, <1>4, Zenon

\* The temporary file is created empty.
LEMMA OpenFileHandle_IInv ==
    ASSUME IInv, NEW u \in Updates, OpenFileHandle(u)
    PROVE  IInv'
<1> USE FilesAssumption, BoundsAssumption
    DEF IInv, OpenFileHandle, Goto, dir_vars, disk_vars, stream_vars, fail_vars,
        history_vars
<1>1. TypeOK'
  BY Zenon DEF TypeOK, Pcs
<1>2. ASSUME NEW v \in Updates PROVE Progress(v)'
  BY <1>2, Zenon DEF TypeOK, Pcs, Progress, Renamed, Running
<1>3. ASSUME NEW v \in Updates PROVE Renamed(v)'
  BY <1>3, Zenon DEF TypeOK, Pcs, Progress, Renamed, Running
<1>4. ASSUME NEW v \in Updates PROVE Latest(v)'
  BY <1>4, Zenon DEF TypeOK, Pcs, Progress, Renamed, Latest, Running
<1> QED
  BY <1>1, <1>2, <1>3, <1>4, Zenon

\* The temporary file is removed again (file_factory.cpp:308-314).
LEMMA CreateFileStream_fails_IInv ==
    ASSUME IInv, NEW u \in Updates, CreateFileStream_fails(u)
    PROVE  IInv'
<1> USE FilesAssumption, BoundsAssumption
    DEF IInv, CreateFileStream_fails, Goto, Fail, unlink, dir_vars, disk_vars, stream_vars, fail_vars,
        history_vars
<1>1. TypeOK'
  BY Zenon DEF TypeOK, Pcs
<1>2. ASSUME NEW v \in Updates PROVE Progress(v)'
  BY <1>2, Zenon DEF TypeOK, Pcs, Progress, Renamed, Running
<1>3. ASSUME NEW v \in Updates PROVE Renamed(v)'
  BY <1>3, Zenon DEF TypeOK, Pcs, Progress, Renamed, Running
<1>4. ASSUME NEW v \in Updates PROVE Latest(v)'
  BY <1>4, Zenon DEF TypeOK, Pcs, Progress, Renamed, Latest, Running
<1> QED
  BY <1>1, <1>2, <1>3, <1>4, Zenon

\* The file of the stream that is destroyed has no name any more, or unlink()
\* has failed (file_factory.cpp:322-328).
LEMMA AdjustOwnership_IInv ==
    ASSUME IInv, NEW u \in Updates, AdjustOwnership(u)
    PROVE  IInv'
<1> USE FilesAssumption, BoundsAssumption
    DEF IInv, AdjustOwnership, Goto, Fail, unlink, dir_vars, disk_vars, stream_vars, fail_vars,
        history_vars
<1>1. TypeOK'
  BY Zenon DEF TypeOK, Pcs
<1>2. ASSUME NEW v \in Updates PROVE Progress(v)'
  BY <1>2, SMT DEF TypeOK, Pcs, Progress, Renamed, Running
<1>3. ASSUME NEW v \in Updates PROVE Renamed(v)'
  BY <1>3, SMT DEF TypeOK, Pcs, Progress, Renamed, Running
<1>4. ASSUME NEW v \in Updates PROVE Latest(v)'
  BY <1>4, Zenon DEF TypeOK, Pcs, Progress, Renamed, Latest, Running
<1> QED
  BY <1>1, <1>2, <1>3, <1>4, Zenon

\* A write is in the buffer, or the stream is bad.
LEMMA write_IInv ==
    ASSUME IInv, NEW u \in Updates, write(u)
    PROVE  IInv'
<1> USE FilesAssumption, BoundsAssumption
    DEF IInv, write, dir_vars, disk_vars, stream_vars, fail_vars,
        history_vars
<1>1. TypeOK'
  BY SMT DEF TypeOK, Pcs
<1>2. ASSUME NEW v \in Updates PROVE Progress(v)'
  BY <1>2, SMT DEF TypeOK, Pcs, Progress, Renamed, Running
<1>3. ASSUME NEW v \in Updates PROVE Renamed(v)'
  BY <1>3, Zenon DEF TypeOK, Pcs, Progress, Renamed, Running
<1>4. ASSUME NEW v \in Updates PROVE Latest(v)'
  BY <1>4, Zenon DEF TypeOK, Pcs, Progress, Renamed, Latest, Running
<1> QED
  BY <1>1, <1>2, <1>3, <1>4, Zenon

\* A full buffer goes to the file: nothing is written twice or left out.
LEMMA overflow_IInv ==
    ASSUME IInv, NEW u \in Updates, overflow(u)
    PROVE  IInv'
<1> USE FilesAssumption, BoundsAssumption
    DEF IInv, overflow, dir_vars, disk_vars, stream_vars, fail_vars,
        history_vars
<1>1. TypeOK'
  BY SMT DEF TypeOK, Pcs
<1>2. ASSUME NEW v \in Updates PROVE Progress(v)'
  BY <1>2, SMT DEF TypeOK, Pcs, Progress, Renamed, Running
<1>3. ASSUME NEW v \in Updates PROVE Renamed(v)'
  BY <1>3, Zenon DEF TypeOK, Pcs, Progress, Renamed, Running
<1>4. ASSUME NEW v \in Updates PROVE Latest(v)'
  BY <1>4, Zenon DEF TypeOK, Pcs, Progress, Renamed, Latest, Running
<1> QED
  BY <1>1, <1>2, <1>3, <1>4, Zenon

\* sync() leaves nothing in the buffer, or Close removes the temporary file.
LEMMA Close_sync_IInv ==
    ASSUME IInv, NEW u \in Updates, Close_sync(u)
    PROVE  IInv'
<1> USE FilesAssumption, BoundsAssumption
    DEF IInv, Close_sync, Goto, FailOpen, Fail, unlink, dir_vars, disk_vars, stream_vars, fail_vars,
        history_vars
<1>1. TypeOK'
  BY SMT DEF TypeOK, Pcs
<1>2. ASSUME NEW v \in Updates PROVE Progress(v)'
  BY <1>2, SMT DEF TypeOK, Pcs, Progress, Renamed, Running
<1>3. ASSUME NEW v \in Updates PROVE Renamed(v)'
  BY <1>3, SMT DEF TypeOK, Pcs, Progress, Renamed, Running
<1>4. ASSUME NEW v \in Updates PROVE Latest(v)'
  BY <1>4, Zenon DEF TypeOK, Pcs, Progress, Renamed, Latest, Running
<1> QED
  BY <1>1, <1>2, <1>3, <1>4, Zenon

\* After fsync() all of the file is on the disk.
LEMMA Close_fsync_IInv ==
    ASSUME IInv, NEW u \in Updates, Close_fsync(u)
    PROVE  IInv'
<1> USE FilesAssumption, BoundsAssumption
    DEF IInv, Close_fsync, Goto, FailOpen, Fail, unlink, dir_vars, disk_vars, stream_vars, fail_vars,
        history_vars
<1>1. TypeOK'
  BY Zenon DEF TypeOK, Pcs
<1>2. ASSUME NEW v \in Updates PROVE Progress(v)'
  BY <1>2, SMT DEF TypeOK, Pcs, Progress, Renamed, Running
<1>3. ASSUME NEW v \in Updates PROVE Renamed(v)'
  BY <1>3, SMT DEF TypeOK, Pcs, Progress, Renamed, Running
<1>4. ASSUME NEW v \in Updates PROVE Latest(v)'
  BY <1>4, Zenon DEF TypeOK, Pcs, Progress, Renamed, Latest, Running
<1> QED
  BY <1>1, <1>2, <1>3, <1>4, Zenon

\* close() changes neither file nor disk.
LEMMA Close_close_IInv ==
    ASSUME IInv, NEW u \in Updates, Close_close(u)
    PROVE  IInv'
<1> USE FilesAssumption, BoundsAssumption
    DEF IInv, Close_close, Goto, Fail, unlink, dir_vars, disk_vars, stream_vars, fail_vars,
        history_vars
<1>1. TypeOK'
  BY Zenon DEF TypeOK, Pcs
<1>2. ASSUME NEW v \in Updates PROVE Progress(v)'
  BY <1>2, SMT DEF TypeOK, Pcs, Progress, Renamed, Running
<1>3. ASSUME NEW v \in Updates PROVE Renamed(v)'
  BY <1>3, SMT DEF TypeOK, Pcs, Progress, Renamed, Running
<1>4. ASSUME NEW v \in Updates PROVE Latest(v)'
  BY <1>4, SMT DEF TypeOK, Pcs, Progress, Renamed, Latest, Running
<1> QED
  BY <1>1, <1>2, <1>3, <1>4, Zenon

\* The rename is the latest of all, and that of a file that is on the disk; there
\* is none if an earlier Close failed and its unlink() has not.
LEMMA Close_rename_IInv ==
    ASSUME IInv, NEW u \in Updates, Close_rename(u)
    PROVE  IInv'
<1> USE FilesAssumption, BoundsAssumption
    DEF IInv, Close_rename, Goto, Fail, unlink, dir_vars, disk_vars, stream_vars, fail_vars,
        history_vars
<1>1. TypeOK'
  BY SMT DEF TypeOK, Pcs
<1>2. ASSUME NEW v \in Updates PROVE Progress(v)'
  BY <1>2, SMT DEF TypeOK, Pcs, Progress, Renamed, Running
<1>3. ASSUME NEW v \in Updates PROVE Renamed(v)'
  BY <1>3, SMT DEF TypeOK, Pcs, Progress, Renamed, Running
<1>4. ASSUME NEW v \in Updates PROVE Latest(v)'
  <2>1. CASE target' = target /\ rank' = rank
    BY <1>4, <2>1, SMT DEF TypeOK, Pcs, Progress, Renamed, Latest
  <2>2. CASE target' = u /\ rank' = [rank EXCEPT ![u] = renames + 1]
    <3>1. rank'[u] = renames + 1 /\ rank'[v] <= renames + 1
      BY <2>2, SMT DEF TypeOK, Renamed
    <3>2. disk_target \in Updates => rank[disk_target] <= rank'[disk_target]
      BY <2>2, SMT DEF TypeOK, Renamed
    <3>3. v \in synced => rank'[v] = rank[v]
      BY <2>2, Zenon DEF TypeOK, Latest, Renamed, Progress
    <3> QED
      BY <2>2, <3>1, <3>2, <3>3, Zenon DEF TypeOK, Latest
  <2> QED
    BY <2>1, <2>2, Zenon
<1> QED
  BY <1>1, <1>2, <1>3, <1>4, Zenon

\* The unlink() of the destructor makes no other file the target.
LEMMA destroy_open_IInv ==
    ASSUME IInv, NEW u \in Updates, destroy_open(u)
    PROVE  IInv'
<1> USE FilesAssumption, BoundsAssumption
    DEF IInv, destroy_open, Goto, unlink, dir_vars, disk_vars, stream_vars,
        fail_vars, history_vars
<1>1. TypeOK'
  BY Zenon DEF TypeOK, Pcs
<1>2. ASSUME NEW v \in Updates PROVE Progress(v)'
  BY <1>2, Zenon DEF TypeOK, Pcs, Progress, Renamed, Running
<1>3. ASSUME NEW v \in Updates PROVE Renamed(v)'
  BY <1>3, SMT DEF TypeOK, Pcs, Progress, Renamed, Running
<1>4. ASSUME NEW v \in Updates PROVE Latest(v)'
  BY <1>4, Zenon DEF TypeOK, Pcs, Progress, Renamed, Latest, Running
<1> QED
  BY <1>1, <1>2, <1>3, <1>4, Zenon

\* The kernel writes back no more than there is in the file.
LEMMA write_back_file_IInv ==
    ASSUME IInv, NEW u \in Updates, write_back_file(u)
    PROVE  IInv'
<1> USE FilesAssumption, BoundsAssumption
    DEF IInv, write_back_file, dir_vars, disk_vars, stream_vars, fail_vars,
        history_vars
<1>1. TypeOK'
  BY Zenon DEF TypeOK, Pcs
<1>2. ASSUME NEW v \in Updates PROVE Progress(v)'
  BY <1>2, Zenon DEF TypeOK, Pcs, Progress, Renamed, Running
<1>3. ASSUME NEW v \in Updates PROVE Renamed(v)'
  BY <1>3, Zenon DEF TypeOK, Pcs, Progress, Renamed, Running
<1>4. ASSUME NEW v \in Updates PROVE Latest(v)'
  BY <1>4, Zenon DEF TypeOK, Pcs, Progress, Renamed, Latest, Running
<1> QED
  BY <1>1, <1>2, <1>3, <1>4, Zenon

\* As its process lives, no power failure has undone the rename: the target on
\* the disk becomes that file or a later one.
LEMMA SyncDirectory_IInv ==
    ASSUME IInv, NEW u \in Updates, SyncDirectory(u)
    PROVE  IInv'
<1> USE FilesAssumption, BoundsAssumption
    DEF IInv, SyncDirectory, Goto, dir_vars, disk_vars, stream_vars, fail_vars,
        history_vars
<1>1. TypeOK'
  BY Zenon DEF TypeOK, Pcs
<1>2. ASSUME NEW v \in Updates PROVE Progress(v)'
  BY <1>2, Zenon DEF TypeOK, Pcs, Progress, Renamed, Running
<1>3. ASSUME NEW v \in Updates PROVE Renamed(v)'
  BY <1>3, Zenon DEF TypeOK, Pcs, Progress, Renamed, Running
<1>4. ASSUME NEW v \in Updates PROVE Latest(v)'
  BY <1>4, Zenon DEF TypeOK, Pcs, Progress, Renamed, Latest, Running
<1> QED
  BY <1>1, <1>2, <1>3, <1>4, Zenon

\* A process that ends leaves its temporary file as it is.
LEMMA kill_IInv ==
    ASSUME IInv, NEW u \in Updates, kill(u)
    PROVE  IInv'
<1> USE FilesAssumption, BoundsAssumption
    DEF IInv, kill, Killed, dir_vars, disk_vars, stream_vars, fail_vars,
        history_vars
<1>1. TypeOK'
  BY Zenon DEF TypeOK, Pcs
<1>2. ASSUME NEW v \in Updates PROVE Progress(v)'
  BY <1>2, Zenon DEF TypeOK, Pcs, Progress, Renamed, Running
<1>3. ASSUME NEW v \in Updates PROVE Renamed(v)'
  BY <1>3, Zenon DEF TypeOK, Pcs, Progress, Renamed, Running
<1>4. ASSUME NEW v \in Updates PROVE Latest(v)'
  BY <1>4, Zenon DEF TypeOK, Pcs, Progress, Renamed, Latest, Running
<1> QED
  BY <1>1, <1>2, <1>3, <1>4, Zenon

\* What becomes the target on the disk was renamed after its fsync().
LEMMA write_back_directory_IInv ==
    ASSUME IInv, write_back_directory
    PROVE  IInv'
<1> USE FilesAssumption, BoundsAssumption
    DEF IInv, write_back_directory, dir_vars, disk_vars, stream_vars, fail_vars,
        history_vars
<1>1. TypeOK'
  BY Zenon DEF TypeOK, Pcs
<1>2. ASSUME NEW v \in Updates PROVE Progress(v)'
  BY <1>2, Zenon DEF TypeOK, Pcs, Progress, Renamed, Running
<1>3. ASSUME NEW v \in Updates PROVE Renamed(v)'
  BY <1>3, Zenon DEF TypeOK, Pcs, Progress, Renamed, Running
<1>4. ASSUME NEW v \in Updates PROVE Latest(v)'
  BY <1>4, Zenon DEF TypeOK, Pcs, Progress, Renamed, Latest, Running
<1> QED
  BY <1>1, <1>2, <1>3, <1>4, Zenon

\* Whatever is the target on the disk is there completely.
LEMMA crash_IInv ==
    ASSUME IInv, crash
    PROVE  IInv'
<1> USE FilesAssumption, BoundsAssumption
    DEF IInv, crash, Killed, dir_vars, disk_vars, stream_vars, fail_vars,
        history_vars
<1>1. TypeOK'
  BY SMT DEF TypeOK, Pcs
<1>2. ASSUME NEW v \in Updates PROVE Progress(v)'
  BY <1>2, SMT DEF TypeOK, Pcs, Progress, Renamed, Running
<1>3. ASSUME NEW v \in Updates PROVE Renamed(v)'
  BY <1>3, SMT DEF TypeOK, Pcs, Progress, Renamed, Running
<1>4. ASSUME NEW v \in Updates PROVE Latest(v)'
  BY <1>4, Zenon DEF TypeOK, Pcs, Progress, Renamed, Latest, Running
<1> QED
  BY <1>1, <1>2, <1>3, <1>4, Zenon

-----------------------------------------------------------------------------
\* IInv depends on the variables only.
LEMMA StutterIInv == IInv /\ UNCHANGED vars => IInv'
  BY DEF IInv, TypeOK, Progress, Renamed, Latest, Running, vars, dir_vars,
         disk_vars, stream_vars, fail_vars, history_vars

\* Every step keeps IInv.
LEMMA NextIInv == IInv /\ [Next]_vars => IInv'
<1> SUFFICES ASSUME IInv, Next PROVE IInv'
  BY StutterIInv, Zenon
<1>1. ASSUME NEW u \in Updates, Close(u) PROVE IInv'
  BY <1>1, Close_sync_IInv, Close_fsync_IInv, Close_close_IInv,
     Close_rename_IInv, Zenon DEF Close
<1>2. ASSUME NEW u \in Updates,
             \/ refuse(u) \/ OpenFileHandle(u)
             \/ CreateFileStream_fails(u) \/ AdjustOwnership(u)
      PROVE  IInv'
  BY <1>2, refuse_IInv, OpenFileHandle_IInv, CreateFileStream_fails_IInv,
     AdjustOwnership_IInv, Zenon
<1>3. ASSUME NEW u \in Updates,
             \/ write(u) \/ overflow(u) \/ destroy_open(u)
             \/ write_back_file(u) \/ SyncDirectory(u) \/ kill(u)
      PROVE  IInv'
  BY <1>3, write_IInv, overflow_IInv, destroy_open_IInv, write_back_file_IInv,
     SyncDirectory_IInv, kill_IInv, Zenon
<1> QED
  BY <1>1, <1>2, <1>3, write_back_directory_IInv, crash_IInv, Zenon DEF Next

\* IInv is an invariant.
LEMMA SpecIInv == Spec => []IInv
  BY InitIInv, NextIInv, PTL DEF Spec

\* What AtomicUpdate promises, across failures of every step and power
\* failures: the target is never a file that lacks data, unless a write to the
\* stream failed.
THEOREM TargetIsIntact == Spec => []TargetIntact
<1>1. IInv => TargetIntact
  <2> SUFFICES ASSUME IInv, NEW u \in Updates, u \notin lost,
                      u \in {target, disk_target}
               PROVE  content[u] = written[u] /\ disk_content[u] = written[u]
    BY Zenon DEF TargetIntact
  <2> QED
    BY Zenon DEF IInv, Progress, Renamed
<1> QED
  BY <1>1, SpecIInv, PTL

\* An update with an error of AtomicUpdate or Close is never seen under the
\* target's name and has removed its temporary file, whatever it writes and
\* closes later, unless an unlink() of that file failed, which both ignore
\* (file_buf.cpp:47,61, file_factory.cpp:312,326).
THEOREM FailuresLeaveNothing == Spec => []FailureLeavesNothing
<1>1. IInv => FailureLeavesNothing
  BY Zenon DEF IInv, TypeOK, Renamed, FailureLeavesNothing
<1> QED
  BY <1>1, SpecIInv, PTL

\* No power failure undoes an update that SyncDirectory was called for.
THEOREM SyncedUpdatesSurvive == Spec => []SyncedSurvives
<1>1. IInv => SyncedSurvives
  <2> SUFFICES ASSUME IInv, NEW u \in synced
               PROVE  disk_target \in Updates /\ rank[disk_target] >= rank[u]
    BY Zenon DEF SyncedSurvives
  <2> QED
    BY Zenon DEF IInv, TypeOK, Latest
<1> QED
  BY <1>1, SpecIInv, PTL

-----------------------------------------------------------------------------
(* SynchronizedQueue                                                       *)


\* Who is in a critical section of the queue's mutex holds it.
MutexHeld ==
    /\ mutex = Reader <=> reader \in {"reset", "take"}
    /\ \A s \in Senders : mutex = s <=> sender[s] \in {"notify", "notify_all"}

\* The item of a push has a number.
PushCounted == \A s \in Senders : sender[s] # "idle" => pushes[s] # 0

\* Signal and queue: a signal, a sender that is about to signal and a reader
\* that is about to take all stand for an item in the queue.
SignalInv ==
    /\ notified_yet => queue # <<>>
    /\ mutex # None => queue # <<>>
    /\ reader = "lock" => notified_yet
    /\ reader = "take" => ~notified_yet

\* A reader that waits unsignalled overlooks at most the item of a push that
\* is about to signal.
UnsignalledInv ==
    reader \in {"wait", "asleep"} /\ ~notified_yet =>
        \/ queue = <<>>
        \/ Len(queue) = 1 /\ \E s \in Senders : sender[s] = "notify"

QueueIInv == QueueTypeOK /\ MutexHeld /\ PushCounted /\ SignalInv /\ UnsignalledInv
        /\ FirstInFirstOut
-----------------------------------------------------------------------------
\* An item moves from the front of one sequence to the end of another: the
\* two together stay what they are.
LEMMA MoveFront ==
    ASSUME NEW S, NEW p \in Seq(S), NEW q \in Seq(S), q # <<>>
    PROVE  /\ Append(p, Head(q)) \o Tail(q) = p \o q
           /\ Append(p, Head(q)) \in Seq(S) /\ Tail(q) \in Seq(S)
           /\ Len(Tail(q)) = Len(q) - 1 /\ Len(q) \in Nat
  OBVIOUS

\* An item is appended to the second of two sequences.
LEMMA AppendSecond ==
    ASSUME NEW S, NEW p \in Seq(S), NEW q \in Seq(S), NEW e \in S
    PROVE  /\ p \o Append(q, e) = Append(p \o q, e)
           /\ Append(q, e) \in Seq(S) /\ Append(p \o q, e) \in Seq(S)
           /\ Len(Append(q, e)) = Len(q) + 1 /\ Append(q, e) # <<>>
           /\ Len(q) \in Nat /\ (Len(q) = 0 <=> q = <<>>)
  OBVIOUS

\* The constructor establishes the invariant.
LEMMA QueueInitInv == ASSUME QueueInit PROVE QueueIInv
<1> USE QueueAssumption DEF QueueInit
<1>1. QueueTypeOK
  <2>1. <<>> \in Seq(Items) /\ Len(<<>>) = 0
    OBVIOUS
  <2>2. queue \in Seq(Items) /\ Len(queue) <= MaxLength
    BY <2>1
  <2>3. accepted \in Seq(Items) /\ popped \in Seq(Items)
    BY <2>1
  <2>4. /\ sender \in [Senders -> {"idle", "lock", "notify", "notify_all"}]
        /\ pushes \in [Senders -> 0 .. MaxPushes]
    OBVIOUS
  <2> QED
    BY <2>2, <2>3, <2>4 DEF QueueTypeOK
<1>2. MutexHeld /\ PushCounted /\ SignalInv /\ UnsignalledInv
  BY DEF MutexHeld, PushCounted, SignalInv, UnsignalledInv
<1>3. FirstInFirstOut
  BY DEF FirstInFirstOut
<1> QED
  BY <1>1, <1>2, <1>3 DEF QueueIInv

\* Pop preserves the invariant: it waits only if the queue is empty.
LEMMA PopInv ==
    ASSUME QueueIInv, Pop
    PROVE  QueueIInv'
<1> USE QueueAssumption DEF QueueIInv, Pop, NothingQueued, sender_vars
<1>1. QueueTypeOK'
  BY DEF QueueTypeOK, PushCounted, Items
<1>2. MutexHeld'
  BY DEF QueueTypeOK, MutexHeld
<1>3. PushCounted'
  BY DEF QueueTypeOK, PushCounted
<1>4. SignalInv'
  BY DEF QueueTypeOK, MutexHeld, SignalInv
<1>5. UnsignalledInv'
  BY DEF QueueTypeOK, MutexHeld, SignalInv, UnsignalledInv
<1>6. FirstInFirstOut'
  BY DEF FirstInFirstOut
<1> QED
  BY <1>1, <1>2, <1>3, <1>4, <1>5, <1>6

\* So does a turn of the wait, which only reads the signal.
LEMMA WaitInv ==
    ASSUME QueueIInv, WaitForWithAbort
    PROVE  QueueIInv'
<1> USE QueueAssumption DEF QueueIInv, WaitForWithAbort, sender_vars
<1>1. QueueTypeOK'
  BY DEF QueueTypeOK, PushCounted, Items
<1>2. MutexHeld'
  BY DEF QueueTypeOK, MutexHeld
<1>3. PushCounted'
  BY DEF QueueTypeOK, PushCounted
<1>4. SignalInv'
  BY DEF QueueTypeOK, MutexHeld, SignalInv
<1>5. UnsignalledInv'
  BY DEF QueueTypeOK, MutexHeld, SignalInv, UnsignalledInv
<1>6. FirstInFirstOut'
  BY DEF FirstInFirstOut
<1> QED
  BY <1>1, <1>2, <1>3, <1>4, <1>5, <1>6

\* So does whatever wakes the reader without a signal.
LEMMA WakeUpInv ==
    ASSUME QueueIInv, SpuriousWakeUp \/ Expire \/ RequestStop
    PROVE  QueueIInv'
<1> USE QueueAssumption DEF QueueIInv, SpuriousWakeUp, Expire, RequestStop, StopWakes, Wake, sender_vars
<1>1. QueueTypeOK'
  BY DEF QueueTypeOK, PushCounted, Items
<1>2. MutexHeld'
  BY DEF QueueTypeOK, MutexHeld
<1>3. PushCounted'
  BY DEF QueueTypeOK, PushCounted
<1>4. SignalInv'
  BY DEF QueueTypeOK, MutexHeld, SignalInv
<1>5. UnsignalledInv'
  BY DEF QueueTypeOK, MutexHeld, SignalInv, UnsignalledInv
<1>6. FirstInFirstOut'
  BY DEF FirstInFirstOut
<1> QED
  BY <1>1, <1>2, <1>3, <1>4, <1>5, <1>6

\* So does taking the mutex after a signal.
LEMMA LockInv ==
    ASSUME QueueIInv, Pop_lock
    PROVE  QueueIInv'
<1> USE QueueAssumption DEF QueueIInv, Pop_lock, sender_vars
<1>1. QueueTypeOK'
  BY DEF QueueTypeOK, PushCounted, Items
<1>2. MutexHeld'
  BY DEF QueueTypeOK, MutexHeld
<1>3. PushCounted'
  BY DEF QueueTypeOK, PushCounted
<1>4. SignalInv'
  BY DEF QueueTypeOK, MutexHeld, SignalInv
<1>5. UnsignalledInv'
  BY DEF QueueTypeOK, MutexHeld, SignalInv, UnsignalledInv
<1>6. FirstInFirstOut'
  BY DEF FirstInFirstOut
<1> QED
  BY <1>1, <1>2, <1>3, <1>4, <1>5, <1>6

\* So does the reset of the signal.
LEMMA ResetInv ==
    ASSUME QueueIInv, Reset
    PROVE  QueueIInv'
<1> USE QueueAssumption DEF QueueIInv, Reset, sender_vars
<1>1. QueueTypeOK'
  BY DEF QueueTypeOK, PushCounted, Items
<1>2. MutexHeld'
  BY DEF QueueTypeOK, MutexHeld
<1>3. PushCounted'
  BY DEF QueueTypeOK, PushCounted
<1>4. SignalInv'
  BY DEF QueueTypeOK, MutexHeld, SignalInv
<1>5. UnsignalledInv'
  BY DEF QueueTypeOK, MutexHeld, SignalInv, UnsignalledInv
<1>6. FirstInFirstOut'
  BY DEF FirstInFirstOut
<1> QED
  BY <1>1, <1>2, <1>3, <1>4, <1>5, <1>6

\* So does taking the item: the signal was reset under the same mutex.
LEMMA TakeInv ==
    ASSUME QueueIInv, Pop_take
    PROVE  QueueIInv'
<1> USE QueueAssumption DEF QueueIInv, Pop_take, sender_vars
<1>1. QueueTypeOK'
  BY DEF QueueTypeOK, PushCounted, Items
<1>2. MutexHeld'
  BY DEF QueueTypeOK, MutexHeld
<1>3. PushCounted'
  BY DEF QueueTypeOK, PushCounted
<1>4. SignalInv'
  BY DEF QueueTypeOK, MutexHeld, SignalInv
<1>5. UnsignalledInv'
  BY DEF QueueTypeOK, MutexHeld, SignalInv, UnsignalledInv
<1>6. FirstInFirstOut'
  <2>1. popped \in Seq(Items) /\ queue \in Seq(Items) /\ queue # <<>>
    BY DEF QueueTypeOK
  <2>2. Append(popped, Head(queue)) \o Tail(queue) = popped \o queue
    BY ONLY <2>1, MoveFront, Zenon
  <2> QED
    BY <2>2 DEF FirstInFirstOut
<1> QED
  BY <1>1, <1>2, <1>3, <1>4, <1>5, <1>6

\* So does the destructor of the queue.
LEMMA DestroyInv ==
    ASSUME QueueIInv, Destroy
    PROVE  QueueIInv'
<1> USE QueueAssumption DEF QueueIInv, Destroy, sender_vars, reader_vars
<1>1. QueueTypeOK'
  BY DEF QueueTypeOK, PushCounted, Items
<1>2. MutexHeld'
  BY DEF QueueTypeOK, MutexHeld
<1>3. PushCounted'
  BY DEF QueueTypeOK, PushCounted
<1>4. SignalInv'
  BY DEF QueueTypeOK, MutexHeld, SignalInv
<1>5. UnsignalledInv'
  BY DEF QueueTypeOK, MutexHeld, SignalInv, UnsignalledInv
<1>6. FirstInFirstOut'
  BY DEF FirstInFirstOut
<1> QED
  BY <1>1, <1>2, <1>3, <1>4, <1>5, <1>6

\* So does a push that begins.
LEMMA PushInv ==
    ASSUME QueueIInv, NEW s \in Senders, Push(s)
    PROVE  QueueIInv'
<1> USE QueueAssumption DEF QueueIInv, Push, reader_vars
<1>1. QueueTypeOK'
  BY DEF QueueTypeOK, PushCounted, Items
<1>2. MutexHeld'
  BY DEF QueueTypeOK, MutexHeld
<1>3. PushCounted'
  BY DEF QueueTypeOK, PushCounted
<1>4. SignalInv'
  BY DEF QueueTypeOK, MutexHeld, SignalInv
<1>5. UnsignalledInv'
  BY DEF QueueTypeOK, MutexHeld, SignalInv, UnsignalledInv
<1>6. FirstInFirstOut'
  BY DEF FirstInFirstOut
<1> QED
  BY <1>1, <1>2, <1>3, <1>4, <1>5, <1>6

\* So does adding an item, before it is signalled.
LEMMA PushBackInv ==
    ASSUME QueueIInv, NEW s \in Senders, Push_back(s)
    PROVE  QueueIInv'
<1> USE QueueAssumption DEF QueueIInv, Push_back, HasRoom, PushBack, reader_vars
<1> DEFINE item == <<s, pushes[s]>>
<1>0. CASE ~HasRoom
  BY <1>0 DEF QueueTypeOK, MutexHeld, PushCounted, SignalInv, UnsignalledInv,
     FirstInFirstOut
<1> SUFFICES ASSUME HasRoom PROVE QueueIInv'
  BY <1>0
<1>a. /\ item \in Items
      /\ queue \in Seq(Items) /\ popped \in Seq(Items)
  BY DEF QueueTypeOK, PushCounted, Items
<1> HIDE DEF item
<1>b. /\ popped \o Append(queue, item) = Append(popped \o queue, item)
      /\ Append(queue, item) \in Seq(Items)
      /\ Append(popped \o queue, item) \in Seq(Items)
      /\ Len(Append(queue, item)) = Len(queue) + 1
      /\ Append(queue, item) # <<>> /\ Len(queue) \in Nat
      /\ (Len(queue) = 0 <=> queue = <<>>)
  BY ONLY <1>a, AppendSecond, SMT
<1>c. /\ queue' = Append(queue, item) /\ accepted' = Append(accepted, item)
      /\ mutex = None /\ mutex' = s
      /\ sender' = [sender EXCEPT ![s] = "notify"]
      /\ UNCHANGED <<popped, reader, notified_yet>>
  BY DEF item
<1>1. QueueTypeOK'
  BY <1>b, <1>c DEF QueueTypeOK, FirstInFirstOut
<1>2. MutexHeld'
  BY DEF QueueTypeOK, MutexHeld
<1>3. PushCounted'
  BY DEF QueueTypeOK, PushCounted
<1>4. SignalInv'
  BY <1>b, <1>c DEF SignalInv
<1>5. UnsignalledInv'
  <2> SUFFICES ASSUME reader \in {"wait", "asleep"}, ~notified_yet
               PROVE  Len(queue') = 1 /\ sender'[s] = "notify"
    BY <1>c DEF UnsignalledInv
  <2>1. queue = <<>>
    BY <1>c DEF QueueTypeOK, MutexHeld, UnsignalledInv
  <2> QED
    BY <2>1, <1>b, <1>c DEF QueueTypeOK
<1>6. FirstInFirstOut'
  BY <1>b, <1>c DEF FirstInFirstOut
<1> QED
  BY <1>1, <1>2, <1>3, <1>4, <1>5, <1>6

\* So does signalling it.
LEMMA NotifyInv ==
    ASSUME QueueIInv, NEW s \in Senders, Push_notify(s)
    PROVE  QueueIInv'
<1> USE QueueAssumption DEF QueueIInv, Push_notify, Notify, Wake
<1>1. QueueTypeOK'
  BY DEF QueueTypeOK, PushCounted, Items
<1>2. MutexHeld'
  BY DEF QueueTypeOK, MutexHeld
<1>3. PushCounted'
  BY DEF QueueTypeOK, PushCounted
<1>4. SignalInv'
  BY DEF QueueTypeOK, MutexHeld, SignalInv
<1>5. UnsignalledInv'
  BY DEF QueueTypeOK, MutexHeld, SignalInv, UnsignalledInv
<1>6. FirstInFirstOut'
  BY DEF FirstInFirstOut
<1> QED
  BY <1>1, <1>2, <1>3, <1>4, <1>5, <1>6

\* The constructor, every Pop and every push keep signal, mutex and queue
\* consistent (the inductive invariant).
THEOREM QueueInvariant == QueueSpec => []QueueIInv
<1>1. QueueInit => QueueIInv
  BY QueueInitInv
<1>2. QueueIInv /\ [QueueNext]_queue_vars => QueueIInv'
  <2> SUFFICES ASSUME QueueIInv, [QueueNext]_queue_vars PROVE QueueIInv'
    OBVIOUS
  <2>1. CASE UNCHANGED queue_vars
    BY <2>1 DEF QueueIInv, QueueTypeOK, MutexHeld, PushCounted, SignalInv,
       UnsignalledInv, FirstInFirstOut, queue_vars, sender_vars, reader_vars
  <2>2. CASE Pop \/ ReaderStep \/ SpuriousWakeUp \/ Expire \/ Destroy
             \/ RequestStop
    BY <2>2, PopInv, WaitInv, WakeUpInv, LockInv, ResetInv, TakeInv,
       DestroyInv DEF ReaderStep
  <2>3. CASE \E s \in Senders : Push(s) \/ SenderStep(s)
    BY <2>3, PushInv, PushBackInv, NotifyInv DEF SenderStep
  <2> QED
    BY <2>1, <2>2, <2>3 DEF QueueNext
<1> QED
  BY <1>1, <1>2, PTL DEF QueueSpec

\* Types, and the length of the queue keeps to max_queue_length_ (push).
THEOREM QueueTypeCorrect == QueueSpec => []QueueTypeOK
<1>1. QueueIInv => QueueTypeOK
  BY DEF QueueIInv
<1> QED
  BY <1>1, QueueInvariant, PTL

\* The assertion "Signal received with empty queue" of Pop cannot fail.
THEOREM AssertionHolds == QueueSpec => []SignalMeansItem
<1>1. QueueIInv => SignalMeansItem
  BY QueueAssumption DEF QueueIInv, SignalMeansItem, SignalInv, MutexHeld
<1> QED
  BY <1>1, QueueInvariant, PTL

\* Pop returns what push accepted, in order, nothing lost and nothing twice.
THEOREM InOrder == QueueSpec => []FirstInFirstOut
<1>1. QueueIInv => FirstInFirstOut
  BY DEF QueueIInv
<1> QED
  BY <1>1, QueueInvariant, PTL

\* A Pop that gives up has overlooked no push that was over.
THEOREM NoneOverlooked == QueueSpec => NothingOverlooked
<1> DEFINE Step == reader = "wait" /\ reader' = "idle" =>
                       \/ queue = <<>>
                       \/ /\ Len(queue) = 1
                          /\ \E s \in Senders : sender[s] = "notify"
<1>1. QueueIInv /\ [QueueNext]_queue_vars => [Step]_queue_vars
  <2> SUFFICES ASSUME QueueIInv, QueueNext, reader = "wait", reader' = "idle"
               PROVE  ~notified_yet
    BY DEF QueueIInv, UnsignalledInv
  <2> QED
    BY DEF QueueNext, Pop, ReaderStep, WaitForWithAbort, Pop_lock, Reset, Pop_take,
       SpuriousWakeUp, Expire, Destroy, RequestStop, StopWakes, Wake, Push,
       SenderStep, Push_back, Push_notify, Notify, reader_vars
<1> QED
  BY <1>1, QueueInvariant, PTL DEF QueueSpec, NothingOverlooked

-----------------------------------------------------------------------------
(* SafeMath: first that no cast wraps, then the comparisons, then Cast,    *)
(* Abs and Negate, and on them the arithmetic of the overloads.            *)

\* What an operation with the mathematical result v returns in the type R.
Exact(R, v) == IF In(R, v) THEN Value(v) ELSE Unexpected

\* A number below the modulus is its own remainder.
LEMMA ModIdentity ==
    ASSUME NEW a \in Nat, NEW n \in Nat, a < n
    PROVE  a % n = a
BY SMT

\* The limits of a type, and that every type has the value 0.
LEMMA TypeRange ==
    ASSUME Widths, NEW T \in Types
    PROVE  /\ T.half \in Nat /\ T.half > 0 /\ T.half <= WidestHalf
           /\ T.signed \in BOOLEAN
           /\ lowest(T) \in Int /\ max(T) \in Int
           /\ T.signed => lowest(T) = -T.half /\ max(T) = T.half - 1
           /\ ~T.signed => lowest(T) = 0 /\ max(T) = T.half + T.half - 1
           /\ In(T, 0)
BY SMT DEF Widths, Types, lowest, max, In

\* A static_cast of a value the target type can hold does not wrap. Every cast
\* the code makes is shown to be of this kind.
LEMMA CastInRange ==
    ASSUME Widths, NEW T \in Types, NEW v \in Int, In(T, v)
    PROVE  static_cast(T, v) = v
<1> DEFINE a == v - lowest(T)
           n == T.half + T.half
<1>1. a \in Nat /\ n \in Nat /\ a < n
  BY TypeRange, SMT DEF In
<1>2. a % n = a
  BY <1>1, ModIdentity, Zenon
<1> QED BY <1>2, TypeRange, SMT DEF static_cast

\* What std::make_unsigned_t, std::make_signed_t and bigger_type_t return.
LEMMA MadeTypes ==
    ASSUME Widths, NEW T \in Types, NEW U \in Types
    PROVE  /\ make_unsigned(T) \in Types /\ ~make_unsigned(T).signed
           /\ make_unsigned(T).half = T.half
           /\ make_signed(T) \in Types /\ make_signed(T).signed
           /\ make_signed(T).half = T.half
           /\ bigger_type(T, U) \in Types
           /\ bigger_type(T, U).half >= T.half /\ bigger_type(T, U).half >= U.half
           /\ (T.signed <=> U.signed) => (bigger_type(T, U).signed <=> T.signed)
           /\ int \in Types /\ int.signed
           /\ uint64_t \in Types /\ ~uint64_t.signed /\ uint64_t.half = WidestHalf
<1>1. /\ make_unsigned(T) \in Types /\ ~make_unsigned(T).signed
      /\ make_unsigned(T).half = T.half
  BY Zenon DEF Types, make_unsigned
<1>2. /\ make_signed(T) \in Types /\ make_signed(T).signed
      /\ make_signed(T).half = T.half
  BY Zenon DEF Types, make_signed
<1>3. CASE T.half >= U.half
  BY <1>1, <1>2, <1>3, SMT DEF Types, bigger_type, Widths, int, uint64_t
<1>4. CASE ~(T.half >= U.half)
  BY <1>1, <1>2, <1>4, SMT DEF Types, bigger_type, Widths, int, uint64_t
<1> QED BY <1>3, <1>4

\* The range of a type by its signedness.
LEMMA InRange ==
    ASSUME Widths, NEW T \in Types, NEW v \in Int
    PROVE  /\ T.signed => (In(T, v) <=> -T.half <= v /\ v < T.half)
           /\ ~T.signed => (In(T, v) <=> 0 <= v /\ v < T.half + T.half)
<1>1. CASE T.signed
  BY <1>1, TypeRange, SMT DEF In
<1>2. CASE ~T.signed
  BY <1>2, TypeRange, SMT DEF In
<1> QED BY <1>1, <1>2

\* A cast to a type at least as wide keeps the value, if the signedness is the
\* same or the value is not negative.
LEMMA Widening ==
    ASSUME Widths, NEW T \in Types, NEW B \in Types, B.half >= T.half,
           NEW v \in Int, In(T, v), (B.signed <=> T.signed) \/ (~B.signed /\ v >= 0)
    PROVE  In(B, v) /\ static_cast(B, v) = v
<1>1. In(B, v)
  <2>1. CASE ~B.signed
    <3>1. v >= 0 /\ v < T.half + T.half
      <4>1. CASE T.signed
        BY <2>1, <4>1, InRange, TypeRange, SMT
      <4>2. CASE ~T.signed
        BY <2>1, <4>2, InRange, TypeRange, Zenon
      <4> QED BY <4>1, <4>2
    <3> QED BY <2>1, <3>1, InRange, TypeRange, SMT
  <2>2. CASE B.signed
    BY <2>2, InRange, TypeRange, SMT
  <2> QED BY <2>1, <2>2
<1> QED BY <1>1, CastInRange

\* CmpLess of two operands of the same signedness.
LEMMA CmpLessSame ==
    ASSUME Widths, NEW L \in Types, NEW R \in Types, (L.signed <=> R.signed),
           NEW lhs \in Int, In(L, lhs), NEW rhs \in Int, In(R, rhs)
    PROVE  CmpLess_same(L, lhs, R, rhs) <=> lhs < rhs
<1> DEFINE B == bigger_type(L, R)
<1>1. B \in Types /\ B.half >= L.half /\ B.half >= R.half /\ (B.signed <=> L.signed)
  BY MadeTypes, Zenon
<1>2. static_cast(B, lhs) = lhs /\ static_cast(B, rhs) = rhs
  BY <1>1, Widening, Zenon
<1> QED BY <1>2 DEF CmpLess_same

\* A value that is not negative survives the cast to the unsigned type.
LEMMA ToUnsigned ==
    ASSUME Widths, NEW T \in Types, NEW v \in Int, In(T, v), v >= 0
    PROVE  In(make_unsigned(T), v) /\ static_cast(make_unsigned(T), v) = v
<1>1. make_unsigned(T) \in Types /\ ~make_unsigned(T).signed /\ make_unsigned(T).half = T.half
  BY MadeTypes, Zenon
<1>2. make_unsigned(T).half >= T.half
  BY <1>1, TypeRange, SMT
<1> QED BY <1>1, <1>2, Widening

\* CmpLess (comparison.h:59-100) compares the numbers the operands stand for,
\* whatever their widths and signednesses; a built-in < would turn a negative
\* operand into a large one.
THEOREM CmpLessExact ==
    ASSUME Widths, NEW L \in Types, NEW R \in Types,
           NEW lhs \in Int, In(L, lhs), NEW rhs \in Int, In(R, rhs)
    PROVE  CmpLess(L, lhs, R, rhs) <=> lhs < rhs
<1>0. In(L, 0) /\ In(R, 0)
  BY TypeRange, Zenon
<1>1. CASE L.signed <=> R.signed
  BY <1>1, CmpLessSame, Zenon DEF CmpLess
<1>2. CASE L.signed /\ ~R.signed
  <2>1. CmpLess_same(L, lhs, L, 0) <=> lhs < 0
    BY <1>0, CmpLessSame
  <2>2. CASE lhs < 0
    <3>1. rhs >= 0
      BY <1>2, TypeRange, SMT DEF In
    <3>2. lhs < rhs
      BY <2>2, <3>1, SMT
    <3> QED BY <1>2, <2>1, <2>2, <3>2 DEF CmpLess
  <2>3. CASE ~(lhs < 0)
    <3>0. lhs >= 0
      BY <2>3, SMT
    <3>1. /\ In(make_unsigned(L), lhs) /\ static_cast(make_unsigned(L), lhs) = lhs
          /\ make_unsigned(L) \in Types /\ (make_unsigned(L).signed <=> R.signed)
      BY <1>2, <3>0, ToUnsigned, MadeTypes, Zenon
    <3>2. CmpLess_same(make_unsigned(L), lhs, R, rhs) <=> lhs < rhs
      BY <3>1, CmpLessSame, Zenon
    <3> QED BY <1>2, <2>1, <2>3, <3>1, <3>2 DEF CmpLess
  <2> QED BY <2>2, <2>3
<1>3. CASE ~L.signed /\ R.signed
  <2>1. CmpLess_same(R, rhs, R, 0) <=> rhs < 0
    BY <1>0, CmpLessSame
  <2>2. CASE rhs < 0
    <3>1. lhs >= 0
      BY <1>3, TypeRange, SMT DEF In
    <3>2. ~(lhs < rhs)
      BY <2>2, <3>1, SMT
    <3> QED BY <1>3, <2>1, <2>2, <3>2 DEF CmpLess
  <2>3. CASE ~(rhs < 0)
    <3>0. rhs >= 0
      BY <2>3, SMT
    <3>1. /\ In(make_unsigned(R), rhs) /\ static_cast(make_unsigned(R), rhs) = rhs
          /\ make_unsigned(R) \in Types /\ (make_unsigned(R).signed <=> L.signed)
      BY <1>3, <3>0, ToUnsigned, MadeTypes, Zenon
    <3>2. CmpLess_same(L, lhs, make_unsigned(R), rhs) <=> lhs < rhs
      BY <3>1, CmpLessSame, Zenon
    <3> QED BY <1>3, <2>1, <2>3, <3>1, <3>2 DEF CmpLess
  <2> QED BY <2>2, <2>3
<1> QED BY <1>1, <1>2, <1>3, TypeRange

\* CmpEqual (comparison.h:317-361) holds exactly for equal numbers.
THEOREM CmpEqualExact ==
    ASSUME Widths, NEW L \in Types, NEW R \in Types,
           NEW lhs \in Int, In(L, lhs), NEW rhs \in Int, In(R, rhs)
    PROVE  CmpEqual(L, lhs, R, rhs) <=> lhs = rhs
<1>1. CASE L.signed <=> R.signed
  <2> DEFINE B == bigger_type(L, R)
  <2>0. B \in Types /\ B.half >= L.half /\ B.half >= R.half
        /\ (B.signed <=> L.signed) /\ (B.signed <=> R.signed)
    BY <1>1, MadeTypes, Zenon
  <2>1. static_cast(B, lhs) = lhs /\ static_cast(B, rhs) = rhs
    BY <2>0, Widening, Zenon
  <2> QED BY <1>1, <2>1 DEF CmpEqual
<1>2. ASSUME NEW S \in Types, S.signed, NEW U \in Types, ~U.signed,
             NEW v \in Int, In(S, v), NEW w \in Int, In(U, w)
      PROVE  CmpEqual_mixed(S, v, U, w) <=> v = w
  <2> DEFINE B == bigger_type(make_unsigned(S), U)
  <2>1. CmpLess(S, v, S, 0) <=> v < 0
    BY <1>2, TypeRange, CmpLessExact, Zenon
  <2>2. w >= 0
    BY <1>2, InRange, Zenon
  <2>3. CASE v < 0
    <3>1. v # w
      BY <2>2, <2>3, SMT
    <3> QED BY <2>1, <2>3, <3>1 DEF CmpEqual_mixed
  <2>4. CASE ~(v < 0)
    <3>1. v >= 0
      BY <2>4, SMT
    <3>2. make_unsigned(S) \in Types /\ ~make_unsigned(S).signed /\ In(make_unsigned(S), v)
      BY <1>2, <3>1, MadeTypes, ToUnsigned, Zenon
    <3>3. B \in Types /\ ~B.signed /\ B.half >= make_unsigned(S).half /\ B.half >= U.half
      BY <1>2, <3>2, MadeTypes, Zenon
    <3>4. static_cast(B, v) = v /\ static_cast(B, w) = w
      BY <1>2, <3>2, <3>3, Widening
    <3> QED BY <2>1, <2>4, <3>4 DEF CmpEqual_mixed
  <2> QED BY <2>3, <2>4
<1>3. CASE L.signed /\ ~R.signed
  BY <1>2, <1>3, Zenon DEF CmpEqual
<1>4. CASE ~L.signed /\ R.signed
  <2>1. CmpEqual_mixed(R, rhs, L, lhs) <=> rhs = lhs
    BY <1>2, <1>4, Zenon
  <2> QED BY <1>4, <2>1 DEF CmpEqual
<1> QED BY <1>1, <1>3, <1>4

\* The comparison with the literal 0.
LEMMA NegativeExact ==
    ASSUME Widths, NEW T \in Types, NEW v \in Int, In(T, v)
    PROVE  Negative(T, v) <=> v < 0
<1>1. int \in Types /\ In(int, 0)
  BY MadeTypes, TypeRange, Zenon
<1> QED BY <1>1, CmpLessExact DEF Negative

\* Cast (cast.h:66-73) returns the value where the result type can hold it and an
\* error everywhere else.
LEMMA CastExact ==
    ASSUME Widths, NEW R \in Types, NEW T \in Types, NEW v \in Int, In(T, v)
    PROVE  Cast(R, T, v) = Exact(R, v)
<1>1. lowest(R) \in Int /\ max(R) \in Int /\ In(R, lowest(R)) /\ In(R, max(R))
  <2>1. lowest(R) \in Int /\ max(R) \in Int /\ lowest(R) <= max(R)
    <3>1. CASE R.signed
      BY <3>1, TypeRange, SMT
    <3>2. CASE ~R.signed
      BY <3>2, TypeRange, SMT
    <3> QED BY <3>1, <3>2
  <2> QED BY <2>1, SMT DEF In
<1>2. IsOutsideBoundsOfR(R, T, v) <=> (v < lowest(R) \/ max(R) < v)
  BY <1>1, CmpLessExact, Zenon DEF IsOutsideBoundsOfR, CmpGreater
<1>3. IsOutsideBoundsOfR(R, T, v) <=> ~In(R, v)
  BY <1>1, <1>2, SMT DEF In
<1>4. In(R, v) => static_cast(R, v) = v
  BY CastInRange, Zenon
<1> QED BY <1>3, <1>4 DEF Cast, Exact

\* Abs (absolute.h:27-54) is the absolute value, that of the lowest value of a
\* signed type included, and it fits the unsigned type it is returned in.
LEMMA AbsExact ==
    ASSUME Widths, NEW T \in Types, NEW v \in Int, In(T, v)
    PROVE  /\ Abs(T, v) = IF v < 0 THEN -v ELSE v
           /\ In(make_unsigned(T), Abs(T, v))
           /\ Abs(T, v) \in Nat
<1> DEFINE U == make_unsigned(T)
<1>1. U \in Types /\ ~U.signed /\ U.half = T.half /\ T.half \in Nat
  BY MadeTypes, TypeRange, Zenon
<1>2. CASE ~T.signed
  <2>1. 0 <= v /\ v < T.half + T.half
    BY <1>2, InRange, Zenon
  <2>2. In(U, v)
    BY <1>1, <2>1, InRange, Zenon
  <2> QED BY <1>2, <2>1, <2>2, SMT DEF Abs
<1>3. CASE T.signed
  <2>1. lowest(T) = -T.half /\ max(T) = T.half - 1 /\ -T.half <= v /\ v < T.half
    BY <1>3, TypeRange, InRange, Zenon
  <2>2. In(T, lowest(T)) /\ In(T, max(T)) /\ lowest(T) \in Int /\ max(T) \in Int /\ max(T) >= 0
    BY <1>1, <1>3, <2>1, InRange, TypeRange, SMT
  <2>3. CmpEqual(T, v, T, lowest(T)) <=> v = lowest(T)
    BY <2>2, CmpEqualExact, Zenon
  <2>4. Negative(T, v) <=> v < 0
    BY NegativeExact, Zenon
  <2>5. CASE v = lowest(T)
    <3>1. static_cast(U, max(T)) = max(T)
      BY <2>2, ToUnsigned, Zenon
    <3>2. Abs(T, v) = T.half
      BY <1>1, <1>3, <2>1, <2>3, <2>5, <3>1, SMT DEF Abs
    <3>3. v < 0 /\ -v = T.half /\ 0 <= T.half /\ T.half < T.half + T.half
      BY <2>1, <2>5, TypeRange, SMT
    <3> QED BY <1>1, <3>2, <3>3, InRange, SMT
  <2>6. CASE v # lowest(T) /\ v < 0
    <3>1. -v \in Int /\ -v >= 0 /\ In(T, -v)
      BY <1>1, <1>3, <2>1, <2>6, InRange, SMT
    <3>2. static_cast(T, -v) = -v /\ static_cast(U, -v) = -v /\ In(U, -v)
      BY <3>1, CastInRange, ToUnsigned, Zenon
    <3>3. Abs(T, v) = -v
      BY <1>3, <2>3, <2>4, <2>6, <3>2, Zenon DEF Abs
    <3> QED BY <2>6, <3>1, <3>2, <3>3, SMT
  <2>7. CASE ~(v < 0)
    <3>1. v >= 0 /\ v # lowest(T)
      BY <1>1, <2>1, <2>7, TypeRange, SMT
    <3>2. static_cast(U, v) = v /\ In(U, v)
      BY <3>1, ToUnsigned, Zenon
    <3>3. Abs(T, v) = v
      BY <1>3, <2>3, <2>4, <2>7, <3>1, <3>2, Zenon DEF Abs
    <3> QED BY <2>7, <3>1, <3>2, <3>3, SMT
  <2> QED BY <2>5, <2>6, <2>7
<1> QED BY <1>2, <1>3

\* The fields of an exact result.
LEMMA ExactValue ==
    ASSUME NEW R, NEW v
    PROVE  /\ Exact(R, v).has_value <=> In(R, v)
           /\ In(R, v) => Exact(R, v) = Value(v) /\ Exact(R, v).value = v
           /\ ~In(R, v) => Exact(R, v) = Unexpected
BY Zenon DEF Exact, Value, Unexpected

\* Negate of an unsigned value (negate.h:34-85) is exact, at the lowest value of a
\* signed result type too.
LEMMA NegateUnsigned ==
    ASSUME Widths, NEW R \in Types, NEW U \in Types, ~U.signed, NEW v \in Int, In(U, v)
    PROVE  Negate(R, U, v) = Exact(R, -v)
<1> DEFINE S == make_signed(R)
           signed_value == Cast(S, U, v)
           low == Abs(R, lowest(R))
<1>1. /\ S \in Types /\ S.signed /\ S.half = R.half /\ R.half \in Nat /\ R.half > 0
      /\ 0 <= v /\ -v \in Int
  <2>1. S \in Types /\ S.signed /\ S.half = R.half
    BY MadeTypes, Zenon
  <2>2. R.half \in Nat /\ R.half > 0 /\ 0 <= v /\ -v \in Int
    BY TypeRange, InRange, SMT
  <2> QED BY <2>1, <2>2
<1>2. signed_value = Exact(S, v)
  BY <1>1, CastExact, Zenon
<1>3. R.signed => /\ lowest(R) = -R.half
                  /\ CmpEqual(U, v, make_unsigned(R), low) <=> v = R.half
  <2> SUFFICES ASSUME R.signed
               PROVE  /\ lowest(R) = -R.half
                      /\ CmpEqual(U, v, make_unsigned(R), low) <=> v = R.half
    BY Zenon
  <2>1. lowest(R) = -R.half /\ lowest(R) \in Int
    BY TypeRange, Zenon
  <2>2. lowest(R) < 0 /\ -lowest(R) = R.half /\ In(R, lowest(R))
    BY <1>1, <2>1, InRange, SMT
  <2>3. low = R.half /\ In(make_unsigned(R), low)
    BY <2>1, <2>2, AbsExact, Zenon
  <2>4. low \in Int
    BY <1>1, <2>3, SMT
  <2> QED BY <2>1, <2>3, <2>4, MadeTypes, CmpEqualExact
<1>4. CASE R.signed /\ v = R.half
  <2>1. Negate(R, U, v) = Value(lowest(R)) /\ lowest(R) = -v
    BY <1>3, <1>4, Zenon DEF Negate
  <2>2. In(R, -v)
    BY <1>1, <1>4, InRange, SMT
  <2> QED BY <2>1, <2>2, ExactValue
<1>5. CASE ~(R.signed /\ v = R.half)
  <2>1. Negate(R, U, v) = IF ~signed_value.has_value THEN Unexpected
                          ELSE Cast(R, S, static_cast(S, -signed_value.value))
    BY <1>3, <1>5, Zenon DEF Negate
  <2>2. CASE In(S, v)
    <3>1. signed_value.has_value /\ signed_value.value = v
      BY <1>2, <2>2, ExactValue
    <3>2. In(S, -v)
      BY <1>1, <2>2, InRange, SMT
    <3>3. static_cast(S, -v) = -v
      BY <1>1, <3>2, CastInRange, Zenon
    <3>4. Cast(R, S, -v) = Exact(R, -v)
      BY <1>1, <3>2, CastExact, Zenon
    <3> QED BY <2>1, <3>1, <3>3, <3>4
  <2>3. CASE ~In(S, v)
    <3>1. ~signed_value.has_value
      BY <1>2, <2>3, ExactValue, Zenon
    <3>2. v >= R.half
      BY <1>1, <2>3, InRange, SMT
    <3>3. ~In(R, -v)
      <4>1. CASE R.signed
        BY <1>1, <1>5, <3>2, <4>1, InRange, SMT
      <4>2. CASE ~R.signed
        BY <1>1, <3>2, <4>2, InRange, SMT
      <4> QED BY <4>1, <4>2
    <3> QED BY <2>1, <3>1, <3>3, ExactValue
  <2> QED BY <2>2, <2>3
<1> QED BY <1>4, <1>5

\* Negate of a signed value (negate.h:89-113) is exact.
LEMMA NegateSigned ==
    ASSUME Widths, NEW R \in Types, NEW S \in Types, S.signed, NEW v \in Int, In(S, v)
    PROVE  Negate_signed(R, S, v) = Exact(R, -v)
<1>1. CASE v < 0
  <2>1. Abs(S, v) = -v /\ In(make_unsigned(S), -v) /\ make_unsigned(S) \in Types /\ -v \in Int
    BY <1>1, AbsExact, MadeTypes, SMT
  <2>2. Cast(R, make_unsigned(S), -v) = Exact(R, -v)
    BY <2>1, CastExact, Zenon
  <2> QED BY <1>1, <2>1, <2>2, NegativeExact DEF Negate_signed
<1>2. CASE ~(v < 0)
  <2>1. -v \in Int /\ In(S, -v)
    BY <1>2, InRange, TypeRange, SMT
  <2>2. static_cast(S, -v) = -v /\ Cast(R, S, -v) = Exact(R, -v)
    BY <2>1, CastInRange, CastExact, Zenon
  <2> QED BY <1>2, <2>2, NegativeExact DEF Negate_signed
<1> QED BY <1>1, <1>2

\* Add of two unsigned operands (addition_subtraction.h:186-236) is exact.
LEMMA AddUnsigned ==
    ASSUME Widths, NEW R \in Types, NEW L \in Types, ~L.signed, NEW T \in Types, ~T.signed,
           NEW lhs \in Int, In(L, lhs), NEW rhs \in Int, In(T, rhs)
    PROVE  Add_UU(R, L, lhs, T, rhs) = Exact(R, lhs + rhs)
<1> DEFINE a == Cast(R, L, lhs)
           b == Cast(R, T, rhs)
           limit == static_cast(R, max(R) - b.value)
<1>1. 0 <= lhs /\ 0 <= rhs /\ lhs + rhs \in Int /\ lowest(R) \in Int /\ max(R) \in Int
      /\ lowest(R) <= 0
  BY InRange, TypeRange, SMT DEF In
<1>2. a = Exact(R, lhs) /\ b = Exact(R, rhs)
  BY CastExact, Zenon
<1>3. CASE ~In(R, lhs) \/ ~In(R, rhs)
  <2>1. ~In(R, lhs + rhs)
    BY <1>1, <1>3, SMT DEF In
  <2> QED BY <1>2, <1>3, <2>1, ExactValue DEF Add_UU
<1>4. CASE In(R, lhs) /\ In(R, rhs)
  <2>1. a.has_value /\ b.has_value /\ a.value = lhs /\ b.value = rhs
    BY <1>2, <1>4, ExactValue
  <2>2. max(R) - rhs \in Int /\ In(R, max(R) - rhs)
    BY <1>1, <1>4, SMT DEF In
  <2>3. limit = max(R) - rhs
    BY <2>1, <2>2, CastInRange, Zenon
  <2>4. CmpGreater(R, lhs, R, limit) <=> max(R) - rhs < lhs
    BY <1>4, <2>2, <2>3, CmpLessExact, Zenon DEF CmpGreater
  <2>5. CmpGreater(R, lhs, R, limit) <=> ~In(R, lhs + rhs)
    BY <1>1, <2>4, SMT DEF In
  <2>6. In(R, lhs + rhs) => static_cast(R, lhs + rhs) = lhs + rhs
    BY <1>1, CastInRange, Zenon
  <2>7. Add_UU(R, L, lhs, T, rhs) = IF CmpGreater(R, lhs, R, limit) THEN Unexpected
                                    ELSE Value(static_cast(R, lhs + rhs))
    BY <2>1, Zenon DEF Add_UU
  <2> QED BY <2>5, <2>6, <2>7 DEF Exact
<1> QED BY <1>3, <1>4

\* Subtract of two unsigned operands (addition_subtraction.h:419-453) is exact.
LEMMA SubtractUnsigned ==
    ASSUME Widths, NEW R \in Types, NEW L \in Types, ~L.signed, NEW T \in Types, ~T.signed,
           NEW lhs \in Int, In(L, lhs), NEW rhs \in Int, In(T, rhs)
    PROVE  Subtract_UU(R, L, lhs, T, rhs) = Exact(R, lhs - rhs)
<1>1. 0 <= lhs /\ lhs < L.half + L.half /\ 0 <= rhs /\ rhs < T.half + T.half
      /\ T.half \in Nat /\ L.half \in Nat
  BY InRange, TypeRange, Zenon
<1>2. CmpLess(L, lhs, T, rhs) <=> lhs < rhs
  BY CmpLessExact, Zenon
<1>3. CASE lhs < rhs
  <2>1. In(T, lhs) /\ rhs - lhs \in Int /\ In(T, rhs - lhs) /\ -(rhs - lhs) = lhs - rhs
    BY <1>1, <1>3, InRange, SMT
  <2>2. static_cast(T, lhs) = lhs /\ static_cast(T, rhs - lhs) = rhs - lhs
    BY <2>1, CastInRange, Zenon
  <2>3. Negate(R, T, rhs - lhs) = Exact(R, -(rhs - lhs))
    BY <2>1, NegateUnsigned, Zenon
  <2> QED BY <1>2, <1>3, <2>1, <2>2, <2>3 DEF Subtract_UU
<1>4. CASE ~(lhs < rhs)
  <2> DEFINE I == bigger_type(L, T)
  <2>1. I \in Types /\ ~I.signed /\ I.half >= L.half
    BY MadeTypes, Zenon
  <2>2. I.half \in Nat /\ lhs - rhs \in Int /\ 0 <= lhs - rhs /\ lhs - rhs < I.half + I.half
    BY <1>1, <1>4, <2>1, TypeRange, SMT
  <2>3. In(I, lhs - rhs)
    BY <2>1, <2>2, InRange, Zenon
  <2>4. static_cast(I, lhs - rhs) = lhs - rhs /\ Cast(R, I, lhs - rhs) = Exact(R, lhs - rhs)
    BY <2>1, <2>2, <2>3, CastInRange, CastExact, Zenon
  <2> QED BY <1>2, <1>4, <2>4 DEF Subtract_UU
<1> QED BY <1>3, <1>4

\* Subtract of an unsigned operand (addition_subtraction.h:367-416) is exact: when
\* the sum of the absolute values leaves even std::uint64_t, no type can hold the
\* difference.
LEMMA SubtractAnyUnsigned ==
    ASSUME Widths, NEW R \in Types, NEW L \in Types, NEW T \in Types, ~T.signed,
           NEW lhs \in Int, In(L, lhs), NEW rhs \in Int, In(T, rhs)
    PROVE  Subtract_AU(R, L, lhs, T, rhs) = Exact(R, lhs - rhs)
<1> DEFINE U == make_unsigned(L)
           intermediate == Add_UU(uint64_t, U, Abs(L, lhs), T, rhs)
<1>1. U \in Types /\ ~U.signed /\ uint64_t \in Types /\ ~uint64_t.signed
      /\ uint64_t.half = WidestHalf
  BY MadeTypes, Zenon
<1>2. Negative(L, lhs) <=> lhs < 0
  BY NegativeExact, Zenon
<1>3. CASE ~L.signed
  BY <1>3, SubtractUnsigned DEF Subtract_AU
<1>4. CASE L.signed /\ lhs < 0
  <2>1. Abs(L, lhs) = -lhs /\ In(U, -lhs) /\ -lhs \in Int
    BY <1>4, AbsExact, SMT
  <2>2. intermediate = Exact(uint64_t, -lhs + rhs)
    BY <1>1, <2>1, AddUnsigned
  <2>3. -lhs + rhs \in Int /\ 0 <= rhs /\ 0 <= -lhs + rhs /\ -(-lhs + rhs) = lhs - rhs
    BY <1>4, InRange, SMT
  <2>4. CASE In(uint64_t, -lhs + rhs)
    <3>1. intermediate.has_value /\ intermediate.value = -lhs + rhs
      BY <2>2, <2>4, ExactValue
    <3>2. Negate(R, uint64_t, -lhs + rhs) = Exact(R, lhs - rhs)
      BY <1>1, <2>3, <2>4, NegateUnsigned
    <3> QED BY <1>2, <1>4, <3>1, <3>2 DEF Subtract_AU
  <2>5. CASE ~In(uint64_t, -lhs + rhs)
    <3>1. ~intermediate.has_value
      BY <2>2, <2>5, ExactValue, Zenon
    <3>2. WidestHalf \in Nat /\ R.half \in Nat /\ R.half <= WidestHalf
      BY TypeRange, Zenon DEF Widths
    <3>3. -lhs + rhs >= WidestHalf + WidestHalf
      BY <1>1, <2>3, <2>5, <3>2, InRange, SMT
    <3>4. ~In(R, lhs - rhs)
      <4>1. CASE R.signed
        BY <2>3, <3>2, <3>3, <4>1, InRange, TypeRange, SMT
      <4>2. CASE ~R.signed
        BY <2>3, <3>2, <3>3, <4>2, InRange, TypeRange, SMT
      <4> QED BY <4>1, <4>2
    <3> QED BY <1>2, <1>4, <3>1, <3>4, ExactValue DEF Subtract_AU
  <2> QED BY <2>4, <2>5
<1>5. CASE L.signed /\ ~(lhs < 0)
  <2>0. lhs >= 0
    BY <1>5, SMT
  <2>1. In(U, lhs) /\ static_cast(U, lhs) = lhs
    BY <2>0, ToUnsigned, Zenon
  <2> QED BY <1>1, <1>2, <1>5, <2>1, SubtractUnsigned DEF Subtract_AU
<1> QED BY <1>3, <1>4, <1>5

\* Add of an unsigned and of any operand (addition_subtraction.h:239-260).
LEMMA AddUnsignedAny ==
    ASSUME Widths, NEW R \in Types, NEW L \in Types, ~L.signed, NEW T \in Types,
           NEW lhs \in Int, In(L, lhs), NEW rhs \in Int, In(T, rhs)
    PROVE  Add_UA(R, L, lhs, T, rhs) = Exact(R, lhs + rhs)
<1> DEFINE U == make_unsigned(T)
<1>1. U \in Types /\ ~U.signed
  BY MadeTypes, Zenon
<1>2. Negative(T, rhs) <=> rhs < 0
  BY NegativeExact, Zenon
<1>3. CASE ~T.signed
  BY <1>3, AddUnsigned DEF Add_UA
<1>4. CASE T.signed /\ rhs < 0
  <2>1. Abs(T, rhs) = -rhs /\ In(U, -rhs) /\ -rhs \in Int /\ lhs - (-rhs) = lhs + rhs
    BY <1>4, AbsExact, SMT
  <2>2. Subtract_AU(R, L, lhs, U, -rhs) = Exact(R, lhs - (-rhs))
    BY <1>1, <2>1, SubtractAnyUnsigned
  <2> QED BY <1>2, <1>4, <2>1, <2>2 DEF Add_UA
<1>5. CASE T.signed /\ ~(rhs < 0)
  <2>0. rhs >= 0
    BY <1>5, SMT
  <2>1. In(U, rhs) /\ static_cast(U, rhs) = rhs
    BY <2>0, ToUnsigned, Zenon
  <2> QED BY <1>1, <1>2, <1>5, <2>1, AddUnsigned DEF Add_UA
<1> QED BY <1>3, <1>4, <1>5

\* Add of any and of an unsigned operand (addition_subtraction.h:263-274).
LEMMA AddAnyUnsigned ==
    ASSUME Widths, NEW R \in Types, NEW L \in Types, NEW T \in Types, ~T.signed,
           NEW lhs \in Int, In(L, lhs), NEW rhs \in Int, In(T, rhs)
    PROVE  Add_AU(R, L, lhs, T, rhs) = Exact(R, lhs + rhs)
<1>1. lhs + rhs = rhs + lhs
  BY SMT
<1>2. Add_UA(R, T, rhs, L, lhs) = Exact(R, rhs + lhs)
  BY AddUnsignedAny
<1>3. CASE L.signed
  BY <1>1, <1>2, <1>3, Zenon DEF Add_AU
<1>4. CASE ~L.signed
  BY <1>4, AddUnsigned DEF Add_AU
<1> QED BY <1>3, <1>4

\* Add of any two integers (addition_subtraction.h:186-274), into any integral
\* type, returns their sum if the result type can hold it and an error if not: no
\* path through the overloads wraps, and none refuses a sum that fits.
THEOREM AddExact ==
    ASSUME Widths, NEW R \in Types, NEW L \in Types, NEW T \in Types,
           NEW lhs \in Int, In(L, lhs), NEW rhs \in Int, In(T, rhs)
    PROVE  Add(R, L, lhs, T, rhs) = Exact(R, lhs + rhs)
<1> DEFINE U == make_unsigned(T)
<1>1. U \in Types /\ ~U.signed
  BY MadeTypes, Zenon
<1>2. Negative(T, rhs) <=> rhs < 0
  BY NegativeExact, Zenon
<1>3. CASE ~T.signed
  BY <1>3, AddAnyUnsigned DEF Add
<1>4. CASE T.signed /\ rhs < 0
  <2>1. Abs(T, rhs) = -rhs /\ In(U, -rhs) /\ -rhs \in Int /\ lhs - (-rhs) = lhs + rhs
    BY <1>4, AbsExact, SMT
  <2>2. Subtract_AU(R, L, lhs, U, -rhs) = Exact(R, lhs - (-rhs))
    BY <1>1, <2>1, SubtractAnyUnsigned
  <2> QED BY <1>2, <1>4, <2>1, <2>2 DEF Add
<1>5. CASE T.signed /\ ~(rhs < 0)
  <2>0. rhs >= 0
    BY <1>5, SMT
  <2>1. In(U, rhs) /\ static_cast(U, rhs) = rhs
    BY <2>0, ToUnsigned, Zenon
  <2> QED BY <1>1, <1>2, <1>5, <2>1, AddAnyUnsigned DEF Add
<1> QED BY <1>3, <1>4, <1>5

\* Subtract of any two integers (addition_subtraction.h:343-453), into any integral
\* type, returns their difference if the result type can hold it and an error if
\* not.
THEOREM SubtractExact ==
    ASSUME Widths, NEW R \in Types, NEW L \in Types, NEW T \in Types,
           NEW lhs \in Int, In(L, lhs), NEW rhs \in Int, In(T, rhs)
    PROVE  Subtract(R, L, lhs, T, rhs) = Exact(R, lhs - rhs)
<1> DEFINE U == make_unsigned(T)
<1>1. U \in Types /\ ~U.signed
  BY MadeTypes, Zenon
<1>2. CmpLess(T, rhs, make_unsigned(int), 0) <=> rhs < 0
  <2>1. int \in Types
    BY MadeTypes, Zenon
  <2>2. make_unsigned(int) \in Types
    BY <2>1, MadeTypes, Zenon
  <2>3. In(make_unsigned(int), 0)
    BY <2>2, TypeRange, Zenon
  <2> QED BY <2>2, <2>3, CmpLessExact
<1>3. CASE ~T.signed
  BY <1>3, SubtractAnyUnsigned DEF Subtract
<1>4. CASE T.signed /\ rhs < 0
  <2>1. Abs(T, rhs) = -rhs /\ In(U, -rhs) /\ -rhs \in Int /\ lhs + (-rhs) = lhs - rhs
    BY <1>4, AbsExact, SMT
  <2>2. Add_AU(R, L, lhs, U, -rhs) = Exact(R, lhs + (-rhs))
    BY <1>1, <2>1, AddAnyUnsigned
  <2> QED BY <1>2, <1>4, <2>1, <2>2 DEF Subtract
<1>5. CASE T.signed /\ ~(rhs < 0)
  <2>0. rhs >= 0
    BY <1>5, SMT
  <2>1. In(U, rhs) /\ static_cast(U, rhs) = rhs
    BY <2>0, ToUnsigned, Zenon
  <2> QED BY <1>1, <1>2, <1>5, <2>1, SubtractAnyUnsigned DEF Subtract
<1> QED BY <1>3, <1>4, <1>5

\* Quotient and remainder of natural numbers.
LEMMA DivisionFacts ==
    ASSUME NEW m \in Nat, NEW b \in Nat, b > 0
    PROVE  /\ m \div b \in Nat /\ m % b \in Nat /\ m % b < b
           /\ m = b * (m \div b) + (m % b)
           /\ m \div b <= m
<1>1. m \div b \in Int /\ m % b \in 0 .. (b - 1) /\ m = b * (m \div b) + (m % b)
  BY SMT
<1>2. m \div b >= 0
  BY SMT
<1> QED BY <1>1, <1>2, SMT

\* The overflow test of Multiply (multiplication.h:58-62): dividing the limit by
\* one factor tells whether the product exceeds it.
LEMMA ProductBound ==
    ASSUME NEW m \in Nat, NEW b \in Nat, b > 0, NEW a \in Nat
    PROVE  m \div b < a <=> m < a * b
<1> DEFINE d == m \div b
           r == m % b
<1>1. d \in Nat /\ r \in Nat /\ r < b /\ m = b * d + r
  BY DivisionFacts, Zenon
<1> HIDE DEF d, r
<1>2. ASSUME d < a PROVE m < a * b
  <2>1. a >= d + 1
    BY <1>1, <1>2, SMT
  <2>2. a * b >= (d + 1) * b
    BY <1>1, <2>1, SMT
  <2>3. (d + 1) * b = b * d + b
    BY <1>1, SMT
  <2> QED BY <1>1, <2>2, <2>3, SMT
<1>3. ASSUME ~(d < a) PROVE ~(m < a * b)
  <2>1. a * b <= d * b
    BY <1>1, <1>3, SMT
  <2> QED BY <1>1, <2>1, SMT
<1> QED BY <1>2, <1>3 DEF d

\* The absolute values of both operands fit the common type of Multiply and
\* Divide.
LEMMA CommonOperands ==
    ASSUME Widths, NEW L \in Types, NEW T \in Types,
           NEW lhs \in Int, In(L, lhs), NEW rhs \in Int, In(T, rhs)
    PROVE  LET C == CommonType(L, T)
           IN  /\ C \in Types /\ ~C.signed
               /\ In(C, Abs(L, lhs)) /\ static_cast(C, Abs(L, lhs)) = Abs(L, lhs)
               /\ In(C, Abs(T, rhs)) /\ static_cast(C, Abs(T, rhs)) = Abs(T, rhs)
<1> DEFINE C == CommonType(L, T)
           UL == make_unsigned(L)
           UT == make_unsigned(T)
<1>1. UL \in Types /\ ~UL.signed /\ UT \in Types /\ ~UT.signed
  BY MadeTypes, Zenon
<1>2. C \in Types /\ ~C.signed /\ C.half >= UL.half /\ C.half >= UT.half
  BY <1>1, MadeTypes, Zenon DEF CommonType
<1>3. In(UL, Abs(L, lhs)) /\ In(UT, Abs(T, rhs)) /\ Abs(L, lhs) \in Int /\ Abs(T, rhs) \in Int
  BY AbsExact, SMT
<1> QED BY <1>1, <1>2, <1>3, Widening

\* The result of Multiply and Divide gets the sign of the operands.
LEMMA WithSignExact ==
    ASSUME Widths, NEW R \in Types, NEW C \in Types, ~C.signed, NEW result \in Int, In(C, result),
           NEW L \in Types, NEW T \in Types,
           NEW lhs \in Int, In(L, lhs), NEW rhs \in Int, In(T, rhs)
    PROVE  WithSign(R, C, result, L, lhs, T, rhs) =
           Exact(R, IF lhs < 0 <=> rhs < 0 THEN result ELSE -result)
<1>1. (Negative(L, lhs) <=> lhs < 0) /\ (Negative(T, rhs) <=> rhs < 0)
  BY NegativeExact, Zenon
<1>2. Cast(R, C, result) = Exact(R, result) /\ Negate(R, C, result) = Exact(R, -result)
  BY CastExact, NegateUnsigned, Zenon
<1> QED BY <1>1, <1>2 DEF WithSign

\* Multiply (multiplication.h:36-75) never returns anything but the product, and
\* returns it whenever the result type can hold it and its absolute value fits the
\* wider of the unsigned operand types. A product that fits the result type only
\* is refused: Readme.md:79-80 names the range of the result type alone.
THEOREM MultiplySound ==
    ASSUME Widths, NEW R \in Types, NEW L \in Types, NEW T \in Types,
           NEW lhs \in Int, In(L, lhs), NEW rhs \in Int, In(T, rhs)
    PROVE  Multiply(R, L, lhs, T, rhs) =
           IF Abs(L, lhs) * Abs(T, rhs) <= max(CommonType(L, T))
           THEN Exact(R, lhs * rhs) ELSE Unexpected
<1> DEFINE C == CommonType(L, T)
           a == Abs(L, lhs)
           b == Abs(T, rhs)
           limit == static_cast(C, max(C) \div static_cast(C, b))
<1>1. /\ C \in Types /\ ~C.signed /\ In(C, a) /\ static_cast(C, a) = a
      /\ In(C, b) /\ static_cast(C, b) = b
  BY CommonOperands
<1>2. /\ a \in Nat /\ a = (IF lhs < 0 THEN -lhs ELSE lhs)
      /\ b \in Nat /\ b = (IF rhs < 0 THEN -rhs ELSE rhs)
  BY AbsExact, Zenon
<1>3. max(C) \in Nat /\ lowest(C) = 0
  BY <1>1, TypeRange, SMT
<1>4. int \in Types /\ In(int, 0)
  BY MadeTypes, TypeRange, Zenon
<1>5. (CmpEqual(L, lhs, int, 0) <=> lhs = 0) /\ (CmpEqual(T, rhs, int, 0) <=> rhs = 0)
  BY <1>4, CmpEqualExact
<1> HIDE DEF C, a, b
<1>6. CASE lhs = 0 \/ rhs = 0
  <2>1. a * b = 0 /\ lhs * rhs = 0
    BY <1>2, <1>6, SMT
  <2>2. a * b <= max(C)
    BY <1>3, <2>1, SMT
  <2>3. Multiply(R, L, lhs, T, rhs) = Cast(R, int, 0)
    BY <1>5, <1>6, Zenon DEF Multiply
  <2>4. Cast(R, int, 0) = Exact(R, 0)
    BY <1>4, CastExact
  <2> QED BY <2>1, <2>2, <2>3, <2>4 DEF C, a, b
<1>7. CASE lhs # 0 /\ rhs # 0
  <2>1. b > 0
    BY <1>2, <1>7, SMT
  <2>2. max(C) \div b \in Nat /\ max(C) \div b <= max(C)
    BY <1>2, <1>3, <2>1, DivisionFacts, Zenon
  <2>3. In(C, max(C) \div b)
    BY <1>3, <2>2, SMT DEF In
  <2>4. limit = max(C) \div b
    BY <1>1, <2>2, <2>3, CastInRange, SMT
  <2>5. CmpGreater(C, a, C, limit) <=> max(C) \div b < a
    BY <1>1, <1>2, <2>2, <2>3, <2>4, CmpLessExact, SMT DEF CmpGreater
  <2>6. CmpGreater(C, a, C, limit) <=> max(C) < a * b
    BY <1>2, <1>3, <2>1, <2>5, ProductBound, Zenon
  <2>7. Multiply(R, L, lhs, T, rhs) =
        IF CmpGreater(C, a, C, limit) THEN Unexpected
        ELSE WithSign(R, C, static_cast(C, a * b), L, lhs, T, rhs)
    BY <1>1, <1>5, <1>7, Zenon DEF Multiply, C, a, b
  <2>8. CASE max(C) < a * b
    <3>1. ~(a * b <= max(C))
      BY <1>2, <1>3, <2>8, SMT
    <3> QED BY <2>6, <2>7, <2>8, <3>1 DEF C, a, b
  <2>9. CASE ~(max(C) < a * b)
    <3>1. a * b \in Nat /\ a * b <= max(C)
      BY <1>2, <1>3, <2>9, SMT
    <3>2. In(C, a * b)
      BY <1>3, <3>1, SMT DEF In
    <3>3. static_cast(C, a * b) = a * b
      BY <1>1, <3>1, <3>2, CastInRange, SMT
    <3>4. WithSign(R, C, a * b, L, lhs, T, rhs) =
          Exact(R, IF lhs < 0 <=> rhs < 0 THEN a * b ELSE -(a * b))
      BY <1>1, <3>1, <3>2, WithSignExact, SMT
    <3>5. (IF lhs < 0 <=> rhs < 0 THEN a * b ELSE -(a * b)) = lhs * rhs
      BY <1>2, SMT
    <3>6. Multiply(R, L, lhs, T, rhs) = Exact(R, lhs * rhs)
      BY <2>6, <2>7, <2>9, <3>3, <3>4, <3>5, Zenon
    <3> QED BY <3>1, <3>6 DEF C, a, b
  <2> QED BY <2>8, <2>9
<1> QED BY <1>6, <1>7

\* A multiple of the divisor leaves no remainder.
LEMMA MultipleHasNoRemainder ==
    ASSUME NEW m \in Nat, NEW b \in Nat, b > 0, NEW k \in Nat, m = b * k
    PROVE  m % b = 0 /\ m \div b = k
<1> DEFINE d == m \div b
           r == m % b
<1>1. d \in Nat /\ r \in Nat /\ r < b /\ m = b * d + r
  BY DivisionFacts, Zenon
<1> HIDE DEF d, r
<1>2. r = b * (k - d)
  BY <1>1, SMT
<1>3. k - d < 1
  <2>1. ASSUME k - d >= 1 PROVE FALSE
    <3>1. b * (k - d) >= b
      BY <1>1, <2>1, SMT
    <3> QED BY <1>1, <1>2, <3>1, SMT
  <2> QED BY <1>1, <2>1, SMT
<1>4. k - d > -1
  <2>1. ASSUME k - d <= -1 PROVE FALSE
    <3>1. b * (k - d) <= -b
      BY <1>1, <2>1, SMT
    <3> QED BY <1>1, <1>2, <3>1, SMT
  <2> QED BY <1>1, <2>1, SMT
<1>5. k = d
  BY <1>1, <1>3, <1>4, SMT
<1>6. r = 0
  BY <1>1, <1>2, <1>5, SMT
<1> QED BY <1>5, <1>6 DEF d, r

\* Divide (division.h:35-71) returns the quotient of a division without remainder
\* if the result type can hold it, and an error for a remainder or a zero divisor.
THEOREM DivideExact ==
    ASSUME Widths, NEW R \in Types, NEW L \in Types, NEW T \in Types,
           NEW lhs \in Int, In(L, lhs), NEW rhs \in Int, In(T, rhs)
    PROVE  /\ \A q \in Int : rhs # 0 /\ lhs = q * rhs => Divide(R, L, lhs, T, rhs) = Exact(R, q)
           /\ rhs = 0 \/ (\A q \in Int : lhs # q * rhs) => Divide(R, L, lhs, T, rhs) = Unexpected
<1> DEFINE C == CommonType(L, T)
           a == Abs(L, lhs)
           b == Abs(T, rhs)
<1>1. /\ C \in Types /\ ~C.signed /\ In(C, a) /\ static_cast(C, a) = a
      /\ In(C, b) /\ static_cast(C, b) = b
  BY CommonOperands
<1>2. /\ a \in Nat /\ a = (IF lhs < 0 THEN -lhs ELSE lhs)
      /\ b \in Nat /\ b = (IF rhs < 0 THEN -rhs ELSE rhs)
  BY AbsExact, Zenon
<1>3. CmpEqual(T, rhs, int, 0) <=> rhs = 0
  <2>1. int \in Types /\ In(int, 0)
    BY MadeTypes, TypeRange, Zenon
  <2> QED BY <2>1, CmpEqualExact
<1>4. Divide(R, L, lhs, T, rhs) =
      IF rhs = 0 \/ a % b # 0 THEN Unexpected
      ELSE WithSign(R, C, static_cast(C, a \div b), L, lhs, T, rhs)
  BY <1>1, <1>3, Zenon DEF Divide
<1> HIDE DEF C, a, b
<1>5. ASSUME NEW q \in Int, rhs # 0, lhs = q * rhs
      PROVE  Divide(R, L, lhs, T, rhs) = Exact(R, q)
  <2> DEFINE k == IF q < 0 THEN -q ELSE q
  <2>1. k \in Nat /\ b > 0 /\ a = b * k
    <3>1. k \in Nat /\ b > 0
      BY <1>2, <1>5, SMT
    <3>2. CASE q < 0
      BY <1>2, <1>5, <3>2, SMT
    <3>3. CASE ~(q < 0)
      BY <1>2, <1>5, <3>3, SMT
    <3> QED BY <3>1, <3>2, <3>3
  <2>2. a % b = 0 /\ a \div b = k
    BY <1>2, <2>1, MultipleHasNoRemainder, Zenon
  <2>3. k <= a
    BY <1>2, <2>1, <2>2, DivisionFacts
  <2>4. In(C, k)
    BY <1>1, <1>2, <2>1, <2>3, TypeRange, SMT DEF In
  <2>5. static_cast(C, k) = k
    BY <1>1, <2>1, <2>4, CastInRange, SMT
  <2>6. WithSign(R, C, k, L, lhs, T, rhs) = Exact(R, IF lhs < 0 <=> rhs < 0 THEN k ELSE -k)
    <3>1. k \in Int
      BY <2>1, SMT
    <3> QED BY <1>1, <2>4, <3>1, WithSignExact
  <2>7. (IF lhs < 0 <=> rhs < 0 THEN k ELSE -k) = q
    <3>1. CASE q <= 0 /\ q >= 0
      <4>1. ~(q < 0) /\ -q = q
        BY <3>1, SMT
      <4> QED BY <4>1
    <3>2. CASE q < 0
      <4>1. ~(lhs < 0 <=> rhs < 0)
        BY <1>5, <3>2, SMT
      <4> QED BY <3>2, <4>1, SMT
    <3>3. CASE q > 0
      <4>1. lhs < 0 <=> rhs < 0
        BY <1>5, <3>3, SMT
      <4> QED BY <3>3, <4>1, SMT
    <3> QED BY <3>1, <3>2, <3>3, SMT
  <2> HIDE DEF k
  <2> QED BY <1>4, <1>5, <2>2, <2>5, <2>6, <2>7
<1>6. ASSUME rhs # 0, \A q \in Int : lhs # q * rhs PROVE a % b # 0
  <2>1. SUFFICES ASSUME a % b = 0 PROVE FALSE
    BY Zenon
  <2> DEFINE k == a \div b
  <2>2. b > 0
    BY <1>2, <1>6, SMT
  <2>3. k \in Nat /\ a = b * k + (a % b)
    <3>1. a \in Nat /\ b \in Nat
      BY <1>2, Zenon
    <3> QED BY <2>2, <3>1, DivisionFacts
  <2>4. a = b * k
    BY <1>2, <2>1, <2>3, SMT
  <2> HIDE DEF k
  <2>5. CASE lhs < 0 <=> rhs < 0
    <3>1. lhs = k * rhs
      BY <1>2, <2>3, <2>4, <2>5, SMT
    <3> QED BY <1>6, <2>3, <3>1, SMT
  <2>6. CASE ~(lhs < 0 <=> rhs < 0)
    <3>1. lhs = (-k) * rhs
      BY <1>2, <2>3, <2>4, <2>6, SMT
    <3> QED BY <1>6, <2>3, <3>1, SMT
  <2> QED BY <2>5, <2>6
<1> QED BY <1>4, <1>5, <1>6
=============================================================================
