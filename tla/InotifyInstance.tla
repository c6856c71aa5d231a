--------------------------- MODULE InotifyInstance ---------------------------
(***************************************************************************)
(* InotifyInstanceImpl, which composes an inotify descriptor with an       *)
(* AbortableReader: its readers block with inotify_file_descriptor_mutex_  *)
(* shared, so Close first stops the reader and only then takes the mutex   *)
(* to close the descriptor.                                                *)
(*                                                                         *)
(* One thread calls Close and the destructor, one after the other.         *)
(***************************************************************************)
EXTENDS AbortableReader

CONSTANTS
    Paths,
    MaxCalls,  \* bound: calls of Read per reader
    MaxEvents  \* bound: events the kernel reports

VARIABLES
    valid,     \* IsValid(): there was no construction_error_
    holding,   \* threads that have inotify_file_descriptor_mutex_ shared
    watches,   \* the paths the kernel watches
    calls,     \* Reads of each reader so far
    reported,  \* events so far
    closes,    \* calls of Close and the destructor so far
    closed     \* history: one of them has returned

instance_vars == <<valid, holding, watches, calls, reported, closes, closed>>
inotify_vars == <<reader_vars, instance_vars>>

\* The constructor: inotify_init, pipe, or making one of the descriptors
\* non-blocking may fail.
InotifyInit ==
    /\ open \in {{"source", "stop_read", "stop_write"},
                 {"stop_read", "stop_write"},
                 {"source"},
                 {}}
    /\ valid = ({"source", "stop_read"} \subseteq open)
    /\ pipe = 0
    /\ events = <<>>
    /\ sharing = {}
    /\ pc = [r \in Readers |-> "idle"]
    /\ outcome = [r \in Readers |-> "none"]
    /\ stop = "idle"
    /\ holding = {}
    /\ watches = {}
    /\ calls = [r \in Readers |-> 0]
    /\ reported = 0
    /\ closes = 0
    /\ closed = FALSE

Return(r, result) == outcome' = [outcome EXCEPT ![r] = result]

-----------------------------------------------------------------------------
Read(r) ==
    /\ pc[r] = "idle"
    /\ calls[r] < MaxCalls
    /\ calls' = [calls EXCEPT ![r] = @ + 1]
    /\ \/ ~valid /\ Return(r, "EINVAL") /\ UNCHANGED <<pc, holding>>
       \/ /\ valid
          /\ holding' = holding \cup {r}
          /\ Goto(r, "call")
          /\ UNCHANGED outcome
    /\ UNCHANGED <<open, pipe, events, sharing, stop, valid, watches,
                   reported, closes, closed>>

Read_return(r) ==
    /\ pc[r] = "return"
    /\ holding' = holding \ {r}
    /\ Goto(r, "idle")
    /\ UNCHANGED <<open, pipe, events, sharing, outcome, stop, valid, watches,
                   calls, reported, closes, closed>>

\* inotify_add_watch and inotify_rm_watch, with the mutex shared.
AddWatch(r, path) ==
    /\ pc[r] = "idle"
    /\ \/ ~valid /\ Return(r, "EINVAL") /\ UNCHANGED watches
       \/ /\ valid /\ "source" \in open
          /\ watches' = watches \cup {path}
          /\ Return(r, "ok")
       \/ /\ valid /\ "source" \notin open
          /\ Return(r, "EBADF")
          /\ UNCHANGED watches
    /\ UNCHANGED <<open, pipe, events, sharing, pc, stop, valid, holding,
                   calls, reported, closes, closed>>

Report(path) ==
    /\ reported < MaxEvents
    /\ reported' = reported + 1
    /\ events' = Append(events, path)

\* The kernel reports that a watch was removed (IN_IGNORED).
RemoveWatch(r, path) ==
    /\ pc[r] = "idle"
    /\ \/ ~valid /\ Return(r, "EINVAL") /\ UNCHANGED <<watches, events, reported>>
       \/ /\ valid /\ path \in watches
          /\ watches' = watches \ {path}
          /\ Report(path)
          /\ Return(r, "ok")
       \/ /\ valid /\ "source" \notin open
          /\ Return(r, "EBADF")
          /\ UNCHANGED <<watches, events, reported>>
    /\ UNCHANGED <<open, pipe, sharing, pc, stop, valid, holding, calls,
                   closes, closed>>

\* Something happens to a path that is watched.
event(path) ==
    /\ path \in watches
    /\ Report(path)
    /\ UNCHANGED <<open, pipe, sharing, pc, outcome, stop, valid, holding,
                   watches, calls, closes, closed>>

-----------------------------------------------------------------------------
(* Close and the destructor                                                *)

Close ==
    /\ stop = "idle"
    /\ closes < 2
    /\ closes' = closes + 1
    /\ stop' = "signal"
    /\ UNCHANGED <<open, pipe, events, sharing, pc, outcome, valid, holding,
                   watches, calls, reported, closed>>

\* After Stop: the descriptor is closed, with the mutex, and the kernel drops
\* its watches and what it had to report.
Close_source ==
    /\ stop = "stopped"
    /\ holding = {}
    /\ open' = open \ {"source"}
    /\ watches' = {}
    /\ events' = <<>>
    /\ stop' = "idle"
    /\ closed' = TRUE
    /\ UNCHANGED <<pipe, sharing, pc, outcome, valid, holding, calls,
                   reported, closes>>

\* The steps of the reader inside the instance.
Reader(r) ==
    \/ Read_return(r)
    \/ Read_step(r) /\ UNCHANGED instance_vars

\* Mutant: the mutex is taken before the readers are stopped.
InternalClose_locked ==
    \/ Close_source
    \/ holding = {} /\ Stop_step /\ UNCHANGED instance_vars

InternalClose ==
    \/ Close_source
    \/ Stop_step /\ UNCHANGED instance_vars

InotifyNext ==
    \/ \E r \in Readers :
          \/ Read(r) \/ Reader(r)
          \/ poll_fails(r) /\ UNCHANGED instance_vars
          \/ \E path \in Paths : AddWatch(r, path) \/ RemoveWatch(r, path)
    \/ \E path \in Paths : event(path)
    \/ Close \/ InternalClose

InotifySpec == InotifyInit /\ [][InotifyNext]_inotify_vars

\* Threads run.  poll() need not be interrupted by a signal.
InotifyFairness ==
    /\ WF_inotify_vars(InternalClose)
    /\ \A r \in Readers : WF_inotify_vars(Reader(r))

InotifyFairSpec == InotifySpec /\ InotifyFairness

-----------------------------------------------------------------------------
InotifyTypeOK ==
    /\ open \subseteq {"source", "stop_read", "stop_write"}
    /\ pipe \in 0 .. PipeCapacity
    /\ events \in Seq(Paths)
    /\ sharing \subseteq Readers /\ holding \subseteq Readers
    /\ pc \in [Readers -> Pcs]
    /\ stop \in {"idle", "signal", "try_lock", "stopped"}
    /\ watches \subseteq Paths
    /\ closed \in BOOLEAN

\* Nobody polls or reads a descriptor that was closed, which "in reality
\* blocks on some OSs" (abortable_blocking_reader.cpp:205) and may by then be
\* another file: Stop and Close wait for all who are inside.
DescriptorsStayOpen ==
    \A r \in Readers : pc[r] \in {"poll", "read"} =>
        {"stop_read", "source"} \subseteq open

\* Closed is closed: once Close has returned no call succeeds or blocks, and
\* whoever had been inside has left.
ClosedForGood ==
    [][closed =>
        /\ open = {}
        /\ \A r \in Readers :
              /\ pc'[r] \notin {"poll", "read"}
              /\ outcome'[r] # outcome[r] =>
                    outcome'[r] \in {"EINVAL", "EBADF"}]_inotify_vars

\* Close "unblocks all pending read operations" (inotify_instance.h:53) and
\* returns, as long as the readers do not keep on coming back; and no Read
\* stays blocked while there is an event.
CallsReturn ==
    /\ stop # "idle" ~> stop = "idle"
    /\ \A r \in Readers :
          []<>~(pc[r] = "poll" /\ (events # <<>> \/ stop # "idle"))
=============================================================================
