--------------------------- MODULE AbortableReader ---------------------------
(***************************************************************************)
(* AbortableBlockingReader: Read polls a descriptor together with the read *)
(* end of a pipe, sharing mutex_ with the other readers; Stop writes to    *)
(* the pipe until it gets mutex_ for itself, and closes the pipe.          *)
(*                                                                         *)
(* The module has one descriptor to read from, "source".  pipe() and       *)
(* poll(), read() and write() on the descriptors are the kernel's: what    *)
(* is in the pipe and what the source has to read are variables.  The      *)
(* steps of the object that owns the reader are in InotifyInstance.        *)
(***************************************************************************)
EXTENDS Naturals, FiniteSetsExt, Sequences

CONSTANTS
    Readers,       \* threads that call Read
    PipeCapacity,  \* bytes the pipe holds
    MaxRead        \* events that fit into the buffer of one Read

ASSUME ReaderAssumption ==
    PipeCapacity \in Nat \ {0} /\ MaxRead \in Nat \ {0}

VARIABLES
    open,     \* descriptors that are open
    pipe,     \* bytes in the pipe
    events,   \* what there is to read from the source
    sharing,  \* readers that have mutex_ shared
    pc,       \* where each reader is
    outcome,  \* what its last call returned
    stop      \* where Stop is

reader_vars == <<open, pipe, events, sharing, pc, outcome, stop>>

Pcs == {"idle",
        "call",    \* about to take mutex_
        "poll",    \* in WaitForData
        "read",    \* the source was readable
        "unlock",  \* about to release mutex_
        "return"}  \* Read has returned to its caller

Goto(r, label) == pc' = [pc EXCEPT ![r] = label]
Fail(r, error) ==
    /\ outcome' = [outcome EXCEPT ![r] = error]
    /\ Goto(r, "unlock")

-----------------------------------------------------------------------------
(* Read                                                                    *)

\* Mutant: whether the descriptors are still open is left to poll().
Read_enter_unchecked(r) ==
    /\ pc[r] = "call"
    /\ sharing' = sharing \cup {r}
    /\ Goto(r, "poll")
    /\ UNCHANGED <<open, pipe, events, outcome, stop>>

\* The mutex is taken; a reader that has no pipe, or not any more, and a source
\* that was closed are refused.
Read_enter(r) ==
    /\ pc[r] = "call"
    /\ sharing' = sharing \cup {r}
    /\ IF {"stop_read", "source"} \subseteq open
       THEN Goto(r, "poll") /\ UNCHANGED outcome
       ELSE Fail(r, "EINVAL")
    /\ UNCHANGED <<open, pipe, events, stop>>

\* poll() returns when either is readable; the pipe goes first.
WaitForData(r) ==
    /\ pc[r] = "poll"
    /\ \/ "stop_read" \in open /\ pipe > 0 /\ Fail(r, "EINTR")
       \/ /\ "source" \in open /\ pipe = 0 /\ events # <<>>
          /\ Goto(r, "read")
          /\ UNCHANGED outcome
    /\ UNCHANGED <<open, pipe, events, sharing, stop>>

\* A signal interrupts poll().
poll_fails(r) ==
    /\ pc[r] = "poll"
    /\ Fail(r, "EINTR")
    /\ UNCHANGED <<open, pipe, events, sharing, stop>>

\* Another reader of the same source may have been faster, and the first event
\* may be too long for the buffer.
read(r) ==
    /\ pc[r] = "read"
    /\ \/ events = <<>> /\ Fail(r, "EAGAIN") /\ UNCHANGED events
       \/ events # <<>> /\ Fail(r, "too_long") /\ UNCHANGED events
       \/ \E n \in 1 .. Min({Len(events), MaxRead}) :
              /\ events' = SubSeq(events, n + 1, Len(events))
              /\ outcome' = [outcome EXCEPT ![r] = "data"]
              /\ Goto(r, "unlock")
    /\ UNCHANGED <<open, pipe, sharing, stop>>

Read_leave(r) ==
    /\ pc[r] = "unlock"
    /\ sharing' = sharing \ {r}
    /\ Goto(r, "return")
    /\ UNCHANGED <<open, pipe, events, outcome, stop>>

-----------------------------------------------------------------------------
(* Stop                                                                    *)

\* A full pipe is no error; the write end does not block.  Any other error of
\* write() ends the process, which then takes no step at all: it is left out.
SignalStop ==
    /\ stop = "signal"
    /\ pipe' = IF "stop_write" \in open THEN Min({pipe + 1, PipeCapacity})
                                        ELSE pipe
    /\ stop' = "try_lock"
    /\ UNCHANGED <<open, events, sharing, pc, outcome>>

\* Mutant: the pipe is closed although there are readers.
Stop_locked_not ==
    /\ stop = "try_lock"
    /\ open' = open \ {"stop_read", "stop_write"}
    /\ pipe' = 0
    /\ stop' = "stopped"
    /\ UNCHANGED <<events, sharing, pc, outcome>>

Stop_locked ==
    /\ stop = "try_lock"
    /\ sharing = {}
    /\ open' = open \ {"stop_read", "stop_write"}
    /\ pipe' = 0
    /\ stop' = "stopped"
    /\ UNCHANGED <<events, sharing, pc, outcome>>

\* The next round begins after a sleep of 10 ms.
Stop_again ==
    /\ stop = "try_lock"
    /\ sharing # {}
    /\ stop' = "signal"
    /\ UNCHANGED <<open, pipe, events, sharing, pc, outcome>>

Read_step(r) == Read_enter(r) \/ WaitForData(r) \/ read(r) \/ Read_leave(r)
Stop_step == SignalStop \/ Stop_locked \/ Stop_again
=============================================================================
