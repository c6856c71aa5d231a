------------------------------ MODULE StopState ------------------------------
(***************************************************************************)
(* The stop-state shared by stop_source, stop_token and stop_callback      *)
(* (score::cpp::detail::stop_state): threads construct and destroy         *)
(* stop_callback objects while one of them requests the stop and runs the  *)
(* callbacks that are linked.                                              *)
(*                                                                         *)
(* One action is one critical section of callback_mutex_, together with    *)
(* the code of the same thread that follows it up to the next one: nothing *)
(* but the compare-and-swap of request_stop changes the state outside the  *)
(* mutex.  A callback body is user code: between the step that starts it   *)
(* and the step that returns from it, its thread may construct and destroy *)
(* other callbacks, or destroy the very callback it runs.                  *)
(*                                                                         *)
(* The doubly linked list is the set `linked`: elements are appended with  *)
(* growing ids, so the list order is the order of callback_id.  A member   *)
(* of Callbacks is an address: a new object may be constructed where an    *)
(* earlier one was destroyed.                                              *)
(***************************************************************************)
EXTENDS Naturals, FiniteSets

CONSTANTS
    Threads,        \* the threads that use the stop-state
    Callbacks,      \* the addresses of stop_callback objects
    MaxCallbackId,  \* bound: how many callbacks get linked in a behaviour
    NoThread,       \* the default constructed thread::id
    NoCallback      \* the null stop_callback*

ASSUME NoThreadAssumption == NoThread \notin Threads
ASSUME NoCallbackAssumption == NoCallback \notin Callbacks
ASSUME MaxCallbackIdAssumption == MaxCallbackId \in Nat

VARIABLES
    stop_requested,       \* stop_requested_
    next_callback_id,     \* next_callback_id_
    linked,               \* the callbacks reachable from first_callback_
    callback_id,          \* callback_id_ of each stop_callback
    already_started,      \* already_started_executing_ of each stop_callback
    executed_by,          \* executed_by_ of each stop_callback
    currently_executing,  \* currently_executing_callback_
    waiting,              \* threads blocked in wakeup_.wait
    life,                 \* life of the object at each address
    destroying,           \* the callback whose destructor a thread is in
    inline,               \* the callback a thread runs inside its constructor
    notifier,             \* the thread whose compare-and-swap succeeded
    notify_pc,            \* where it is in notify_registered_callbacks
    running,              \* the callback whose cb_() it is in
    runs,                 \* history: how often the object's cb_() was invoked
    released              \* history: running was destroyed by its own body

vars == <<stop_requested, next_callback_id, linked, callback_id,
          already_started, executed_by, currently_executing, waiting, life,
          destroying, inline, notifier, notify_pc, running, runs, released>>

DefaultId == 0

Lives == {"none", "constructing", "alive", "destroying"}
NotifyPcs == {"none", "lock", "body", "done"}

Init ==
    /\ stop_requested = FALSE
    /\ next_callback_id = 1
    /\ linked = {}
    /\ callback_id = [cb \in Callbacks |-> DefaultId]
    /\ already_started = [cb \in Callbacks |-> FALSE]
    /\ executed_by = [cb \in Callbacks |-> NoThread]
    /\ currently_executing = DefaultId
    /\ waiting = {}
    /\ life = [cb \in Callbacks |-> "none"]
    /\ destroying = [t \in Threads |-> NoCallback]
    /\ inline = [t \in Threads |-> NoCallback]
    /\ notifier = NoThread
    /\ notify_pc = "none"
    /\ running = NoCallback
    /\ runs = [cb \in Callbacks |-> 0]
    /\ released = FALSE

\* t is in user code: not inside a destructor, and not between the callbacks
\* of its own request_stop.
InUserCode(t) ==
    /\ destroying[t] = NoCallback
    /\ notifier = t => notify_pc \in {"body", "done"}

-----------------------------------------------------------------------------
(* stop_callback::stop_callback and stop_state::register_callback          *)

register_inline(t, cb) ==
    /\ stop_requested
    /\ callback_id' = [callback_id EXCEPT ![cb] = DefaultId]
    /\ executed_by' = [executed_by EXCEPT ![cb] = t]
    /\ already_started' = [already_started EXCEPT ![cb] = TRUE]
    /\ runs' = [runs EXCEPT ![cb] = 1]
    /\ inline' = [inline EXCEPT ![t] = cb]
    /\ life' = [life EXCEPT ![cb] = "constructing"]
    /\ UNCHANGED <<next_callback_id, linked>>

\* Mutant: stop_requested_ was tested before the mutex was taken.
register_linked_stale_test(t, cb) ==
    /\ next_callback_id <= MaxCallbackId
    /\ callback_id' = [callback_id EXCEPT ![cb] = next_callback_id]
    /\ next_callback_id' = next_callback_id + 1
    /\ linked' = linked \cup {cb}
    /\ executed_by' = [executed_by EXCEPT ![cb] = NoThread]
    /\ already_started' = [already_started EXCEPT ![cb] = FALSE]
    /\ runs' = [runs EXCEPT ![cb] = 0]
    /\ life' = [life EXCEPT ![cb] = "alive"]
    /\ UNCHANGED inline

register_linked(t, cb) ==
    /\ ~stop_requested
    /\ next_callback_id <= MaxCallbackId
    /\ callback_id' = [callback_id EXCEPT ![cb] = next_callback_id]
    /\ next_callback_id' = next_callback_id + 1
    /\ linked' = linked \cup {cb}
    /\ executed_by' = [executed_by EXCEPT ![cb] = NoThread]
    /\ already_started' = [already_started EXCEPT ![cb] = FALSE]
    /\ runs' = [runs EXCEPT ![cb] = 0]
    /\ life' = [life EXCEPT ![cb] = "alive"]
    /\ UNCHANGED inline

register_callback(t, cb) ==
    /\ InUserCode(t)
    /\ inline[t] = NoCallback       \* bound: one inline callback per thread
    /\ life[cb] = "none"
    /\ register_inline(t, cb) \/ register_linked(t, cb)
    /\ UNCHANGED <<stop_requested, currently_executing, waiting, destroying,
                   notifier, notify_pc, running, released>>

\* The callback run by the constructor returns, and with it the constructor.
inline_return(t) ==
    /\ InUserCode(t)
    /\ inline[t] # NoCallback
    /\ life' = [life EXCEPT ![inline[t]] = "alive"]
    /\ inline' = [inline EXCEPT ![t] = NoCallback]
    /\ UNCHANGED <<stop_requested, next_callback_id, linked, callback_id,
                   already_started, executed_by, currently_executing, waiting,
                   destroying, notifier, notify_pc, running, runs, released>>

-----------------------------------------------------------------------------
(* stop_callback::~stop_callback and stop_state::deregister_callback       *)

\* A callback that was never linked is destroyed without taking the mutex.
destroy_callback(t, cb) ==
    /\ InUserCode(t)
    /\ life[cb] = "alive"
    /\ IF callback_id[cb] = DefaultId
         THEN /\ life' = [life EXCEPT ![cb] = "none"]
              /\ UNCHANGED destroying
         ELSE /\ life' = [life EXCEPT ![cb] = "destroying"]
              /\ destroying' = [destroying EXCEPT ![t] = cb]
    /\ UNCHANGED <<stop_requested, next_callback_id, linked, callback_id,
                   already_started, executed_by, currently_executing, waiting,
                   inline, notifier, notify_pc, running, runs, released>>

\* Mutant: the destructor never waits.
ExecutedElsewhere_never(t, cb) == FALSE

\* Mutant: the destructor waits on the executing thread, too.
ExecutedElsewhere_or_here(t, cb) ==
    /\ executed_by[cb] # NoThread
    /\ callback_id[cb] = currently_executing

\* Another thread is inside cb_() of this callback.
ExecutedElsewhere(t, cb) ==
    /\ executed_by[cb] \notin {t, NoThread}
    /\ callback_id[cb] = currently_executing

deregister_wait(t) ==
    /\ ExecutedElsewhere(t, destroying[t])
    /\ waiting' = waiting \cup {t}
    /\ UNCHANGED <<linked, life, destroying, released>>

deregister_unlink(t) ==
    LET cb == destroying[t] IN
    /\ ~ExecutedElsewhere(t, cb)
    /\ linked' = linked \ {cb}
    /\ life' = [life EXCEPT ![cb] = "none"]
    /\ destroying' = [destroying EXCEPT ![t] = NoCallback]
    /\ released' = (released \/ (t = notifier /\ cb = running))
    /\ UNCHANGED waiting

\* Entering the critical section, for the first time or woken up.
deregister_callback(t) ==
    /\ destroying[t] # NoCallback
    /\ t \notin waiting
    /\ deregister_wait(t) \/ deregister_unlink(t)
    /\ UNCHANGED <<stop_requested, next_callback_id, callback_id,
                   already_started, executed_by, currently_executing, inline,
                   notifier, notify_pc, running, runs>>

\* std::condition_variable may wake a waiter spuriously.
spurious_wakeup(t) ==
    /\ t \in waiting
    /\ waiting' = waiting \ {t}
    /\ UNCHANGED <<stop_requested, next_callback_id, linked, callback_id,
                   already_started, executed_by, currently_executing, life,
                   destroying, inline, notifier, notify_pc, running, runs,
                   released>>

-----------------------------------------------------------------------------
(* stop_state::request_stop, notify_registered_callbacks and execute       *)

\* The compare-and-swap.  The thread that loses it returns false.
request_stop(t) ==
    /\ InUserCode(t)
    /\ ~stop_requested
    /\ stop_requested' = TRUE
    /\ notifier' = t
    /\ notify_pc' = "lock"
    /\ UNCHANGED <<next_callback_id, linked, callback_id, already_started,
                   executed_by, currently_executing, waiting, life,
                   destroying, inline, running, runs, released>>

NotStarted == {cb \in linked : ~already_started[cb]}

\* The scan from first_callback_ met no callback that is still to be run.
scan_finds_none ==
    /\ NotStarted = {}
    /\ notify_pc' = "done"
    /\ currently_executing' = DefaultId
    /\ running' = NoCallback
    /\ UNCHANGED <<already_started, executed_by, runs>>

\* The scan stops at the first one that is, and execute() enters its cb_().
scan_executes(cb) ==
    /\ cb \in NotStarted
    /\ \A other \in NotStarted : callback_id[cb] <= callback_id[other]
    /\ notify_pc' = "body"
    /\ currently_executing' = callback_id[cb]
    /\ already_started' = [already_started EXCEPT ![cb] = TRUE]
    /\ executed_by' = [executed_by EXCEPT ![cb] = notifier]
    /\ runs' = [runs EXCEPT ![cb] = @ + 1]
    /\ running' = cb

scan ==
    /\ released' = FALSE
    /\ scan_finds_none \/ \E cb \in Callbacks : scan_executes(cb)

\* The first critical section after the compare-and-swap.
notify_registered_callbacks ==
    /\ notify_pc = "lock"
    /\ scan
    /\ UNCHANGED <<stop_requested, next_callback_id, linked, callback_id,
                   waiting, life, destroying, inline, notifier>>

\* cb_() returns: execute() locks again, clears currently_executing_callback_
\* and wakes the waiters, and the scan restarts under the same lock.
execute_return ==
    /\ notify_pc = "body"
    /\ InUserCode(notifier)
    /\ inline[notifier] = NoCallback
    /\ waiting' = {}
    /\ scan
    /\ UNCHANGED <<stop_requested, next_callback_id, linked, callback_id,
                   life, destroying, inline, notifier>>

-----------------------------------------------------------------------------
Next ==
    \/ \E t \in Threads, cb \in Callbacks :
          register_callback(t, cb) \/ destroy_callback(t, cb)
    \/ \E t \in Threads :
          \/ inline_return(t)
          \/ deregister_callback(t)
          \/ spurious_wakeup(t)
          \/ request_stop(t)
    \/ notify_registered_callbacks
    \/ execute_return

Spec == Init /\ [][Next]_vars

\* A thread that wants the mutex gets it, and callback bodies return.  A body
\* may itself take steps, which disables its return for a while: hence SF.
Fairness ==
    /\ WF_vars(notify_registered_callbacks)
    /\ SF_vars(execute_return)
    /\ \A t \in Threads :
          SF_vars(inline_return(t)) /\ WF_vars(deregister_callback(t))

FairSpec == Spec /\ Fairness

-----------------------------------------------------------------------------
\* Every variable has its type; in particular a callback is executed by the
\* thread that constructs it or by the one that requested the stop.
TypeOK ==
    /\ stop_requested \in BOOLEAN
    /\ next_callback_id \in Nat
    /\ linked \subseteq Callbacks
    /\ callback_id \in [Callbacks -> Nat]
    /\ already_started \in [Callbacks -> BOOLEAN]
    /\ executed_by \in [Callbacks -> Threads \cup {NoThread}]
    /\ currently_executing \in Nat
    /\ waiting \subseteq Threads
    /\ life \in [Callbacks -> Lives]
    /\ destroying \in [Threads -> Callbacks \cup {NoCallback}]
    /\ inline \in [Threads -> Callbacks \cup {NoCallback}]
    /\ notifier \in Threads \cup {NoThread}
    /\ notify_pc \in NotifyPcs
    /\ running \in Callbacks \cup {NoCallback}
    /\ runs \in [Callbacks -> Nat]
    /\ released \in BOOLEAN

\* While request_stop() is inside cb_() of a callback, that stop_callback
\* object still exists, unless the body itself destroyed it: the destructor,
\* called on any other thread, does not complete before the callback has
\* returned (stop_callback.hpp:123-126).
CallbackOutlivesItsExecution ==
    notify_pc = "body" /\ ~released =>
        /\ life[running] \in {"alive", "destroying"}
        /\ callback_id[running] = currently_executing

\* A stop_callback's function is invoked at most once in the life of the
\* object, whichever of register_callback and request_stop comes first.
InvokedAtMostOnce == \A cb \in Callbacks : runs[cb] <= 1

\* When request_stop() has returned, every callback that still exists has been
\* invoked: a registration racing with the request is either found by the scan
\* or runs its callback itself.
NoCallbackMissed ==
    notify_pc = "done" =>
        \A cb \in Callbacks : life[cb] # "none" => runs[cb] = 1

\* A thread blocked in the destructor waits for the callback that is being
\* executed on another thread, never for one that has returned already: no
\* notify_all is lost.
WaitsOnlyForExecution ==
    \A t \in waiting :
        /\ notify_pc = "body" /\ notifier # t
        /\ running = destroying[t]

\* The destructor of a stop_callback terminates once callbacks do: it neither
\* waits for the thread it runs on nor misses the wake-up.
DestructorTerminates ==
    \A t \in Threads :
        destroying[t] # NoCallback ~> destroying[t] = NoCallback
=============================================================================
