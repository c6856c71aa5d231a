------------------------------ MODULE ThreadPool -----------------------------
(***************************************************************************)
(* score::concurrency::ThreadPool: workers take tasks from a queue, while  *)
(* clients, and the tasks themselves, post tasks and shut the pool down.   *)
(*                                                                         *)
(* Everything but the shutdown flag is protected by queue_mutex_: one      *)
(* action is one critical section, with the code its thread runs after it  *)
(* that touches nothing shared.  condition_ is used as module              *)
(* ConditionVariable has it: a wait set from which notify_one takes some   *)
(* worker and a stop takes all of them.                                    *)
(*                                                                         *)
(* A task is user code between the step that begins it and the step that   *)
(* returns from it.  After a shutdown Enqueue runs the task in the calling *)
(* thread, so the tasks a thread is executing form a stack.                *)
(***************************************************************************)
EXTENDS Naturals, FiniteSets, Sequences

CONSTANTS
    Workers,    \* the threads of pool_
    Clients,    \* the threads that use the pool
    Tasks,      \* each is posted at most once
    LongTasks,  \* those that return only after their stop was requested
    NoTask

ASSUME ThreadsAssumption == Workers \cap Clients = {}
ASSUME WorkersAssumption == Workers # {}
ASSUME TasksAssumption == LongTasks \subseteq Tasks /\ NoTask \notin Tasks

Threads == Workers \cup Clients

VARIABLES
    queue,               \* queue_
    active,              \* active_: the task whose stop_source a worker shows
    shutdown_requested,  \* shutdown_reqested_
    worker_stop,         \* workers whose jthread was requested to stop
    asleep,              \* workers in condition_.wait
    exited,              \* workers that have returned from Work
    stack,               \* the tasks a thread executes, innermost first
    begun,               \* tasks that have been invoked
    done,                \* tasks that have returned
    stop_requested,      \* tasks whose stop_source was requested to stop
    shutting,            \* threads between the two steps of InternalShutdown
    shutdown_done,       \* history: some InternalShutdown has returned
    pool                 \* life of the ThreadPool

vars == <<queue, active, shutdown_requested, worker_stop, asleep, exited,
          stack, begun, done, stop_requested, shutting, shutdown_done, pool>>

Init ==
    /\ queue = <<>>
    /\ active = [w \in Workers |-> NoTask]
    /\ shutdown_requested = FALSE
    /\ worker_stop = {}
    /\ asleep = {}
    /\ exited = {}
    /\ stack = [t \in Threads |-> <<>>]
    /\ begun = {}
    /\ done = {}
    /\ stop_requested = {}
    /\ shutting = {}
    /\ shutdown_done = FALSE
    /\ pool = "alive"

Queued(task) == \E i \in 1 .. Len(queue) : queue[i] = task
Executes(t, task) == \E i \in 1 .. Len(stack[t]) : stack[t][i] = task
Posted(task) ==
    Queued(task) \/ task \in done \/ \E t \in Threads : Executes(t, task)

\* t is in user code: in a task, or a client that uses the pool.
InUserCode(t) ==
    /\ t \notin shutting
    /\ \/ stack[t] # <<>> /\ Head(stack[t]) \in begun
       \/ stack[t] = <<>> /\ t \in Clients /\ pool = "alive"

-----------------------------------------------------------------------------
(* ThreadPool::Work                                                        *)

Work_exit(w) ==
    /\ queue = <<>>
    /\ w \in worker_stop
    /\ exited' = exited \cup {w}
    /\ active' = [active EXCEPT ![w] = NoTask]
    /\ UNCHANGED <<queue, asleep, stack>>

Work_wait(w) ==
    /\ queue = <<>>
    /\ w \notin worker_stop
    /\ asleep' = asleep \cup {w}
    /\ active' = [active EXCEPT ![w] = NoTask]
    /\ UNCHANGED <<queue, exited, stack>>

\* Mutant: the task is taken without showing its stop_source.
Work_take_unlisted(w) ==
    /\ queue # <<>>
    /\ queue' = Tail(queue)
    /\ active' = [active EXCEPT ![w] = NoTask]
    /\ stack' = [stack EXCEPT ![w] = <<Head(queue)>>]
    /\ UNCHANGED <<asleep, exited>>

\* Mutant: front() without pop_front().
Work_take_unpopped(w) ==
    /\ queue # <<>>
    /\ UNCHANGED queue
    /\ active' = [active EXCEPT ![w] = Head(queue)]
    /\ stack' = [stack EXCEPT ![w] = <<Head(queue)>>]
    /\ UNCHANGED <<asleep, exited>>

Work_take(w) ==
    /\ queue # <<>>
    /\ queue' = Tail(queue)
    /\ active' = [active EXCEPT ![w] = Head(queue)]
    /\ stack' = [stack EXCEPT ![w] = <<Head(queue)>>]
    /\ UNCHANGED <<asleep, exited>>

\* A worker gets queue_mutex_: at its start, woken up, or after a task, whose
\* stop_source it drops first.
Work(w) ==
    /\ w \notin asleep \cup exited
    /\ stack[w] = <<>>
    /\ Work_exit(w) \/ Work_wait(w) \/ Work_take(w)
    /\ UNCHANGED <<shutdown_requested, worker_stop, begun, done,
                   stop_requested, shutting, shutdown_done, pool>>

spurious_wakeup(w) ==
    /\ w \in asleep
    /\ asleep' = asleep \ {w}
    /\ UNCHANGED <<queue, active, shutdown_requested, worker_stop, exited,
                   stack, begun, done, stop_requested, shutting,
                   shutdown_done, pool>>

\* Execute(): a task that begins after the shutdown begins with its stop
\* requested.  The flag is read without the mutex.
Execute(t) ==
    LET task == Head(stack[t]) IN
    /\ stack[t] # <<>>
    /\ task \notin begun
    /\ begun' = begun \cup {task}
    /\ stop_requested' = IF shutdown_requested
                           THEN stop_requested \cup {task}
                           ELSE stop_requested
    /\ UNCHANGED <<queue, active, shutdown_requested, worker_stop, asleep,
                   exited, stack, done, shutting, shutdown_done, pool>>

Execute_return(t) ==
    LET task == Head(stack[t]) IN
    /\ stack[t] # <<>>
    /\ InUserCode(t)
    /\ task \in LongTasks => task \in stop_requested
    /\ done' = done \cup {task}
    /\ stack' = [stack EXCEPT ![t] = Tail(stack[t])]
    /\ UNCHANGED <<queue, active, shutdown_requested, worker_stop, asleep,
                   exited, begun, stop_requested, shutting, shutdown_done,
                   pool>>

-----------------------------------------------------------------------------
(* ThreadPool::Enqueue                                                     *)

NotifyOne == IF asleep = {} THEN asleep' = asleep
                            ELSE \E w \in asleep : asleep' = asleep \ {w}

\* Mutant: the flag was read before the mutex was taken.
Enqueue_queue_stale(t, task) ==
    /\ queue' = Append(queue, task)
    /\ NotifyOne
    /\ UNCHANGED stack

\* Mutant: a worker is notified only when the queue was empty.
Enqueue_queue_lazy(t, task) ==
    /\ ~shutdown_requested
    /\ queue' = Append(queue, task)
    /\ IF queue = <<>> THEN NotifyOne ELSE UNCHANGED asleep
    /\ UNCHANGED stack

Enqueue_queue(t, task) ==
    /\ ~shutdown_requested
    /\ queue' = Append(queue, task)
    /\ NotifyOne
    /\ UNCHANGED stack

Enqueue_inline(t, task) ==
    /\ shutdown_requested
    /\ stack' = [stack EXCEPT ![t] = <<task>> \o stack[t]]
    /\ UNCHANGED <<queue, asleep>>

Enqueue(t, task) ==
    /\ InUserCode(t)
    /\ ~Posted(task)
    /\ Enqueue_queue(t, task) \/ Enqueue_inline(t, task)
    /\ UNCHANGED <<active, shutdown_requested, worker_stop, exited, begun,
                   done, stop_requested, shutting, shutdown_done, pool>>

-----------------------------------------------------------------------------
(* ThreadPool::InternalShutdown, called by Shutdown and the destructor     *)

\* The flag is set before the mutex is taken ...
Shutdown(t) ==
    /\ InUserCode(t)
    /\ shutdown_requested' = TRUE
    /\ shutting' = shutting \cup {t}
    /\ UNCHANGED <<queue, active, worker_stop, asleep, exited, stack, begun,
                   done, stop_requested, shutdown_done, pool>>

\* Mutant: only the workers are stopped.
RequestStops_workers_only ==
    /\ worker_stop' = Workers
    /\ asleep' = {}
    /\ UNCHANGED stop_requested

\* ... and with the mutex, the active tasks and the workers are stopped.
RequestStops ==
    /\ stop_requested' =
          (stop_requested \cup {active[w] : w \in Workers}) \ {NoTask}
    /\ worker_stop' = Workers
    /\ asleep' = {}

InternalShutdown(t) ==
    /\ t \in shutting
    /\ RequestStops
    /\ shutting' = shutting \ {t}
    /\ shutdown_done' = TRUE
    /\ UNCHANGED <<queue, active, shutdown_requested, exited, stack, begun,
                   done, pool>>

\* The destructor is called when no client uses the pool any more.  It shuts
\* down and joins the workers.
destroy ==
    /\ pool = "alive"
    /\ \A c \in Clients : stack[c] = <<>> /\ c \notin shutting
    /\ pool' = "closing"
    /\ shutdown_requested' = TRUE
    /\ UNCHANGED <<queue, active, worker_stop, asleep, exited, stack, begun,
                   done, stop_requested, shutting, shutdown_done>>

destroy_shutdown ==
    /\ pool = "closing"
    /\ RequestStops
    /\ pool' = "closed"
    /\ shutdown_done' = TRUE
    /\ UNCHANGED <<queue, active, shutdown_requested, exited, stack, begun,
                   done, shutting>>

\* ~jthread requests the worker to stop once more ...
destroy_join ==
    /\ pool = "closed"
    /\ pool' = "joining"
    /\ worker_stop' = Workers
    /\ asleep' = {}
    /\ UNCHANGED <<queue, active, shutdown_requested, exited, stack, begun,
                   done, stop_requested, shutting, shutdown_done>>

\* ... and joins it.
destroy_joined ==
    /\ pool = "joining"
    /\ exited = Workers
    /\ pool' = "destroyed"
    /\ UNCHANGED <<queue, active, shutdown_requested, worker_stop, asleep,
                   exited, stack, begun, done, stop_requested, shutting,
                   shutdown_done>>

-----------------------------------------------------------------------------
Next ==
    \/ \E w \in Workers : Work(w) \/ spurious_wakeup(w)
    \/ \E t \in Threads :
          \/ Execute(t) \/ Execute_return(t)
          \/ \E task \in Tasks : Enqueue(t, task)
          \/ Shutdown(t) \/ InternalShutdown(t)
    \/ destroy \/ destroy_shutdown \/ destroy_join \/ destroy_joined

Spec == Init /\ [][Next]_vars

\* Threads run and tasks return, the long ones once they are stopped.  Before
\* it returns a task may post others, which run nested: hence SF.
Fairness ==
    /\ \A w \in Workers : WF_vars(Work(w))
    /\ \A t \in Threads :
          /\ WF_vars(Execute(t))
          /\ SF_vars(Execute_return(t))
          /\ WF_vars(InternalShutdown(t))
    /\ WF_vars(destroy_shutdown) /\ WF_vars(destroy_join)
    /\ WF_vars(destroy_joined)

FairSpec == Spec /\ Fairness

-----------------------------------------------------------------------------
\* Every variable has its type; in particular no worker executes a null task,
\* which it may find when it is woken for one that another worker took.
TypeOK ==
    /\ queue \in Seq(Tasks)
    /\ active \in [Workers -> Tasks \cup {NoTask}]
    /\ shutdown_requested \in BOOLEAN
    /\ worker_stop \subseteq Workers
    /\ asleep \subseteq Workers
    /\ exited \subseteq Workers
    /\ stack \in [Threads -> Seq(Tasks)]
    /\ begun \subseteq Tasks
    /\ done \subseteq Tasks
    /\ stop_requested \subseteq Tasks
    /\ shutting \subseteq Threads
    /\ shutdown_done \in BOOLEAN
    /\ pool \in {"alive", "closing", "closed", "joining", "destroyed"}

\* A task is in one place at a time: in the queue, executed by one thread, or
\* finished; so it is executed at most once and is never dropped on the way.
OnePlace ==
    /\ \A i, j \in 1 .. Len(queue) : queue[i] = queue[j] => i = j
    /\ \A task \in Tasks :
          /\ Queued(task) => task \notin begun
          /\ task \in done => ~Queued(task)
          /\ \A t \in Threads : Executes(t, task) =>
                /\ ~Queued(task) /\ task \notin done
                /\ \A u \in Threads : Executes(u, task) => u = t
    /\ done \subseteq begun

\* "in an unlucky situation, it could happen that all workers already finished
\* and the newly added task gets never executed" (thread_pool.cpp:128-132): it
\* does not, a worker leaves only when the queue is empty and stays so.
NoTaskStranded == exited # {} => queue = <<>>

\* Once a shutdown has returned, every task that runs has its stop requested,
\* also the one that was taken, or began, while the shutdown was under way.
ShutdownStopsTasks ==
    shutdown_done => \A task \in begun \ done : task \in stop_requested

\* There is a second execution of the task to come, or under way.
Again(task) ==
    \/ task \in begun /\ Queued(task)
    \/ task \in done /\ \E t \in Threads : Executes(t, task)
    \/ \E t, u \in Threads : t # u /\ Executes(t, task) /\ Executes(u, task)

\* What the pool does with a task, seen from outside; no executor has a task
\* that is executed again.
TaskState(task) ==
    IF Again(task) THEN "again"
    ELSE IF task \in done THEN "over"
    ELSE IF task \in begun THEN "running"
    ELSE IF Posted(task) THEN "pending"
    ELSE "new"

Abstract == INSTANCE Executor WITH
    Repeating <- {}, MayDrop <- FALSE,
    state <- [task \in Tasks |-> TaskState(task)],
    closed <- shutdown_requested, aborted <- {}

\* The pool is an executor that gives up no task: whatever Enqueue accepted is
\* executed once and by one thread, before, during and after a shutdown.
ImplementsExecutor == Abstract!Spec

\* Without a shutdown, a task is executed as long as some worker is not held
\* by a long one.
PostedTaskRuns ==
    Cardinality(LongTasks) < Cardinality(Workers) =>
        \A task \in Tasks \ LongTasks : Posted(task) ~> task \in done

\* The destructor terminates, and leaves no task behind.
DestructorTerminates ==
    pool = "closing" ~>
        pool = "destroyed" /\ \A task \in Tasks : Posted(task) => task \in done
=============================================================================
