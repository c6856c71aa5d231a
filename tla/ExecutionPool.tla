---------------------------- MODULE ExecutionPool ----------------------------
(***************************************************************************)
(* The work-stealing thread_pool below score::cpp::execution::cpu_context: *)
(* one thread_pool_queue per worker.  Tasks are pushed round robin; a      *)
(* worker tries all queues, its own first, and blocks on its own when it   *)
(* found nothing.  The destructor stops and wakes the workers, meets them  *)
(* at a latch, and each worker disables the tasks left in its queue.       *)
(*                                                                         *)
(* Workers and their queues are numbered from 0.  A critical section of a  *)
(* queue's spin_mutex is a step that takes the mutex and a step that does  *)
(* the work and releases it, since try_to_pop gives up while the mutex is  *)
(* taken.  A task is user code between start() and its return, and may     *)
(* push other tasks.                                                       *)
(***************************************************************************)
EXTENDS Naturals, FiniteSets, Sequences

CONSTANTS
    WorkerCount,  \* worker_count_
    Clients,      \* threads that push from outside of the pool
    Destroyer,    \* the thread that runs ~thread_pool
    TaskCount,    \* how many tasks are pushed
    None

ASSUME CountsAssumption == WorkerCount \in Nat \ {0} /\ TaskCount \in Nat
ASSUME ThreadsDistinct ==
    /\ Clients \cap (0 .. WorkerCount - 1) = {}
    /\ {None, Destroyer} \cap (Clients \cup Nat) = {} /\ None # Destroyer

Workers == 0 .. WorkerCount - 1
Tasks == 1 .. TaskCount  \* numbered in the order of the calls of push()
Pushers == Workers \cup Clients

VARIABLES
    queue,       \* queue_ of each thread_pool_queue
    mutex,       \* who has its mutex_
    abort,       \* queues with abort_ set
    push_index,  \* push_index_, which counts modulo WorkerCount
    stop,        \* workers whose stop_token was requested to stop
    count, done, \* count_ and done_ of sync_point_
    pc,          \* where each worker is, see Pcs
    i,           \* its loop variable: how many queues it has tried
    task,        \* its local variable task
    push,        \* where each pusher is in push()
    target,      \* the queue it pushes to
    item,        \* the task it pushes
    pool,        \* where the destructor is
    left,        \* queues and workers it has still to deal with
    state        \* history: what was done with each task

queue_vars == <<queue, mutex, abort>>
latch_vars == <<count, done>>
worker_vars == <<pc, i, task>>
push_vars == <<push_index, push, target, item>>
pool_vars == <<pool, left, stop>>
vars == <<queue_vars, latch_vars, worker_vars, push_vars, pool_vars, state>>

Pcs == {"loop",      \* testing its stop_token
        "steal",     \* about to call try_to_pop
        "try",       \* in try_to_pop, with the mutex
        "block",     \* about to take the mutex in pop, first or woken
        "pop",       \* in pop, with the mutex
        "asleep",    \* in ready_.wait
        "body",      \* in task->start()
        "arrive",    \* about to call arrive_and_wait
        "latch",     \* in it
        "drain",     \* about to call try_to_pop after the latch
        "drain_try", \* in it, with the mutex
        "exited"}

Init ==
    /\ queue = [q \in Workers |-> <<>>]
    /\ mutex = [q \in Workers |-> None]
    /\ abort = {}
    /\ push_index = 0
    /\ stop = {}
    /\ count = WorkerCount + 1
    /\ done = FALSE
    /\ pc = [w \in Workers |-> "loop"]
    /\ i = [w \in Workers |-> 0]
    /\ task = [w \in Workers |-> None]
    /\ push = [t \in Pushers |-> "idle"]
    /\ target = [t \in Pushers |-> 0]
    /\ item = [t \in Pushers |-> None]
    /\ pool = "alive"
    /\ left = {}
    /\ state = [k \in Tasks |-> "new"]

Goto(w, label) == pc' = [pc EXCEPT ![w] = label]

\* spin_mutex
Lock(q, t) ==
    /\ mutex[q] = None
    /\ mutex' = [mutex EXCEPT ![q] = t]
Unlock(q) == mutex' = [mutex EXCEPT ![q] = None]

\* notify_one and notify_all: only the worker of a queue ever waits on it.
Notify(q) ==
    pc' = IF pc[q] = "asleep" THEN [pc EXCEPT ![q] = "block"] ELSE pc

\* latch: whoever brings count_ to 0 sets done_, which the others wait for.
CountDown ==
    /\ count' = count - 1
    /\ done' = (count = 1)

-----------------------------------------------------------------------------
(* thread_pool::push and thread_pool_queue::push                           *)

\* t is in user code: a client while the pool exists, or a task.
InUserCode(t) ==
    /\ push[t] = "idle"
    /\ IF t \in Workers THEN pc[t] = "body" ELSE pool = "alive"

choose_queue(t, k) ==
    /\ InUserCode(t)
    /\ state[k] = "new" /\ \A j \in 1 .. k - 1 : state[j] # "new"
    /\ state' = [state EXCEPT ![k] = "pending"]
    /\ push_index' = (push_index + 1) % WorkerCount
    /\ target' = [target EXCEPT ![t] = push_index]
    /\ item' = [item EXCEPT ![t] = k]
    /\ push' = [push EXCEPT ![t] = "lock"]
    /\ UNCHANGED <<queue_vars, latch_vars, worker_vars, pool_vars>>

push_lock(t) ==
    /\ push[t] = "lock"
    /\ Lock(target[t], t)
    /\ push' = [push EXCEPT ![t] = "locked"]
    /\ UNCHANGED <<queue, abort, push_index, target, item, latch_vars,
                   worker_vars, pool_vars, state>>

\* Mutant: the worker is notified only if its queue was not empty.
push_back_silent(t) ==
    LET q == target[t] IN
    /\ push[t] = "locked"
    /\ queue' = [queue EXCEPT ![q] = Append(@, item[t])]
    /\ Unlock(q)
    /\ push' = [push EXCEPT ![t] = IF queue[q] # <<>> THEN "notify" ELSE "idle"]
    /\ target' = [target EXCEPT ![t] = IF queue[q] # <<>> THEN q ELSE 0]
    /\ item' = [item EXCEPT ![t] = None]
    /\ UNCHANGED <<abort, push_index, latch_vars, worker_vars,
                   pool_vars, state>>

\* The worker is notified if its queue was empty, after the mutex is released.
push_back(t) ==
    LET q == target[t] IN
    /\ push[t] = "locked"
    /\ queue' = [queue EXCEPT ![q] = Append(@, item[t])]
    /\ Unlock(q)
    /\ push' = [push EXCEPT ![t] = IF queue[q] = <<>> THEN "notify" ELSE "idle"]
    /\ target' = [target EXCEPT ![t] = IF queue[q] = <<>> THEN q ELSE 0]
    /\ item' = [item EXCEPT ![t] = None]
    /\ UNCHANGED <<abort, push_index, latch_vars, worker_vars,
                   pool_vars, state>>

push_notify(t) ==
    /\ push[t] = "notify"
    /\ Notify(target[t])
    /\ push' = [push EXCEPT ![t] = "idle"]
    /\ target' = [target EXCEPT ![t] = 0]
    /\ UNCHANGED <<queue_vars, push_index, item, latch_vars, i, task,
                   pool_vars, state>>

-----------------------------------------------------------------------------
(* thread_pool::work                                                       *)

loop(w) ==
    /\ pc[w] = "loop"
    /\ Goto(w, IF w \in stop THEN "arrive" ELSE "steal")
    /\ i' = [i EXCEPT ![w] = 0]
    /\ UNCHANGED <<queue_vars, latch_vars, task, push_vars, pool_vars, state>>

\* task->start(), which the worker calls once it has released the mutex.
start(w, k) ==
    /\ task' = [task EXCEPT ![w] = k]
    /\ i' = [i EXCEPT ![w] = 0]
    /\ state' = [state EXCEPT ![k] = "running"]
    /\ Goto(w, "body")

\* The queue w tries next.
Victim(w) == (w + i[w]) % WorkerCount

\* After an unsuccessful try: the next queue, or pop().
TryNext(w) ==
    /\ i' = [i EXCEPT ![w] = @ + 1]
    /\ Goto(w, IF i[w] + 1 = WorkerCount THEN "block" ELSE "steal")

\* try_to_pop: try_lock ...
try_to_pop(w) ==
    /\ pc[w] = "steal"
    /\ \/ /\ mutex[Victim(w)] # None
          /\ TryNext(w)
          /\ UNCHANGED mutex
       \/ /\ Lock(Victim(w), w)
          /\ Goto(w, "try")
          /\ UNCHANGED i
    /\ UNCHANGED <<queue, abort, latch_vars, task, push_vars, pool_vars,
                   state>>

\* ... and the critical section.
try_to_pop_locked(w) ==
    LET q == Victim(w) IN
    /\ pc[w] = "try"
    /\ Unlock(q)
    /\ \/ /\ queue[q] = <<>>
          /\ TryNext(w)
          /\ UNCHANGED <<queue, task, state>>
       \/ /\ queue[q] # <<>>
          /\ queue' = [queue EXCEPT ![q] = Tail(@)]
          /\ start(w, Head(queue[q]))
    /\ UNCHANGED <<abort, latch_vars, push_vars, pool_vars>>

pop_lock(w) ==
    /\ pc[w] = "block"
    /\ Lock(w, w)
    /\ Goto(w, "pop")
    /\ UNCHANGED <<queue, abort, latch_vars, i, task, push_vars, pool_vars,
                   state>>

\* The predicate is tested with the mutex, which wait() releases as it sleeps.
\* An aborted queue yields no task even if it has some.
pop(w) ==
    /\ pc[w] = "pop"
    /\ Unlock(w)
    /\ \/ /\ w \in abort
          /\ Goto(w, "loop")
          /\ UNCHANGED <<queue, i, task, state>>
       \/ /\ w \notin abort /\ queue[w] # <<>>
          /\ queue' = [queue EXCEPT ![w] = Tail(@)]
          /\ start(w, Head(queue[w]))
       \/ /\ w \notin abort /\ queue[w] = <<>>
          /\ Goto(w, "asleep")
          /\ UNCHANGED <<queue, i, task, state>>
    /\ UNCHANGED <<abort, latch_vars, push_vars, pool_vars>>

spurious_wakeup(w) ==
    /\ pc[w] = "asleep"
    /\ Goto(w, "block")
    /\ UNCHANGED <<queue_vars, latch_vars, i, task, push_vars, pool_vars,
                   state>>

start_returns(w) ==
    /\ pc[w] = "body"
    /\ push[w] = "idle"
    /\ state' = [state EXCEPT ![task[w]] = "done"]
    /\ task' = [task EXCEPT ![w] = None]
    /\ Goto(w, "loop")
    /\ UNCHANGED <<queue_vars, latch_vars, i, push_vars, pool_vars>>

\* latch::arrive_and_wait: the last one to arrive sets done_.
arrive_and_wait(w) ==
    /\ pc[w] = "arrive"
    /\ CountDown
    /\ Goto(w, "latch")
    /\ UNCHANGED <<queue_vars, i, task, push_vars, pool_vars, state>>

\* Mutant: the worker does not wait for the destructor and the other workers.
pass_latch_early(w) ==
    /\ pc[w] = "latch"
    /\ Goto(w, "drain")
    /\ UNCHANGED <<queue_vars, latch_vars, i, task, push_vars, pool_vars,
                   state>>

pass_latch(w) ==
    /\ pc[w] = "latch"
    /\ done
    /\ Goto(w, "drain")
    /\ UNCHANGED <<queue_vars, latch_vars, i, task, push_vars, pool_vars,
                   state>>

\* The tasks left in the worker's own queue are disabled, until try_to_pop
\* yields none: also if it only found the mutex taken.
drain(w) ==
    /\ pc[w] = "drain"
    /\ IF mutex[w] = None
       THEN Lock(w, w) /\ Goto(w, "drain_try")
       ELSE Goto(w, "exited") /\ UNCHANGED mutex
    /\ UNCHANGED <<queue, abort, latch_vars, i, task, push_vars, pool_vars,
                   state>>

\* task->disable(), which the worker calls once it has released the mutex.
disable(k) == state' = [state EXCEPT ![k] = "dropped"]

\* Mutant: only one task is disabled.
drain_locked_once(w) ==
    /\ pc[w] = "drain_try"
    /\ Unlock(w)
    /\ Goto(w, "exited")
    /\ \/ /\ queue[w] = <<>>
          /\ UNCHANGED <<queue, state>>
       \/ /\ queue[w] # <<>>
          /\ queue' = [queue EXCEPT ![w] = Tail(@)]
          /\ disable(Head(queue[w]))
    /\ UNCHANGED <<abort, latch_vars, i, task, push_vars, pool_vars>>

drain_locked(w) ==
    /\ pc[w] = "drain_try"
    /\ Unlock(w)
    /\ \/ /\ queue[w] = <<>>
          /\ Goto(w, "exited")
          /\ UNCHANGED <<queue, state>>
       \/ /\ queue[w] # <<>>
          /\ queue' = [queue EXCEPT ![w] = Tail(@)]
          /\ disable(Head(queue[w]))
          /\ Goto(w, "drain")
    /\ UNCHANGED <<abort, latch_vars, i, task, push_vars, pool_vars>>

-----------------------------------------------------------------------------
(* ~thread_pool                                                            *)

\* The pool must outlive the calls of its clients, not those of its tasks.
destroy ==
    /\ pool = "alive"
    /\ \A c \in Clients : push[c] = "idle"
    /\ pool' = "stop"
    /\ left' = Workers
    /\ UNCHANGED <<queue_vars, latch_vars, worker_vars, push_vars, stop,
                   state>>

\* The loops of the destructor go through threads_ and queues_ in order.
First == CHOOSE w \in left : \A v \in left : w <= v

request_stop ==
    /\ pool = "stop"
    /\ stop' = stop \cup {First}
    /\ left' = IF left = {First} THEN Workers ELSE left \ {First}
    /\ pool' = IF left = {First} THEN "abort" ELSE "stop"
    /\ UNCHANGED <<queue_vars, latch_vars, worker_vars, push_vars, state>>

\* The destructor takes the mutex of a queue and sets abort_ ...
abort_lock ==
    /\ pool = "abort"
    /\ Lock(First, Destroyer)
    /\ pool' = "aborting"
    /\ UNCHANGED <<queue, abort, left, stop, latch_vars, worker_vars,
                   push_vars, state>>

abort_set ==
    /\ pool = "aborting"
    /\ abort' = abort \cup {First}
    /\ Unlock(First)
    /\ pool' = "notify"
    /\ UNCHANGED <<queue, left, stop, latch_vars, worker_vars, push_vars,
                   state>>

\* Mutant: nobody is notified.
abort_notify_not ==
    /\ pool = "notify"
    /\ left' = left \ {First}
    /\ pool' = IF left = {First} THEN "count_down" ELSE "abort"
    /\ UNCHANGED <<queue_vars, stop, latch_vars, worker_vars, push_vars,
                   state>>

\* ... and then notifies all.
abort_notify ==
    /\ pool = "notify"
    /\ Notify(First)
    /\ left' = left \ {First}
    /\ pool' = IF left = {First} THEN "count_down" ELSE "abort"
    /\ UNCHANGED <<queue_vars, stop, latch_vars, i, task, push_vars, state>>

\* latch::count_down
count_down ==
    /\ pool = "count_down"
    /\ CountDown
    /\ pool' = "join"
    /\ UNCHANGED <<queue_vars, worker_vars, push_vars, left, stop, state>>

\* The members are destroyed: threads_ joins the workers.
joined ==
    /\ pool = "join"
    /\ \A w \in Workers : pc[w] = "exited"
    /\ pool' = "destroyed"
    /\ UNCHANGED <<queue_vars, latch_vars, worker_vars, push_vars, left, stop,
                   state>>

-----------------------------------------------------------------------------
\* The steps of a worker's own program.
Proceed(w) ==
    \/ loop(w) \/ try_to_pop(w) \/ try_to_pop_locked(w)
    \/ pop_lock(w) \/ pop(w) \/ start_returns(w)
    \/ arrive_and_wait(w) \/ pass_latch(w) \/ drain(w) \/ drain_locked(w)

Push(t) == push_lock(t) \/ push_back(t) \/ push_notify(t)

Destructor ==
    \/ request_stop \/ abort_lock \/ abort_set \/ abort_notify
    \/ count_down \/ joined

Next ==
    \/ \E w \in Workers : Proceed(w) \/ spurious_wakeup(w)
    \/ \E t \in Pushers : Push(t) \/ \E k \in Tasks : choose_queue(t, k)
    \/ destroy \/ Destructor

Spec == Init /\ [][Next]_vars

\* Threads run and tasks return; whoever spins for a mutex gets it (hence SF).
Fairness ==
    /\ \A w \in Workers : SF_vars(Proceed(w))
    /\ \A t \in Pushers : SF_vars(Push(t))
    /\ SF_vars(Destructor)

FairSpec == Spec /\ Fairness
-----------------------------------------------------------------------------
TypeOK ==
    /\ queue \in [Workers -> Seq(Tasks)]
    /\ mutex \in [Workers -> Pushers \cup {Destroyer, None}]
    /\ abort \subseteq Workers /\ stop \subseteq Workers
    /\ left \subseteq Workers
    /\ push_index \in Workers
    /\ count \in 0 .. WorkerCount + 1 /\ done \in BOOLEAN
    /\ pc \in [Workers -> Pcs]
    /\ i \in [Workers -> 0 .. WorkerCount]
    /\ task \in [Workers -> Tasks \cup {None}]
    /\ push \in [Pushers -> {"idle", "lock", "locked", "notify"}]
    /\ target \in [Pushers -> Workers]
    /\ item \in [Pushers -> Tasks \cup {None}]

\* A worker does not sleep in pop() while its queue has a task or was aborted,
\* except until the thread that put the task there, or ~thread_pool, has
\* called the notify that follows: push() notifies only if the queue was empty
\* and after it released the mutex, and others may steal in between.
NoLostWakeUp ==
    \A w \in Workers : pc[w] = "asleep" =>
        /\ queue[w] # <<>> =>
              \E t \in Pushers : push[t] = "notify" /\ target[t] = w
        /\ w \in abort => pool = "notify" /\ First = w

\* The comment in ~thread_pool: when a worker disables what is left in its
\* queue nobody else uses that queue, so try_to_pop does not fail because of
\* the mutex, no task is pushed behind it, and when the threads are joined
\* every task that was pushed has been started or disabled.
DrainedAlone ==
    /\ \A w \in Workers : pc[w] \in {"drain", "drain_try", "exited"} =>
          /\ \A v \in Workers : pc[v] \notin {"loop", "steal", "try", "block",
                                           "pop", "asleep", "body"}
          /\ \A t \in Pushers : push[t] = "idle"
          /\ mutex[w] \in {w, None}
    /\ pool = "destroyed" =>
          /\ \A q \in Workers : queue[q] = <<>>
          /\ \A k \in Tasks : state[k] \in {"new", "done", "dropped"}

\* ~thread_pool returns.
DestructorTerminates == pool # "alive" ~> pool = "destroyed"

Abstract == INSTANCE Executor WITH
    Repeating <- {}, MayDrop <- TRUE,
    closed <- pool # "alive", aborted <- {},
    state <- [k \in Tasks |->
                 IF state[k] \in {"done", "dropped"} THEN "over" ELSE state[k]]

\* base_task: of a task that was pushed exactly one of start() and disable() is
\* called, once, and disable() only by a pool that is being destroyed.  A task
\* does not wait for ever in the queue of a busy or a sleeping worker.
ImplementsExecutor == Abstract!FairSpec
=============================================================================
