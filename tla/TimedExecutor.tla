---------------------------- MODULE TimedExecutor ----------------------------
(***************************************************************************)
(* ConcurrentTimedExecutor with the delayed and the periodic tasks: its    *)
(* workers take the task with the earliest execution point from a sorted   *)
(* queue, sleep until that point, and look again when they are woken.      *)
(*                                                                         *)
(* One action is one critical section of mutex_, or the user code between  *)
(* two of them.  Each worker sleeps on a condition variable of its own     *)
(* (see ConditionVariable), in the wait for a task or in the wait for its  *)
(* execution point; notifying a worker that is not asleep does nothing.    *)
(* Workers are numbered by the address of their condition variable, the    *)
(* order of free_ and waiting_.  executor_ is a ThreadPool that runs one   *)
(* worker per thread.                                                      *)
(***************************************************************************)
EXTENDS Naturals, FiniteSets, Sequences

CONSTANTS
    NumWorkers,                    \* executor_->MaxConcurrencyLevel()
    DelayedTasks, PeriodicTasks,
    LongTasks,                     \* return only after a stop request
    NoTask,
    MaxTime                        \* bound: the last instant of the clock

ASSUME NumWorkersAssumption == NumWorkers \in Nat \ {0}
ASSUME TasksAssumption ==
    /\ DelayedTasks \cap PeriodicTasks = {}
    /\ LongTasks \subseteq DelayedTasks \cup PeriodicTasks
    /\ NoTask \notin DelayedTasks \cup PeriodicTasks
ASSUME MaxTimeAssumption == MaxTime \in Nat

Workers == 1 .. NumWorkers
Tasks == DelayedTasks \cup PeriodicTasks
Interval == 1

VARIABLES
    now,             \* Clock::now()
    queue,           \* queue_: pairs of execution point and task
    free,            \* free_: workers waiting for a task
    waiting,         \* waiting_: pairs of execution point and worker
    pc,              \* where each worker is, see Pcs
    held,            \* its local variable task
    point,           \* execution_time_point_ of each task
    stop_requested,  \* tasks whose stop_source_ was requested to stop
    result,          \* state of each task's promise
    stopped,         \* workers whose stop_token was requested to stop
    shutdown,        \* executor_->Shutdown() was called
    destroying       \* the destructor was called

vars == <<now, queue, free, waiting, pc, held, point, stop_requested, result,
          stopped, shutdown, destroying>>

Pcs == {"loop",         \* testing its stop_token
        "enter",        \* entering Work
        "free",         \* asleep, waiting for a task
        "free_woken",   \* the same, notified
        "timed",        \* asleep, waiting for held's execution point
        "timed_woken",  \* the same, notified, or the time has come
        "run",          \* about to execute held
        "body",         \* in its callable
        "after",        \* operator() has returned
        "reschedule",   \* about to put held back
        "exited"}

Results == {"unposted", "pending", "value", "broken"}

Init ==
    /\ now = 0
    /\ queue = <<>>
    /\ free = {}
    /\ waiting = {}
    /\ pc = [w \in Workers |-> "loop"]
    /\ held = [w \in Workers |-> NoTask]
    /\ point = [task \in Tasks |-> 0]
    /\ stop_requested = {}
    /\ result = [task \in Tasks |-> "unposted"]
    /\ stopped = {}
    /\ shutdown = FALSE
    /\ destroying = FALSE

-----------------------------------------------------------------------------
(* ScheduleAtInternal and WakeUp                                           *)

Entry(time_point, task) == [time_point |-> time_point, task |-> task]

\* Mutant: the task goes to the end of the queue.
Inserted_last(time_point, task) == Append(queue, Entry(time_point, task))

\* lower_bound: before the first entry that is not earlier.
Inserted(time_point, task) ==
    LET k == CHOOSE k \in 0 .. Len(queue) :
                /\ \A i \in 1 .. k : queue[i].time_point < time_point
                /\ k < Len(queue) => ~(queue[k + 1].time_point < time_point)
    IN  SubSeq(queue, 1, k) \o <<Entry(time_point, task)>>
            \o SubSeq(queue, k + 1, Len(queue))

\* notify_one on the condition variable of w.
Notified(w, pcs) ==
    [pcs EXCEPT ![w] = CASE @ = "free" -> "free_woken"
                         [] @ = "timed" -> "timed_woken"
                         [] OTHER -> @]

First(workers) == CHOOSE w \in workers : \A v \in workers : w <= v

\* Mutant: nobody is woken.
WakeUp_nobody(time_point, idle, waiters, pcs) == pcs

\* Mutant: workers that wait for a later execution point are left asleep.
WakeUp_free_only(time_point, idle, waiters, pcs) ==
    IF idle # {} THEN Notified(First(idle), pcs) ELSE pcs

\* A free worker is woken; if there is none, the one that waits for the first
\* execution point that is not earlier than the new one.
WakeUp(time_point, idle, waiters, pcs) ==
    LET later == {pair \in waiters : pair[1] >= time_point}
        soonest == {pair \in later : \A other \in later : pair[1] <= other[1]}
    IN  CASE idle # {} -> Notified(First(idle), pcs)
          [] idle = {} /\ later # {} ->
                 Notified(First({pair[2] : pair \in soonest}), pcs)
          [] OTHER -> pcs

\* w puts its task back and leaves Work.
PutBack(w) ==
    LET task == held[w]
        still_waiting == waiting \ {<<point[task], w>>}
    IN  /\ waiting' = still_waiting
        /\ queue' = Inserted(point[task], task)
        /\ pc' = WakeUp(point[task], free, still_waiting,
                        [pc EXCEPT ![w] = "loop"])
        /\ held' = [held EXCEPT ![w] = NoTask]

-----------------------------------------------------------------------------
(* The functor posted to executor_, and Work                               *)

\* while (not token.stop_requested())
loop(w) ==
    /\ pc[w] = "loop"
    /\ pc' = [pc EXCEPT ![w] = IF w \in stopped THEN "exited" ELSE "enter"]
    /\ UNCHANGED <<now, queue, free, waiting, held, point, stop_requested,
                   result, stopped, shutdown, destroying>>

\* Mutant: the task a worker waits for stays in the queue.
take_unpopped(w) ==
    LET entry == Head(queue) IN
    /\ queue # <<>>
    /\ free' = free \ {w}
    /\ held' = [held EXCEPT ![w] = entry.task]
    /\ IF now >= entry.time_point
         THEN /\ queue' = Tail(queue)
              /\ pc' = [pc EXCEPT ![w] = "run"]
              /\ UNCHANGED waiting
         ELSE /\ UNCHANGED queue
              /\ pc' = [pc EXCEPT ![w] = "timed"]
              /\ waiting' = waiting \cup {<<entry.time_point, w>>}

\* The task with the earliest execution point is taken: to be executed, or to
\* be waited for, unless a stop was requested: then wait_until returns at once
\* and the task is put back.
take(w) ==
    LET entry == Head(queue) IN
    /\ queue # <<>>
    /\ free' = free \ {w}
    /\ \/ /\ now >= entry.time_point
          /\ queue' = Tail(queue)
          /\ held' = [held EXCEPT ![w] = entry.task]
          /\ pc' = [pc EXCEPT ![w] = "run"]
          /\ UNCHANGED waiting
       \/ /\ now < entry.time_point /\ w \notin stopped
          /\ queue' = Tail(queue)
          /\ held' = [held EXCEPT ![w] = entry.task]
          /\ pc' = [pc EXCEPT ![w] = "timed"]
          /\ waiting' = waiting \cup {<<entry.time_point, w>>}
       \/ /\ now < entry.time_point /\ w \in stopped
          /\ pc' = WakeUp(entry.time_point, free \ {w}, waiting,
                          [pc EXCEPT ![w] = "loop"])
          /\ UNCHANGED <<queue, held, waiting>>

\* The wait for a task: an interrupted worker returns without leaving free_.
wait_for_task(w) ==
    /\ queue = <<>>
    /\ free' = free \cup {w}
    /\ pc' = [pc EXCEPT ![w] = IF w \in stopped THEN "loop" ELSE "free"]
    /\ UNCHANGED <<queue, waiting, held>>

\* The critical section of Work, at its beginning or woken in the wait.
Work(w) ==
    /\ pc[w] \in {"enter", "free_woken"}
    /\ take(w) \/ wait_for_task(w)
    /\ UNCHANGED <<now, point, stop_requested, result, stopped,
                   shutdown, destroying>>

\* The wait for the execution point has ended, for whatever reason.
Work_woken(w) ==
    /\ pc[w] = "timed_woken"
    /\ PutBack(w)
    /\ UNCHANGED <<now, free, point, stop_requested, result, stopped,
                   shutdown, destroying>>

\* Spuriously, or because the execution point has come.
wake_unnotified(w) ==
    /\ pc[w] \in {"free", "timed"}
    /\ pc' = Notified(w, pc)
    /\ UNCHANGED <<now, queue, free, waiting, held, point, stop_requested,
                   result, stopped, shutdown, destroying>>

\* Mutant: the worker's stop is not forwarded to the task when it begins.
execute_unforwarded(w) ==
    LET task == held[w] IN
    /\ pc[w] = "run"
    /\ IF task \in stop_requested
         THEN /\ pc' = [pc EXCEPT ![w] = "after"]
              /\ result' = [result EXCEPT ![task] =
                              IF task \in PeriodicTasks THEN "value" ELSE @]
         ELSE /\ pc' = [pc EXCEPT ![w] = "body"]
              /\ UNCHANGED result
    /\ UNCHANGED <<now, queue, free, waiting, held, point, stop_requested,
                   stopped, shutdown, destroying>>

\* The stop_callback is constructed: it runs at once if the worker's stop was
\* requested before.  operator() calls the callable unless the task is stopped;
\* a periodic one that is sets its promise.
execute(w) ==
    LET task == held[w]
        stop == w \in stopped \/ task \in stop_requested
    IN
    /\ pc[w] = "run"
    /\ stop_requested' = stop_requested \cup (IF stop THEN {task} ELSE {})
    /\ IF stop
         THEN /\ pc' = [pc EXCEPT ![w] = "after"]
              /\ result' = [result EXCEPT ![task] =
                              IF task \in PeriodicTasks THEN "value" ELSE @]
         ELSE /\ pc' = [pc EXCEPT ![w] = "body"]
              /\ UNCHANGED result
    /\ UNCHANGED <<now, queue, free, waiting, held, point, stopped, shutdown,
                   destroying>>

\* The callable returns.  A delayed task is over; a periodic one says itself
\* whether it wants to go on.
callable_returns(w, again) ==
    LET task == held[w] IN
    /\ pc[w] = "body"
    /\ task \in LongTasks => task \in stop_requested
    /\ again => task \in PeriodicTasks /\ point[task] <= MaxTime
    /\ IF again
         THEN /\ point' = [point EXCEPT ![task] = @ + Interval]
              /\ UNCHANGED <<stop_requested, result>>
         ELSE /\ stop_requested' = stop_requested \cup {task}
              /\ result' = [result EXCEPT ![task] = "value"]
              /\ UNCHANGED point
    /\ pc' = [pc EXCEPT ![w] = "after"]
    /\ UNCHANGED <<now, queue, free, waiting, held, stopped, shutdown,
                   destroying>>

\* Destroying a task destroys its promise.
Broken(r) == IF r = "pending" THEN "broken" ELSE r

\* GetNextExecutionPoint(), read without the mutex: a stopped task is dropped.
next_execution_point(w) ==
    LET task == held[w] IN
    /\ pc[w] = "after"
    /\ IF task \in stop_requested
         THEN /\ pc' = [pc EXCEPT ![w] = "loop"]
              /\ held' = [held EXCEPT ![w] = NoTask]
              /\ result' = [result EXCEPT ![task] = Broken(@)]
         ELSE /\ pc' = [pc EXCEPT ![w] = "reschedule"]
              /\ UNCHANGED <<held, result>>
    /\ UNCHANGED <<now, queue, free, waiting, point, stop_requested,
                   stopped, shutdown, destroying>>

reschedule(w) ==
    /\ pc[w] = "reschedule"
    /\ PutBack(w)
    /\ UNCHANGED <<now, free, point, stop_requested, result, stopped,
                   shutdown, destroying>>

-----------------------------------------------------------------------------
(* The users: Enqueue, TaskResult::Abort, Shutdown and the destructor      *)

\* While the destructor waits for the workers, the tasks they execute may still
\* enqueue others.
Enqueue(task, time_point) ==
    /\ result[task] = "unposted"
    /\ destroying => \E w \in Workers : pc[w] = "body"
    /\ point' = [point EXCEPT ![task] = time_point]
    /\ result' = [result EXCEPT ![task] = "pending"]
    /\ queue' = Inserted(time_point, task)
    /\ pc' = WakeUp(time_point, free, waiting, pc)
    /\ UNCHANGED <<now, free, waiting, held, stop_requested, stopped,
                   shutdown, destroying>>

Abort(task) ==
    /\ result[task] = "pending"
    /\ stop_requested' = stop_requested \cup {task}
    /\ UNCHANGED <<now, queue, free, waiting, pc, held, point, result,
                   stopped, shutdown, destroying>>

Shutdown ==
    /\ shutdown' = TRUE
    /\ UNCHANGED <<now, queue, free, waiting, pc, held, point, stop_requested,
                   result, stopped, destroying>>

\* executor_.reset() shuts the executor down, too.
destroy ==
    /\ destroying' = TRUE
    /\ shutdown' = TRUE
    /\ UNCHANGED <<now, queue, free, waiting, pc, held, point, stop_requested,
                   result, stopped>>

\* Mutant: a worker that waits is not woken.
request_stop_silent(w) ==
    /\ shutdown
    /\ w \notin stopped
    /\ stopped' = stopped \cup {w}
    /\ stop_requested' =
          stop_requested \cup (IF pc[w] = "body" THEN {held[w]} ELSE {})
    /\ UNCHANGED <<now, queue, free, waiting, pc, held, point, result,
                   shutdown, destroying>>

\* executor_ requests the workers to stop, one after the other: the callbacks
\* wake the worker if it waits and stop the task it executes.
request_stop(w) ==
    /\ shutdown
    /\ w \notin stopped
    /\ stopped' = stopped \cup {w}
    /\ pc' = Notified(w, pc)
    /\ stop_requested' =
          stop_requested \cup (IF pc[w] = "body" THEN {held[w]} ELSE {})
    /\ UNCHANGED <<now, queue, free, waiting, held, point, result,
                   shutdown, destroying>>

\* The destructor has joined the workers; the queue is destroyed.
destroyed ==
    /\ destroying
    /\ \A w \in Workers : pc[w] = "exited"
    /\ queue # <<>>
    /\ queue' = <<>>
    /\ result' = [task \in Tasks |->
                    IF \E i \in DOMAIN queue : queue[i].task = task
                      THEN Broken(result[task]) ELSE result[task]]
    /\ UNCHANGED <<now, free, waiting, pc, held, point, stop_requested,
                   stopped, shutdown, destroying>>

tick ==
    /\ now < MaxTime
    /\ now' = now + 1
    /\ UNCHANGED <<queue, free, waiting, pc, held, point, stop_requested,
                   result, stopped, shutdown, destroying>>

-----------------------------------------------------------------------------
\* The steps of a worker's own program.
Proceed(w) ==
    \/ loop(w) \/ Work(w) \/ Work_woken(w) \/ execute(w)
    \/ \E again \in BOOLEAN : callable_returns(w, again)
    \/ next_execution_point(w) \/ reschedule(w)

Next ==
    \/ \E w \in Workers : Proceed(w) \/ wake_unnotified(w) \/ request_stop(w)
    \/ \E task \in Tasks :
          \/ \E time_point \in 0 .. MaxTime : Enqueue(task, time_point)
          \/ Abort(task)
    \/ Shutdown \/ destroy \/ destroyed
    \/ tick

Spec == Init /\ [][Next]_vars

\* The execution point of the task w waits for has come.
Elapsed(w) == pc[w] = "timed" /\ now >= point[held[w]]

\* Threads run, callables return (the long ones once they are stopped), time
\* passes and ends a timed sleep.  Spurious wake-ups need not happen.
Fairness ==
    /\ \A w \in Workers :
          /\ WF_vars(Proceed(w))
          /\ WF_vars(wake_unnotified(w) /\ Elapsed(w))
          /\ WF_vars(request_stop(w))
    /\ WF_vars(destroyed)
    /\ WF_vars(tick)

FairSpec == Spec /\ Fairness

-----------------------------------------------------------------------------
\* Every variable has its type; in particular a periodic task is scheduled one
\* interval after its last execution point and not later.
TypeOK ==
    /\ now \in 0 .. MaxTime
    /\ queue \in Seq([time_point : 0 .. MaxTime + Interval, task : Tasks])
    /\ free \subseteq Workers
    /\ waiting \subseteq (0 .. MaxTime + Interval) \X Workers
    /\ pc \in [Workers -> Pcs]
    /\ held \in [Workers -> Tasks \cup {NoTask}]
    /\ point \in [Tasks -> 0 .. MaxTime + Interval]
    /\ stop_requested \subseteq Tasks
    /\ result \in [Tasks -> Results]
    /\ stopped \subseteq Workers
    /\ shutdown \in BOOLEAN
    /\ destroying \in BOOLEAN

Queued(task) == \E i \in DOMAIN queue : queue[i].task = task
HeldBy(task) == {w \in Workers : held[w] = task}

\* A task lives in one place, the queue or one worker, from Enqueue until its
\* promise is resolved; nobody runs a task that is in the queue.
OnePlace ==
    \A task \in Tasks :
        /\ result[task] = "pending" => Queued(task) \/ HeldBy(task) # {}
        /\ Queued(task) => HeldBy(task) = {}
        /\ \A v, w \in HeldBy(task) : v = w
        /\ \A i, j \in DOMAIN queue : queue[i].task = queue[j].task => i = j

\* What the executor does with a task, seen from outside; no executor has a
\* task that is executed while it is still queued.
TaskState(task) ==
    IF \E w \in HeldBy(task) : pc[w] = "body"
      THEN IF Queued(task) THEN "again" ELSE "running"
      ELSE CASE result[task] = "unposted" -> "new"
             [] result[task] = "pending" -> "pending"
             [] result[task] \in {"value", "broken"} -> "over"

Abstract == INSTANCE Executor WITH
    Repeating <- PeriodicTasks, MayDrop <- TRUE,
    state <- [task \in Tasks |-> TaskState(task)],
    closed <- shutdown, aborted <- stop_requested

\* The timed executor is an executor that may give up tasks when it is shut
\* down: nothing else breaks the promise of a task that was not aborted, and a
\* task does not run again after its promise was resolved.
ImplementsExecutor == Abstract!Spec

\* "Earliest start-time first": whoever starts to execute a task, or to wait
\* for it, leaves none in the queue that is to be executed earlier.
EarliestFirst ==
    [][\A w \in Workers :
          held[w] = NoTask /\ held'[w] # NoTask =>
              \A i \in DOMAIN queue' :
                  queue'[i].time_point >= point[held'[w]]]_vars

\* A pool that sleeps has forgotten no task: if all workers sleep and there are
\* tasks in the queue, one of the workers wakes up for a task of its own before
\* or when the first of them is to be executed, and then looks at the queue.
QueueNotForgotten ==
    queue # <<>> /\ (\A w \in Workers : pc[w] \in {"free", "timed"}) =>
        \E w \in Workers :
            pc[w] = "timed" /\ point[held[w]] <= Head(queue).time_point

\* A worker that was asked to stop runs no task that was not: the stop reaches
\* the task whether it comes before or after the task begins.
StopForwarded ==
    \A w \in Workers :
        pc[w] = "body" /\ w \in stopped => held[w] \in stop_requested

\* The next execution point of a task has come and it is not being executed.
Due(task) ==
    /\ now >= point[task]
    /\ Queued(task) \/ \E w \in HeldBy(task) : pc[w] \in {"timed", "timed_woken"}

\* A task is executed when its time has come, or later, as long as there are
\* more workers than tasks that run until they are stopped: WakeUp "ensure[s]
\* that all needed threads are woken up" (concurrent_timed_executor.h:207).
\* Without long tasks it holds.  With one it does not: two tasks enqueued in a
\* row both notify the first worker of free_, which executes the long one.
DueTaskRuns ==
    Cardinality(LongTasks) < NumWorkers =>
        \A task \in Tasks : Due(task) ~> ~Due(task) \/ shutdown

\* The destructor leaves no promise unresolved: a task that was not executed
\* any more breaks its promise.
DestructorResolves ==
    destroying ~> \A task \in Tasks : result[task] # "pending"
=============================================================================
