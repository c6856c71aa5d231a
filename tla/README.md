# TLA+ models of baselibs

This directory holds models of those base libraries under `src/score` whose behaviour
depends on interleavings, failures or boundaries: TLA+ modules, the TLC configurations
that check them on small instances, and TLAPS proofs of the most important invariants for
all values of the constants. `PROJECT.json` lists for each definition the source lines it
was translated from, the runs, one mutated definition per property (a plausible bug of the
mapped code that makes the property fail), the hazards that guided the choice of the
properties, and the theorems.

Running it, inside this directory:

    tlc -workers 2 -config StopState.cfg StopState      # any run of PROJECT.json
    tlapm ThreadPoolProofs.tla                          # any *Proofs module

## 1. Inventory

The repository is a collection of libraries. Most of them are value types and
wrappers without state between calls; the behaviour that is hard to test is in
the libraries below, whose state several threads, processes or failures change.

| Part | State | Operations | What is hard | What has to be true |
|---|---|---|---|---|
| stop token: `stop_state`, `stop_callback`, `stop_token` (`language/futurecpp`) | stop flag, list of callbacks with ids, id being executed, waiters | register, deregister, `request_stop`, run a callback | callbacks registered, destroyed and run at the same time, also from inside a callback; the notifier gives up the mutex for each callback | each callback runs once and none is missed; no object dies under its execution; destructors return |
| `stop_source` | count of sources per state | copy, move, swap, assign | chains of assignments | count equals number of sources |
| `InterruptibleConditionalVariable` (`concurrency`) | internal mutex, user lock, wait set, destruction counter | `wait`, `wait_until`, `wait_for`, `notify_*`, destructor | two locks, stop callback that notifies, deadline, destruction while a waiter leaves | no lost wake-up, right result, no use after destruction, every wait can be ended |
| `SynchronizedQueue` with `Notification` | bounded queue, signal flag, two mutexes | `Pop`, `push`, destructor | signal and queue change in separate critical sections | the assertion in `Pop`, FIFO, nothing overlooked |
| `ThreadPool`, `Executor` | queue, active tasks, shutdown flag | `Enqueue`, worker loop, `Shutdown`, destructor | posting races with shutdown, tasks that post | each task in one place, none stranded, shutdown reaches every running task |
| `ConcurrentTimedExecutor`, delayed and periodic tasks | ordered queue, `free_`, `waiting_`, clock | `Enqueue`, `WakeUp`, worker loop, `Abort`, `Shutdown`, destructor | workers sleeping with a task in hand, earlier task arriving, abort during a run | earliest first, no task forgotten or executed twice, all promises resolved |
| `InterruptiblePromise` / `InterruptibleFuture` | value, `ready_`, `value_set_`, `triggered_`, continuations, reference count | set, break, wait, get, `Then`, `OnAbort`, copy, destroy | set against wait, `Then`, `Get` and destruction | stable value, continuation exactly once, abort exactly when abandoned |
| `mw/log` text recorder | slots, ring of full slots, message builder, write position | start record, log, stop record, flush | lock-free allocation; file that takes part of a write; flush by any thread | no slot shared or lost, records whole and in order, no blocking |
| `LongRunningThreadsContainer`, simple/periodic/delayed tasks of the pool | threads, tasks | post, shutdown | as the pool | as the pool |
| safecpp `Scope` and scoped functions | expired flag, running invocations | invoke, `Expire` | expiry while the function runs, or from inside it | no invocation after `Expire` has returned |
| safecpp `safe_math` | none | compare, cast, negate, add, subtract, multiply, divide | widths and signednesses of two operands and a result, wrapping casts | the exact result or an error |
| `mw/log` loggers, wait-free stack, composite recorder | stack of loggers, table of recorders | insert, find, record | two threads insert the same context | one logger per context |
| futurecpp `execution` (thread pool), `latch` | queue and spin mutex per worker, stop tokens, counter | push, pop, steal, abort, count down, wait | a try that fails for the mutex, notification after unlock, draining in the destructor | nothing lost, started or disabled exactly once, destructor returns |
| `os/utils`: abortable reader, inotify | pipe, descriptors, two shared mutexes | read, stop; add, remove, close | a call that blocks with a mutex that `Close` needs | no use of a closed descriptor, `Close` returns |
| `filesystem`: atomic update | temporary and target file, page cache, disk | open, write, close, rename, sync directory | failure, killed process or power failure between the steps | old or new content, never a part |
| `network/sock_async`, interprocess notification | set of sockets, signal in shared memory | add, remove, poll; notify, wait | a call that races with a blocking one | a removal takes effect |
| `os`, `network`, rest of `filesystem` | outside the process | calls of the operating system | errors | errors are reported |
| `json`, `serialization`, `static_reflection`, `flatbuffers`, `containers`, `result`, `hash`, `bitmanipulation`, `string_manipulation`, Rust crates | none between calls | conversions, containers | boundaries | function results |

The parts interact in layers, and so do the modules:

    Executor:  implemented by ThreadPool, TimedExecutor and ExecutionPool

    TimedExecutor   ThreadPool   InterruptibleFuture   SynchronizedQueue   ExecutionPool
          \             |          (with Scope)              /             (with latch and
           +------------+---- ConditionVariable ------------+                spin mutex)
                                     |
                                 StopState

    InotifyInstance (extends AbortableReader)    TextRecorder    AtomicUpdate    SafeMath

An upper module uses the lower part through what the lower module establishes.
A wait of `ThreadPool`, for example, is a wait set from which `notify_one` takes
some member, a stop takes all, and a spurious wake-up may take any: this is what
`ConditionVariable` checks of the code in `condition_variable.h`. ExecutionPool uses
`std::condition_variable_any` and of a stop token only its flag. InotifyInstance
composes the reader with the object that owns it.

## 2. Modules

In all modules one action is one critical section, or one atomic access,
together with the code of the same thread up to the next one. Names follow the
source (without the trailing underscore of members). An operator that is
commented as a mutant (`Work_take_unpopped` and the like) is not used by the
specification; it is the body with a bug that `PROJECT.json` pairs with the
property it must break.

**StopState** (`stop_token.cpp`, `stop_state.hpp`, `stop_callback.hpp`).
`linked`, `callback_id`, `already_started`, `currently_executing` and
`stop_requested` are the members of `stop_state` and of the list elements;
`life`, `destroying`, `inline`, `notify_pc`, `notifier` say where threads are;
`runs` is history. Actions: `register_callback` (links, or runs the callback in
the constructor), `inline_return`, `destroy_callback` and `deregister_callback`
(waits while another thread executes the callback), `request_stop`,
`notify_registered_callbacks` (the scan), `execute_return`, `spurious_wakeup`.
The list order is the order of ids. An address can be reused. A callback body may
construct or destroy any callback, its own included.

**ConditionVariable** (`condition_variable.h`, `destruction_guard.cpp`). Every
acquisition and release of the user's lock and of `internal_mutex_` is a step.
`wait`, `wait_until` with and without predicate (and `wait_for`, which computes
the deadline) share the steps `test`, `lock_internal`, `unlock_user`, `sleep`,
`wake`, `unwind`, `relock_user`, `deregister_callback`, `exit`. The predicate is
"there are items", producers add one and notify. The stopper may hold the user's
lock while it runs `notify_all`.

**SynchronizedQueue** (`synchronized_queue.h`, `notification.h`). One reader
(the class is documented for one), any number of senders that hold the state by
`weak_ptr` (a push finds it while the queue or another push holds it), deadline, stop,
spurious wake-up, destruction of the queue. `accepted` and `popped` are history.

**ThreadPool** (`thread_pool.cpp`, `executor.h`). Workers, clients, and tasks
that post again, shut the pool down, or end only when stopped (`LongTasks`).
After a shutdown `Enqueue` executes in the calling thread, so each thread has a
stack of tasks. The destructor shuts down (`destroy`, `destroy_shutdown`), the
destructors of the threads request their stops once more (`destroy_join`) and wait for
them (`destroy_joined`).

**TimedExecutor** (`timed_executor/*.h`). Time is a counter up to `MaxTime`.
A worker takes the first task of the queue and, if its time has not come, waits
with the task in hand; a notified worker puts it back. `WakeUp` is the selection
in the code: first member of `free_`, else the worker with the next execution
point. Workers are the numbers `1 .. NumWorkers`, which gives `free_` the order
that `std::set` has.

**InterruptibleFuture** (`concurrency/future/*.h`). One shared state, setters
(one may be the destructor of the promise), futures with a continuation each.
`Shared` chooses between `InterruptibleSharedFuture` and `InterruptibleFuture`,
whose `Get` moves the value out of the state; it is chosen in `Init`. The
continuations are scoped functions of one scope: `InvokeIfNotExpired` holds the
scope's mutex shared for as long as the continuation runs, `Expire` takes it alone
(`scope_state.h`, `scope_state.cpp`).

**TextRecorder** (`mw/log/detail/text_recorder/*`, `circular_allocator.h`,
`slot.h`, `verbose_payload.cpp`). From `StartRecord` to the file. Claiming a slot
is a `fetch_add` and a compare-and-exchange; the ring, the message builder and the
writer are behind `context_mutex_`. The file takes any part of what it is
offered, or nothing. Characters are abstract: a header has two, an argument and
a newline have one. Only records of an enabled level are modelled.

**Executor**. An abstract specification: a task is new, pending, running or over. It is
posted once, started once (a repeating one again after each return), and given up
only if it was aborted or, where `MayDrop` allows it, while the executor closes.
Three modules implement it, each with `INSTANCE Executor WITH` an expression for the
state of a task: ThreadPool gives up nothing, TimedExecutor may when it shuts down,
ExecutionPool may in its destructor and also satisfies the fairness part, "what is
pending is started or given up".

**ExecutionPool** (`private/execution/thread_pool.hpp`, `thread_pool_queue.hpp`,
`spin_mutex.hpp`, `latch.hpp`). Workers and queues are numbered, since the code
counts modulo their number. Taking a spin mutex and working under it are two steps,
because `try_to_pop` gives up when the mutex is taken. Tasks may push tasks. The
destructor requests the stops, aborts the queues and counts down the latch in the
order of its loops; a worker that passed the latch empties its own queue.

**AbortableReader** and **InotifyInstance** (`abortable_blocking_reader.cpp`,
`inotify_instance_impl.cpp`). `open` is the set of descriptors that are open, `pipe`
the number of bytes in the pipe of the reader, `sharing` and `holding` who has
the reader's and the instance's mutex shared. `Init` covers every way the
constructor may fail. The kernel decides when events arrive and how many a
`read` returns. An error of the `write` in `SignalStop` other than a full pipe ends the
process and is left out.

**AtomicUpdate** (`file_factory.cpp`, `file_buf.cpp`, `file_utils.cpp`). One action is
one system call; each of them may fail, `unlink` included, whose result the code
ignores. A file has what was written by the user, what is in the stream's buffer, in the
page cache and on the disk; the directory is in the page cache and on the disk. After a
`Close` that failed with the file open the user may go on with the stream, or the
destructor removes the file once more (`destroy_open`); a stream that `AtomicUpdate` does
not hand out (`withheld`) is destroyed, which closes it. `write_back_*` is the kernel,
`kill` ends one process at any step, `crash` is a power failure that leaves what is on
the disk. `failed` and `kept` are history: the updates with an error, and those with a
temporary file that an `unlink` left behind.

**SafeMath** (`safe_math/details/*`, integers). Pure operators over a type
`[signed, half]`. `static_cast` wraps around, so that every cast the code makes has to
be justified by the proof. It has no state and no run; LibraryProofs has theorems about it.

`MC*` modules add the symmetry sets. Modules without an `MC` module are run
directly.

## 3. Runs

States are distinct states; every run takes less than three minutes with two workers.

| Run | Instance | States | What it shows |
|---|---|---|---|
| `stop_state` | 3 threads, 2 callback addresses, 3 ids | 14,059 | `CallbackOutlivesItsExecution`, `NoCallbackMissed`; `DestructorTerminates` under fairness |
| `condition_variable` | 2 waiters, 1 producer, 1 item | 200,352 | `NoLostWakeUp`, `ResultSound`, `NoUseAfterDestruction`; `WaitEnds`: a stop or a passed deadline ends every wait |
| `synchronized_queue` | 2 senders, length 2, 3 pushes each | 47,914 | `SignalMeansItem` (the assertion of `Pop`), `NothingOverlooked`, `ItemEndsWait` |
| `thread_pool` | 2 workers, 2 clients, 3 tasks, one of them long | 47,828 | `ImplementsExecutor`, `NoTaskStranded`, `ShutdownStopsTasks`, `PostedTaskRuns`, `DestructorTerminates` |
| `timed_executor_safety` | 2 workers, 2 delayed and 1 periodic task, time 0..1 | 532,000 | `ImplementsExecutor`, `QueueNotForgotten`, `StopForwarded`, `EarliestFirst` |
| `timed_executor_liveness` | 2 workers, 2 delayed tasks, time 0..1 | 64,744 | `DueTaskRuns`, `DestructorResolves` |
| `timed_executor_wakeup` | as before, one task is long | 64,744 | violation of `DueTaskRuns`, see below |
| `future` | 2 setters, 2 futures, shared or unique, a scope | 711,934 | `OutcomeSound`, `ContinuationOnce`, `AbortExact`, `ScopeRespected`, `ValueStable` |
| `text_recorder` | 2 threads, 2 slots, 3 records, 1 character of payload | 242,757 | `SlotsAccounted`, `OutputInOrder`, `FreeSlotFound`, `CallsReturn` |
| `execution_pool` | 2 workers, 1 client, 3 tasks | 23,192 | `NoLostWakeUp`, `DrainedAlone`, `DestructorTerminates`, `ImplementsExecutor` with its fairness part |
| `inotify` | 2 readers with 2 calls each, 2 events, `Close` and destructor | 58,220 | `DescriptorsStayOpen`, `ClosedForGood`, `CallsReturn` |
| `atomic_update` | 2 updates of one target, 2 writes each, 1 power failure | 1,749,584 | `TargetIntact`, `FailureLeavesNothing`, `SyncedSurvives` |

Every property stands with a comment that says what it means for the code. The
type invariants of StopState, ThreadPool, SynchronizedQueue, ConditionVariable,
TimedExecutor, InterruptibleFuture, ExecutionPool and InotifyInstance, and that of
AtomicUpdate within its inductive invariant, are proved.

Deadlock checking is off in all configurations: programs end (the pool is
destroyed, all pushes are made, a bound is reached). That threads do not wait on
each other for ever is what the liveness properties say.

### Bounds

* Two threads in each role are enough for the races the properties are about:
  one that is between two critical sections and one that acts in the gap. The
  stop-state has three, because a destructor can wait for the notifier while a
  third thread registers.
* `MaxCallbackId` 3 with 2 addresses: an address is reused, so that an id that
  outlives its object would be noticed.
* `MaxLength` 2 and 3 pushes per sender: the queue is empty, partly filled and
  full, and senders meet a full queue.
* Three tasks, two workers: both workers are busy and a task is still queued.
* `MaxTime` 1: tasks that are due now and later, so that an earlier one arrives
  while a worker waits with a later one; a periodic task runs again.
* One producer with one item is the one who acts in the gap; with two waiters a
  notification can go to either.
* Three tasks over two queues: one queue holds two tasks while the other is empty.
* `PipeCapacity` 1: the second signal of `Stop` finds the pipe full. `MaxRead` 1 with
  2 events: an event is left for the other reader, or for the next call.
* One power failure: it hits both updates at any two of their steps, or one of them
  before the other begins, which then meets what the failure left. The theorems are for
  any number.
* `BufferSize` 2 in place of 1024 and 2 slots: the ring wraps around and is full.
  A payload of one character with two arguments offered makes an argument
  overflow the payload, and the newline too. `Limit` 0 means that a flush is not
  cut short after a number of slots.
* `MaxItems`, `MaxPushes`, `MaxRecords`, `MaxArgs`, `MaxCallbackId`, `MaxTime`,
  `MaxCalls`, `MaxEvents`, `Chunks` and `MaxCrashes` bound the environment only. The
  theorems hold for all values of theirs.

### Fairness

A thread that can take a step takes it (weak fairness); a thread that competes
for a mutex which others take and release again and again gets it some day
(strong fairness on the step that acquires it). User code returns, with the
exception of long tasks, which return when stopped. Nothing is assumed of calls
that a user may or may not make, of notifications by others, of a spurious
wake-up, or of the file.

* StopState: WF of the notification loop and of the destructors, SF of the
  returns of callbacks, since the thread may leave its callback to construct and
  destroy others any number of times.
* ConditionVariable: SF of the waiters (they compete for two mutexes), WF of
  notifiers, of the stopper, of time and of the wake-up after the deadline.
* ThreadPool: WF of workers and of a shutdown in progress, SF of the return of a
  task (it may post before it returns).
* TimedExecutor: WF of workers, clock, timed wake-up and destructor.
* SynchronizedQueue: WF of the reader and of a sender in its critical section, SF
  of taking the queue's mutex.
* TextRecorder: WF of a thread inside a call, SF of entering `Flush`.
* ExecutionPool: SF of each worker, of a push in progress and of the destructor,
  all of which compete for spin mutexes. That tasks return is part of it.
* InotifyInstance: WF of readers and of `Close`. A signal need not interrupt `poll`.
  A reader calls a bounded number of times: readers that overlap for ever would
  keep `Stop`, which only tries to lock, from its mutex.
* InterruptibleFuture and AtomicUpdate are checked for safety only.

### Disagreements between documents and code

* `timed_executor_wakeup`. `concurrent_timed_executor.h:207-208` says of `WakeUp`:
  "This way wen ensure that all needed threads are woken up, but only as much as
  necessary." The function notifies `free_.begin()`, and a worker leaves `free_`
  only when it runs again. Two `Enqueue` calls in a row notify the same worker. If
  the callable it takes does not return, the second task is due and a worker
  sleeps, for ever. Without long callables `DueTaskRuns` holds.
Other things met while modelling, without a run of their own:

* `Get` of a future that is not shared moves the value out of the state
  (`interruptible_future.h:127`). The state is ready before the continuations are
  called (`interruptible_state.h:82-92`), so a `Get` between the two leaves a
  moved-from value to a continuation; `future/README.md:49-50` promises "the data or
  the error within the shared state".
* A continuation that expires its own scope waits for itself, since
  `InvokeIfNotExpired` holds the mutex that `Expire` needs.
* The future that `AddContinuationCallback` registers is never unregistered, so that
  after `Then` the abort callback is not invoked any more.
* ExecutionPool: a push to the queue of a busy worker does not wake an idle one; the
  task waits until some worker looks for work. A `disable()` that pushes again could
  leave a task behind, and clients must not push during the destruction.
* AtomicUpdate: a failed write leaves the stream bad but keeps neither `Close` nor the
  destructor from replacing the target with what arrived, and there is no way to
  abandon an update, while `i_file_factory.h:57-58` promises "the newly written
  complete data". If the ignored `unlink` after a failed `AdjustOwnership` fails too, the
  destructor's `Close` renames an empty file to the target although the caller got an
  error. If it is the `unlink` after a failed `sync` or `fsync`, a second `Close` may do
  the same with a file that is not complete. The model has both; `FailureLeavesNothing`
  and `TargetIntact` except them. The model takes names of temporary files to differ.
* Two threads in `AbortableBlockingReader::Stop` race for `stop_write_file_descriptor_`,
  which is read without the mutex. Two readers of one source: the slower one gets
  `EAGAIN`. An event whose name does not fit into the buffer of 160 bytes can never
  be read. The descriptors leak when the making of the reader fails half-way.
* `Multiply` refuses a product that the result type holds but the wider operand type
  does not, as in `Multiply<uint64_t>(uint8_t{200}, uint8_t{200})`; `Readme.md:79-80` of
  safe_math speaks of "the range of the result type" only.
* `wait_until` without predicate returns `cv_status::timeout` whenever no stop was
  requested, also after a notification.
* A periodic task that is aborted during a run whose callable returns true does
  not set its promise before it is dropped (`periodic_task.h:73-84`).
* The destructor of a future does not wait for its continuation
  (`base_interruptible_future.h:125-131`), and a callback attached with `OnAbort`
  after the last future has gone is never invoked
  (`base_interruptible_state.h:175-182`).
* A thread that gives up in `AcquireSlotToWrite` has advanced the shared counter
  once more than it tried slots, so that another thread may skip a free slot.
  `FreeSlotFound` is stated for a thread that is not disturbed.
* The ring of full slots has 1024 places and loses its oldest element when it is
  full; the number of slots is configured freely (`slot_drainer.h:73-75` has a
  TODO). `SizesAssumption` states what the code needs.
* `ThreadPool::InternalShutdown` requests stops with `queue_mutex_` locked: a stop
  callback of a running task that posts to the same pool would lock it again.
* `stop_possible` stays false once the last source has gone, also when a stop had
  been requested (`stop_token.hpp:109-119`).

## 4. Proofs

Components with few theorems share a module for their proofs: StopProofs has those about
StopState and InotifyInstance, LibraryProofs those about SynchronizedQueue, AtomicUpdate and
SafeMath. Such a module extends its components, so the specifications of SynchronizedQueue
and InotifyInstance have names of their own (`QueueSpec`, `InotifySpec`).

**StopState** (in StopProofs): `TypeCorrect`, `CallbackOutlives`, `AtMostOnce`,
`NoneMissed`, `NoLostWakeup`, for any sets of threads and callbacks and any `MaxCallbackId`.
The properties are not inductive. The invariant `IInv` adds: a callback is linked
exactly while it exists with an id of its own, and its number of runs agrees with
`already_started` (`ListInv`); ids in the list are distinct (`UniqueIds`); an object
is in the constructor or destructor of one thread only (`OwnerInv`); while the
notifier is in a callback that was not destroyed meanwhile, that callback is linked
with the id being executed, and after the last scan all linked callbacks have been
started (`NotifyInv`); who waits, waits for the callback being executed by another
thread (`WaitInv`). `NoCallbackMissed` needs the last part of `NotifyInv`, which
needs that nothing is linked once the flag is set; `CallbackOutlives` needs that an
id identifies one linked object.

**ThreadPoolProofs**: `TypeCorrect`, `NoneStranded`, `AllStopped`, `TaskInOnePlace` and
`PoolImplementsExecutor`, for
any number of workers, clients and tasks, in two inductive invariants. `ShutdownInv`:
the flag is set before anyone is stopped (`FlagFirst`), a worker leaves only when the
flag is set and the queue empty, after which `Enqueue` adds nothing
(`NoTaskStranded`), and a task in execution is in `active_` until the stops are
requested and stopped afterwards (`ShownBeforeShutdown`, `ShownOrStopped`).
`PlaceInv`: the places where a task can be exclude each other, what has begun is
somewhere or done, and no stack holds a task twice. The refinement rests on
`PlaceInv`: every action changes the mapped state of one task, by one step of
Executor, or of none. That a task starts only when it was pending and not also
running elsewhere is what the exclusion of places gives.

**ConditionVariableProofs**: `TypeCorrect`, `NoWakeUpIsLost`, `ResultsAreSound`,
`NoUseAfterDestructor`, for any finite sets of waiters and producers and any number of
items. `NoLostWakeUp` speaks of those who are asleep; a waiter that holds the internal
mutex and is about to sleep has to be counted with them (`WakeUpInv`), and there must be
no item when it gets there, which is what holding the user's lock since the test gives
(`LockInv`). That no stop is slept through is `StopInv`: whoever sleeps, or is bound to,
has its `stop_callback` still linked or running, so that the list of callbacks is not yet
done. `ResultInv` carries what a function is going to return over the steps that
deregister the callback. `EntryInv` says that `entry_counter_` is the number of threads
inside, which makes the destruction guard right; a lemma on the cardinality of the
threads that will test (`MoreWillTest`) does the counting.

**InterruptibleFutureProofs**: `TypeCorrect`, `OutcomesAreSound`, `ContinuationsRunOnce`,
`AbortIsExact`, `ScopeIsRespected`, `ValueIsStable`, for any set of values and setters and
any finite set of futures. `SetterInv` says that `value_set_` lets one setter in and how
far it is: nothing is ready while it stores, and the continuations are triggered before it
is done. `ContinuationInv`: a continuation that was attached is stored, was invoked once,
or was skipped by an expired scope, and if one is stored after the trigger, the setter is
still going through the list. `ContinuationOnce` follows for a setter that is done.
`FutureInv` and `WaitInv` say that only the one future that is not shared moves the value
out, and what a waiting thread knows between two steps. `CountInv` relates
`reference_count_` to the futures and the continuations: an equality until the value is
ready, two inequalities afterwards, because a future whose `Get` moved the value out gives
up the state without being counted off. `AbortInv` uses it: the future that finds zero is
the only one, and it finds it once.

**TimedExecutorProofs**: `TypeCorrect`, `OneOwner`, `NoTaskIsForgotten`,
`StopIsForwarded`, `EarliestTaskFirst`, `TimedImplementsExecutor`, for any number of
workers, any tasks and any `MaxTime`. `QueueInv`: the queue is sorted, has no task twice,
and each of its entries has the execution point of a task with an unresolved promise. It
is kept by the lemmas on the two operations of the queue: `TailOfQueue`, and
`InsertedQueue` for `lower_bound` and `insert`, whose heart is that the entries earlier
than a given point are a prefix (`LowerBound`). `HeldInv`: a worker's task is in no
other place, and its promise is unresolved until it is about to be dropped. `SleepInv`:
`free_` and `waiting_` have every worker that sleeps, `waiting_` with the point of the
task it holds. `QueueNotForgotten` is inductive with these: if `WakeUp` leaves everyone
asleep, nobody was free and everyone waits for an earlier point than the new one
(`WakeUpMisses`), and a worker that takes a task takes the earliest. The refinement maps a
task to its place (`Place`); the moves between queue and workers are stutters, `execute`
starts a task or drops it, `callable_returns` is the abstract return, and `destroyed`
drops what is in the queue together, which is allowed because the destructor has shut the
executor down. No fairness is part of it.

**ExecutionPoolProofs**: `TypeCorrect`, `WakeUpsArrive`, `QueuesDrained`,
`PoolImplementsExecutor`, for any number of workers and tasks and any set of
clients. `NoLostWakeUp` is inductive once it is known who has the mutex of a queue
(`MutexInv`): a worker goes to sleep with its mutex and after it looked at the queue and
at `abort_`, and whoever changes either of them afterwards has still to notify.
`DrainedAlone` rests on the latch: its counter is the number of workers that have not
arrived plus one for the destructor (`LatchInv`), so whoever has passed it knows that no
worker is in its loop or in a task and, since only a task or a client pushes
(`PushersInv`), that nobody pushes. `PlaceInv` and `KeptInv` say that a pending task is in
exactly one place of one queue or in the hand of one thread that pushes it, and a running
one in exactly one worker; stealing, popping and draining only move it. With them every
step is a step of Executor for one task or a stutter. `PoolImplementsExecutor` is
`Spec => Abstract!Spec`; the fairness part of `ImplementsExecutor` is left to TLC.

**TextRecorderProofs**: `SlotsAreAccounted`, `RecordsComeOutInOrder`, `FreeSlotIsFound`,
for any number of threads, slots, records and arguments, and any ring with a place for
each slot. `IInv` says of the three kinds of holders (a thread between `TryUse` and
`StopRecord`, a place of the ring, the place `current_slot_` refers to) that each holds a
slot that is in use and that no other holder has (`ThreadsHold`, `RingHolds`,
`CurrentHolds`), and that a slot in use has a holder (`NoSlotLost`). Two things make it
inductive. The popped place is the one before the front of the ring, and held slots are
different, so by counting (`RoomLeft`) a thread that pushes its slot finds the ring
neither full, which would drop the oldest record, nor so full that the push would
overwrite the popped place: this is where `NumSlots <= BufferSize` is needed. And
`SlotDrainer` loads the next slot only after it has released the last one (`ControlInv`).
`FreeSlotFound` needs `SeekInv`: for a thread that claims alone, every slot that has not
been touched since it entered the loop is tried in one of the turns that are left.
`Nearer` is the step of the argument, and giving up one turn earlier would break it.

`RecordsComeOutInOrder` is `OutputInOrder`, proved with `TextInv` on top of `IInv`. There
are offsets into the text that was handed over (`Placed`) such that the span being written
stands at the first, what the file has reaches as far into it as `flushed` says, the rest
of its record follows, and then one after the other the records of the ring, up to the
end. `SpanInv` ties the span to the phase of the message builder, and says that nothing of
a record is left when its slot is released. A push adds an offset, a pop drops one, a
write moves none. `IInv` is needed because the offsets speak of the records where they
are: no thread changes a record that is in the ring or being written. Four lemmas on
sequences (`FoundInLonger`, `FoundAtEnd`, `FoundInParts`, `FoundContinued`) do the
arithmetic; the history `pushed` is one text and not a sequence of texts, so that no
concatenation over a sequence, which would need induction, is involved.

**SynchronizedQueue** (in LibraryProofs): `QueueTypeCorrect`, `AssertionHolds`, `InOrder`,
`NoneOverlooked`, for any number of senders, length and number of pushes. `QueueIInv` says
who is inside a critical section holds the mutex (`MutexHeld`), that a signal, a held
mutex and a reader on its way to the queue all stand for a non-empty queue (`SignalInv`),
and that a reader that waits without a signal overlooks at most the one item of a push
that is about to signal (`UnsignalledInv`), without which the assertion would not be
inductive.

**AtomicUpdate** (in LibraryProofs): `TargetIsIntact`, `FailuresLeaveNothing`,
`SyncedUpdatesSurvive`, for any set of updates, number of writes and number of power
failures. `IInv` says how far the data is at each step of `Close` (`Progress`), that the
target, in the page cache and on the disk, is a file that was renamed, and that the
file of a failed update is gone, and is never renamed, unless an `unlink` failed on it
(`Renamed`), and that later renames have
higher ranks while a synced one is never undone (`Latest`). A power failure takes the page
cache back to the disk, so everything is said of both.

**InotifyInstance** (in StopProofs): `InotifyTypeCorrect`, `NoClosedDescriptorIsUsed`,
`ClosedIsFinal`, for any number of readers, paths, calls and events and every outcome of
the constructor. `InotifyIInv` says that the readers which share the reader's mutex are
exactly those between `lock_shared` and its release, and likewise for the instance's
mutex, so that `Stop`, which closes the pipe only when its `try_lock` succeeds, and
`Close`, which closes the source afterwards and with the instance's mutex, find nobody in
`poll` or `read`. What is closed stays closed: after `Stop` the only descriptor left is
the source, after `Close` there is none.

**SafeMath** (in LibraryProofs): `CmpLessExact`, `CmpEqualExact`, `AddExact`, `SubtractExact`,
`MultiplySound`, `DivideExact`, for integer types of any width: an operation yields the
mathematical result if the result type holds it, and an error otherwise (`Multiply` with
the exception named above). The argument is that no cast that is taken ever
wraps around: lemmas state this for `Cast`, `Abs` and `Negate`, the lowest value of a
signed type being the case on its own in each. The only hypothesis is `Widths`: `int` is
one of the types, none wider than the widest.

The assumptions are the named `ASSUME`s of the component modules: the thread, task
and null values are different, bounds are natural numbers, the sets of threads and
futures that are counted are finite, and an executor has at least one worker.

Only model-checked:

* all liveness properties (fairness and `ENABLED` are out of the prover's reach:
  `WaitEnds`, `DueTaskRuns`, `DestructorResolves`, `CallsReturn` and the others that use
  `~>`), and with them the fairness part of Executor;
* the type invariant of TextRecorder as a whole. That `started` stays within its bound
  rests on a sum over the threads (`Started`), and a fold is an induction over data. The
  proofs carry the types of the variables they are about, without the bound. It is in no
  configuration either and was checked with TLC on the instance of the run.

Every safety property of the runs, invariant or action property, has a theorem.

The inductive invariants of ConditionVariable, InterruptibleFuture, TimedExecutor,
ExecutionPool, TextRecorder and InotifyInstance were checked with TLC on the instances of
their runs before they were proved.

## 5. Not modelled

The list with reasons is in `PROJECT.json` under "components". In short: wrappers of
operating-system calls and pure conversions have no state for a model to explore;
they, with value types and tests, are most of the repository, so that the mapped lines
are a small part of it. Of the modelled parts, the assignment and swap of futures and
promises, scopes that expire with a stop token, `stop_source` counting, log levels,
`try_to_push` of the pool's queue, the floating point and `bool` overloads of safe_math,
`FileFactory::Open` and the other functions of `FileUtils` are left out.

## 6. Plan

Done: the concurrency core in the order of its layers (StopState, ConditionVariable,
ThreadPool, TimedExecutor, InterruptibleFuture with scopes, SynchronizedQueue), the text
recorder, the abstract executor and its three implementations, the inotify instance with
its reader, the atomic update of files, and the integer part of safe_math.

Next, most important first:

1. mw/log: the wait-free stack under `LoggerContainer`, the recursion guard, the
   composite recorder.
2. `network/sock_async` and the interprocess notification: calls that race with a
   blocking one.
3. `stop_source` counting; `LongRunningThreadsContainer`, a fourth executor; simple,
   periodic and delayed tasks of the pool; `try_atomic_add`.
4. The sequential queues (`pmr_ring_buffer`, `containers_rust`) against a sequence, and an
   abstract bounded queue for SynchronizedQueue.
5. Proofs: the fairness part of the executors' refinement, with a prover that has `ENABLED`.
