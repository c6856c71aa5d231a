-------------------------- MODULE ConditionVariable --------------------------
(***************************************************************************)
(* InterruptibleConditionalVariableBasic: threads wait, with a predicate,  *)
(* with a deadline or with both, on a condition variable whose waits end   *)
(* when a stop is requested.                                               *)
(*                                                                         *)
(* Two mutexes are involved: the user's lock, which wait() releases while  *)
(* it sleeps, and internal_mutex_.  The order in which a waiter takes and  *)
(* releases them is what this module is about, so every acquisition is a   *)
(* step of its own.  The stop-state is the one of module StopState, cut    *)
(* down to what that module establishes: a callback is run once, in the    *)
(* constructor if the stop was requested before, and its destructor waits  *)
(* while another thread runs it.                                           *)
(*                                                                         *)
(* The predicate is "there are items"; producers add one and notify, and a *)
(* waiter that finds one after its wait takes it.                          *)
(***************************************************************************)
EXTENDS Naturals, FiniteSets

CONSTANTS
    Waiters, Producers,
    Stopper,    \* the thread that requests the stop
    NoThread,
    MaxItems    \* bound: items waiting at a time

ASSUME ThreadsAssumption ==
    /\ Waiters \cap Producers = {}
    /\ Stopper \notin Waiters \cup Producers
    /\ NoThread \notin Waiters \cup Producers \cup {Stopper}
    /\ IsFiniteSet(Waiters) /\ IsFiniteSet(Producers)
ASSUME MaxItemsAssumption == MaxItems \in Nat

VARIABLES
    pc,              \* where each waiter is, see Pcs
    kind,            \* the function it called
    expired,         \* Clock::now() >= abs_time, for its deadline
    result,          \* what it returned, or is about to
    user_lock,       \* the owner of the user's lock
    internal_mutex,  \* the owner of internal_mutex_
    items,           \* the user's data
    notifying,       \* producers that have still to notify
    stop_requested,
    registered,      \* waiters whose stop_callback is linked
    executing,       \* the one whose callback the stopper runs
    stop_pc,         \* where the stopper is
    entry_counter,   \* entry_counter_
    object           \* life of the condition variable

vars == <<pc, kind, expired, result, user_lock, internal_mutex, items,
          notifying, stop_requested, registered, executing, stop_pc,
          entry_counter, object>>

Kinds == {"wait", "wait_until", "wait_until_pred"}
HasPredicate(w) == kind[w] # "wait_until"
HasDeadline(w) == kind[w] # "wait"

Pcs == {"idle",        \* in user code, without the lock
        "construct",   \* constructing the stop_callback
        "inline",      \* in the callback, run by its constructor
        "test",        \* evaluating stop_waiting()
        "lock",        \* locking internal_mutex_
        "unlock",      \* holds both locks, the user's is to be released
        "sleep",       \* holds internal_mutex_, about to sleep
        "asleep",      \* in internal_condition_variable_.wait
        "woken",       \* notified, locking internal_mutex_
        "unwind",      \* leaving the scope that holds internal_mutex_
        "relock",      \* ~UnlockGuard, locking the user's lock
        "deregister",  \* ~stop_callback
        "exit",        \* ~DestructionGuard
        "returned"}    \* in user code, with the lock

Init ==
    /\ pc = [w \in Waiters |-> "idle"]
    /\ kind = [w \in Waiters |-> "wait"]
    /\ expired = [w \in Waiters |-> FALSE]
    /\ result = [w \in Waiters |-> FALSE]
    /\ user_lock = NoThread
    /\ internal_mutex = NoThread
    /\ items = 0
    /\ notifying = {}
    /\ stop_requested = FALSE
    /\ registered = {}
    /\ executing = NoThread
    /\ stop_pc = "idle"
    /\ entry_counter = 0
    /\ object = "alive"

Goto(w, label) == pc' = [pc EXCEPT ![w] = label]

stop_waiting == items > 0

\* w's function returns r once its local objects are destroyed.
Return(w, r) ==
    /\ result' = [result EXCEPT ![w] = r]
    /\ Goto(w, "deregister")

-----------------------------------------------------------------------------
(* The waiting functions                                                   *)

\* The entry is counted, and a stop requested before ends the wait here.
enter(w) ==
    /\ entry_counter' = entry_counter + 1
    /\ IF stop_requested
         THEN /\ result' = [result EXCEPT ![w] = HasPredicate(w)' /\ stop_waiting]
              /\ Goto(w, "exit")
         ELSE Goto(w, "construct") /\ UNCHANGED result

\* The deadline has passed before the wait.
too_late(w) ==
    /\ result' = [result EXCEPT ![w] = HasPredicate(w)' => stop_waiting]
    /\ Goto(w, "returned")
    /\ UNCHANGED entry_counter

\* w locks the user's lock and calls one of the waiting functions.  Whoever
\* waits without a predicate looks for items first.
call(w, k, late) ==
    /\ object = "alive"
    /\ pc[w] = "idle"
    /\ user_lock = NoThread
    /\ k = "wait" => ~late
    /\ k = "wait_until" => ~stop_waiting
    /\ user_lock' = w
    /\ kind' = [kind EXCEPT ![w] = k]
    /\ expired' = [expired EXCEPT ![w] = late]
    /\ IF late THEN too_late(w) ELSE enter(w)
    /\ UNCHANGED <<internal_mutex, items, notifying, stop_requested,
                   registered, executing, stop_pc, object>>

\* Without a predicate there is no loop: wait_until_impl is called at once.
Loop(w) == IF HasPredicate(w) THEN "test" ELSE "lock"

construct_callback(w) ==
    /\ pc[w] = "construct"
    /\ IF stop_requested
         THEN Goto(w, "inline") /\ UNCHANGED registered
         ELSE Goto(w, Loop(w)) /\ registered' = registered \cup {w}
    /\ UNCHANGED <<kind, expired, result, user_lock, internal_mutex, items,
                   notifying, stop_requested, executing, stop_pc,
                   entry_counter, object>>

Awaken(sleepers) ==
    [w \in Waiters |-> IF w \in sleepers THEN "woken" ELSE pc[w]]

Asleep == {w \in Waiters : pc[w] = "asleep"}

\* The constructor itself runs the callback, notify_all().
inline_notify_all(w) ==
    /\ pc[w] = "inline"
    /\ internal_mutex = NoThread
    /\ pc' = [Awaken(Asleep) EXCEPT ![w] = Loop(w)]
    /\ UNCHANGED <<kind, expired, result, user_lock, internal_mutex, items,
                   notifying, stop_requested, registered, executing, stop_pc,
                   entry_counter, object>>

test(w) ==
    /\ pc[w] = "test"
    /\ IF stop_waiting
         THEN Return(w, TRUE)
         ELSE Goto(w, "lock") /\ UNCHANGED result
    /\ UNCHANGED <<kind, expired, user_lock, internal_mutex, items, notifying,
                   stop_requested, registered, executing, stop_pc,
                   entry_counter, object>>

\* With internal_mutex_ locked the stop is tested again.
lock_internal(w) ==
    /\ pc[w] = "lock"
    /\ internal_mutex = NoThread
    /\ IF stop_requested
         THEN Return(w, kind[w] = "wait_until_pred" /\ stop_waiting)
              /\ UNCHANGED internal_mutex
         ELSE Goto(w, "unlock") /\ internal_mutex' = w /\ UNCHANGED result
    /\ UNCHANGED <<kind, expired, user_lock, items, notifying, stop_requested,
                   registered, executing, stop_pc, entry_counter, object>>

unlock_user(w) ==
    /\ pc[w] = "unlock"
    /\ user_lock' = NoThread
    /\ Goto(w, "sleep")
    /\ UNCHANGED <<kind, expired, result, internal_mutex, items, notifying,
                   stop_requested, registered, executing, stop_pc,
                   entry_counter, object>>

\* internal_condition_variable_.wait releases the mutex and sleeps in one step.
sleep(w) ==
    /\ pc[w] = "sleep"
    /\ internal_mutex' = NoThread
    /\ Goto(w, "asleep")
    /\ UNCHANGED <<kind, expired, result, user_lock, items, notifying,
                   stop_requested, registered, executing, stop_pc,
                   entry_counter, object>>

\* A wait on a condition variable may end at any time: spuriously, or because
\* the deadline passed.
wake_unnotified(w) ==
    /\ pc[w] = "asleep"
    /\ Goto(w, "woken")
    /\ UNCHANGED <<kind, expired, result, user_lock, internal_mutex, items,
                   notifying, stop_requested, registered, executing, stop_pc,
                   entry_counter, object>>

\* The wait on the condition variable returns, with internal_mutex_ locked.
\* wait_until_impl returns whether no stop was requested.
wake(w) ==
    /\ pc[w] = "woken"
    /\ internal_mutex = NoThread
    /\ internal_mutex' = w
    /\ Goto(w, "unwind")
    /\ result' = [result EXCEPT ![w] = ~stop_requested]
    /\ UNCHANGED <<kind, expired, user_lock, items, notifying, stop_requested,
                   registered, executing, stop_pc, entry_counter, object>>

\* Mutant: the user's lock is taken before internal_mutex_ is released.
unwind_relocks_first(w) ==
    /\ pc[w] = "unwind"
    /\ user_lock = NoThread
    /\ internal_mutex' = NoThread
    /\ Goto(w, "relock")
    /\ UNCHANGED <<kind, expired, result, user_lock, items, notifying,
                   stop_requested, registered, executing, stop_pc,
                   entry_counter, object>>

\* second_internal_lock is destroyed first, then guard_unlock.
unwind(w) ==
    /\ pc[w] = "unwind"
    /\ internal_mutex' = NoThread
    /\ Goto(w, "relock")
    /\ UNCHANGED <<kind, expired, result, user_lock, items, notifying,
                   stop_requested, registered, executing, stop_pc,
                   entry_counter, object>>

shouldStop(w) == expired[w] \/ stop_requested

\* Mutant: a wait that is over by time or by a stop returns false.
relock_user_forgets(w) ==
    /\ pc[w] = "relock"
    /\ user_lock = NoThread
    /\ user_lock' = w
    /\ CASE kind[w] = "wait_until" -> Return(w, result[w])
         [] kind[w] = "wait_until_pred" /\ shouldStop(w) -> Return(w, FALSE)
         [] OTHER -> Goto(w, "test") /\ UNCHANGED result
    /\ UNCHANGED <<kind, expired, internal_mutex, items, notifying,
                   stop_requested, registered, executing, stop_pc,
                   entry_counter, object>>

\* With the user's lock again, the three functions go on differently.
relock_user(w) ==
    /\ pc[w] = "relock"
    /\ user_lock = NoThread
    /\ user_lock' = w
    /\ CASE kind[w] = "wait_until" -> Return(w, result[w])
         [] kind[w] = "wait_until_pred" /\ shouldStop(w) ->
                Return(w, stop_waiting)
         [] OTHER -> Goto(w, "test") /\ UNCHANGED result
    /\ UNCHANGED <<kind, expired, internal_mutex, items, notifying,
                   stop_requested, registered, executing, stop_pc,
                   entry_counter, object>>

\* Mutant: the destructor of the callback does not wait.
deregister_callback_unsynchronised(w) ==
    /\ pc[w] = "deregister"
    /\ registered' = registered \ {w}
    /\ Goto(w, "exit")
    /\ UNCHANGED <<kind, expired, result, user_lock, internal_mutex, items,
                   notifying, stop_requested, executing, stop_pc,
                   entry_counter, object>>

deregister_callback(w) ==
    /\ pc[w] = "deregister"
    /\ executing # w
    /\ registered' = registered \ {w}
    /\ Goto(w, "exit")
    /\ UNCHANGED <<kind, expired, result, user_lock, internal_mutex, items,
                   notifying, stop_requested, executing, stop_pc,
                   entry_counter, object>>

exit(w) ==
    /\ pc[w] = "exit"
    /\ entry_counter' = entry_counter - 1
    /\ Goto(w, "returned")
    /\ UNCHANGED <<kind, expired, result, user_lock, internal_mutex, items,
                   notifying, stop_requested, registered, executing, stop_pc,
                   object>>

-----------------------------------------------------------------------------
(* The user's threads                                                      *)

\* The waiter takes an item, if there is one, and releases its lock.
leave(w) ==
    /\ pc[w] = "returned"
    /\ items' = IF stop_waiting THEN items - 1 ELSE items
    /\ user_lock' = NoThread
    /\ Goto(w, "idle")
    /\ kind' = [kind EXCEPT ![w] = "wait"]     \* the locals of the call are gone
    /\ expired' = [expired EXCEPT ![w] = FALSE]
    /\ result' = [result EXCEPT ![w] = FALSE]
    /\ UNCHANGED <<internal_mutex, notifying, stop_requested, registered,
                   executing, stop_pc, entry_counter, object>>

\* A producer adds an item; it may keep the lock until it has notified.
produce(p, keep) ==
    /\ object = "alive"
    /\ p \notin notifying
    /\ user_lock = NoThread
    /\ items < MaxItems
    /\ items' = items + 1
    /\ notifying' = notifying \cup {p}
    /\ user_lock' = IF keep THEN p ELSE NoThread
    /\ UNCHANGED <<pc, kind, expired, result, internal_mutex, stop_requested,
                   registered, executing, stop_pc, entry_counter, object>>

Release(thread) == user_lock' = IF user_lock = thread THEN NoThread ELSE user_lock

\* Mutant: notify_one does not lock internal_mutex_.
notify_one_unlocked(p) ==
    /\ p \in notifying
    /\ IF Asleep = {} THEN UNCHANGED pc
                      ELSE \E w \in Asleep : pc' = Awaken({w})
    /\ notifying' = notifying \ {p}
    /\ Release(p)
    /\ UNCHANGED <<kind, expired, result, internal_mutex, items,
                   stop_requested, registered, executing, stop_pc,
                   entry_counter, object>>

notify_one(p) ==
    /\ p \in notifying
    /\ internal_mutex = NoThread
    /\ IF Asleep = {} THEN UNCHANGED pc
                      ELSE \E w \in Asleep : pc' = Awaken({w})
    /\ notifying' = notifying \ {p}
    /\ Release(p)
    /\ UNCHANGED <<kind, expired, result, internal_mutex, items,
                   stop_requested, registered, executing, stop_pc,
                   entry_counter, object>>

time_passes(w) ==
    /\ pc[w] \notin {"idle", "returned"}
    /\ HasDeadline(w)
    /\ ~expired[w]
    /\ expired' = [expired EXCEPT ![w] = TRUE]
    /\ UNCHANGED <<pc, kind, result, user_lock, internal_mutex, items,
                   notifying, stop_requested, registered, executing, stop_pc,
                   entry_counter, object>>

-----------------------------------------------------------------------------
(* The stop request: its callbacks are notify_all().  The caller may hold  *)
(* the user's lock, as ThreadPool::InternalShutdown does.                  *)

request_stop(keep) ==
    /\ stop_pc = "idle"
    /\ keep => user_lock = NoThread
    /\ stop_requested' = TRUE
    /\ stop_pc' = "scan"
    /\ user_lock' = IF keep THEN Stopper ELSE user_lock
    /\ UNCHANGED <<pc, kind, expired, result, internal_mutex, items,
                   notifying, registered, executing, entry_counter, object>>

execute(w) ==
    /\ stop_pc = "scan"
    /\ w \in registered
    /\ registered' = registered \ {w}   \* it is never executed again
    /\ executing' = w
    /\ stop_pc' = "callback"
    /\ UNCHANGED <<pc, kind, expired, result, user_lock, internal_mutex,
                   items, notifying, stop_requested, entry_counter, object>>

notify_all ==
    /\ stop_pc = "callback"
    /\ internal_mutex = NoThread
    /\ pc' = Awaken(Asleep)
    /\ executing' = NoThread
    /\ stop_pc' = "scan"
    /\ UNCHANGED <<kind, expired, result, user_lock, internal_mutex, items,
                   notifying, stop_requested, registered, entry_counter,
                   object>>

request_stop_returns ==
    /\ stop_pc = "scan"
    /\ registered = {}
    /\ stop_pc' = "done"
    /\ Release(Stopper)
    /\ UNCHANGED <<pc, kind, expired, result, internal_mutex, items,
                   notifying, stop_requested, registered, executing,
                   entry_counter, object>>

\* The owner destroys the condition variable: nobody starts to use it from
\* here on, but waits may still be on their way out.
destroy ==
    /\ object = "alive"
    /\ notifying = {}
    /\ object' = "destroying"
    /\ UNCHANGED <<pc, kind, expired, result, user_lock, internal_mutex, items,
                   notifying, stop_requested, registered, executing, stop_pc,
                   entry_counter>>

\* The destructor leaves its loop.
destroyed ==
    /\ object = "destroying"
    /\ entry_counter = 0
    /\ object' = "destroyed"
    /\ UNCHANGED <<pc, kind, expired, result, user_lock, internal_mutex, items,
                   notifying, stop_requested, registered, executing, stop_pc,
                   entry_counter>>

-----------------------------------------------------------------------------
\* The steps of a waiter's own program: from each pc there is one.
Proceed(w) ==
    \/ construct_callback(w) \/ inline_notify_all(w)
    \/ test(w) \/ lock_internal(w) \/ unlock_user(w) \/ sleep(w)
    \/ wake(w) \/ unwind(w) \/ relock_user(w)
    \/ deregister_callback(w) \/ exit(w) \/ leave(w)

Next ==
    \/ \E w \in Waiters :
          \/ \E k \in Kinds, late \in BOOLEAN : call(w, k, late)
          \/ Proceed(w)
          \/ wake_unnotified(w)
          \/ time_passes(w)
          \/ execute(w)
    \/ \E p \in Producers :
          notify_one(p) \/ \E keep \in BOOLEAN : produce(p, keep)
    \/ \E keep \in BOOLEAN : request_stop(keep)
    \/ notify_all \/ request_stop_returns
    \/ destroy \/ destroyed

Spec == Init /\ [][Next]_vars

\* Threads run, time passes and ends a timed sleep, and a waiter that keeps
\* finding a mutex free gets it (hence SF).  Nobody is obliged to call, to
\* produce or to request a stop.
Fairness ==
    /\ \A w \in Waiters :
          /\ SF_vars(Proceed(w))
          /\ WF_vars(time_passes(w))
          /\ WF_vars(wake_unnotified(w) /\ expired[w])
    /\ \A p \in Producers : WF_vars(notify_one(p))
    /\ WF_vars(notify_all \/ request_stop_returns \/ \E w \in Waiters : execute(w))
    /\ WF_vars(destroyed)

FairSpec == Spec /\ Fairness

-----------------------------------------------------------------------------
\* Every variable has its type; in particular entry_counter_ counts the waits
\* that are under way and does not wrap.
TypeOK ==
    /\ pc \in [Waiters -> Pcs]
    /\ kind \in [Waiters -> Kinds]
    /\ expired \in [Waiters -> BOOLEAN]
    /\ result \in [Waiters -> BOOLEAN]
    /\ user_lock \in Waiters \cup Producers \cup {Stopper, NoThread}
    /\ internal_mutex \in Waiters \cup {NoThread}
    /\ items \in 0 .. MaxItems
    /\ notifying \subseteq Producers
    /\ stop_requested \in BOOLEAN
    /\ registered \subseteq Waiters
    /\ executing \in Waiters \cup {NoThread}
    /\ stop_pc \in {"idle", "scan", "callback", "done"}
    /\ entry_counter \in 0 .. Cardinality(Waiters)
    /\ object \in {"alive", "destroying", "destroyed"}

\* Waiters that are going to look at the items before they sleep again.
WillTest ==
    {w \in Waiters : pc[w] \notin {"idle", "lock", "unlock", "sleep", "asleep"}}

\* No wake-up is lost.  While a waiter sleeps, every item is matched by a waiter
\* that is on its way to look at the items or by a producer that has still to
\* notify: notify_one() takes internal_mutex_ so that it cannot fall between the
\* test of the predicate and the sleep (condition_variable.h:124-130, 163-177),
\* and no path of a notified waiter leaves without looking.  And once
\* request_stop() has returned nobody sleeps: whoever slept was woken, and
\* whoever was about to sleep saw the stop.
NoLostWakeUp ==
    Asleep # {} =>
        /\ items <= Cardinality(WillTest) + Cardinality(notifying)
        /\ stop_pc # "done"

\* What the waiting functions promise: they return with the user's lock held;
\* with a predicate, its present value; and false only if a stop was requested
\* or the deadline has passed (condition_variable.h:146, 189, 231).
ResultSound ==
    \A w \in Waiters : pc[w] = "returned" =>
        /\ user_lock = w
        /\ HasPredicate(w) => result[w] = stop_waiting
        /\ ~result[w] =>
              stop_requested \/ (kind[w] = "wait_until_pred" /\ expired[w])

\* When the destructor has returned no thread is inside a waiting function and
\* no stop_callback is running notify_all() on the object
\* (condition_variable.h:107-117).
NoUseAfterDestruction ==
    object = "destroyed" =>
        /\ executing = NoThread
        /\ \A w \in Waiters : pc[w] \in {"idle", "returned"}

\* A stop ends every wait, and so does a deadline.  The stopper may hold the
\* user's lock: no order of the two mutexes and of the wait in ~stop_callback
\* closes a cycle.
WaitEnds ==
    \A w \in Waiters :
        pc[w] # "idle" /\ (stop_requested \/ HasDeadline(w)) ~> pc[w] = "idle"
=============================================================================
