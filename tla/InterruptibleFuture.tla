------------------------- MODULE InterruptibleFuture -------------------------
(***************************************************************************)
(* InterruptibleState, the state shared by an InterruptiblePromise and its *)
(* futures: setters race to satisfy the promise, while the users of the    *)
(* futures wait, get the result, attach a continuation or destroy their    *)
(* future, the last of which may abort the producer.                       *)
(*                                                                         *)
(* The model has one shared state.  A future is used by one thread at a    *)
(* time, the setters share the promise.  One action is one access to an    *)
(* atomic or one critical section of ready_mutex_, callback_mutex_ or      *)
(* continuation_callback_mutex_.  ready_conditional_variable_ is used as   *)
(* module ConditionVariable has it.  The promise's value is abstracted to  *)
(* who set it.  The continuations are in one scope, which may expire.      *)
(***************************************************************************)
EXTENDS Naturals, FiniteSets, Sequences

CONSTANTS
    Setters,   \* threads that call SetValue, SetError or the destructor
    Futures,   \* future objects, each with a continuation of its own
    Broken     \* the error kPromiseBroken

ASSUME SetterAssumption == Broken \notin Setters
ASSUME FuturesAssumption == IsFiniteSet(Futures)

VARIABLES
    shared,             \* whether they are InterruptibleSharedFutures
    expired,            \* expired_ of the scope that the continuations are in
    promise,            \* life of the promise
    future_retrieved,   \* future_retrieved_
    value_set,          \* value_set_
    value,              \* value_: who set it, "unset", or "moved" from
    ready,              \* ready_
    on_abort,           \* on_abort_, and whether it was attached too late
    reference_count,    \* reference_count_
    triggered,          \* triggered_
    continuations,      \* continuation_callbacks_ still to be called, by their
                        \* futures
    setter_pc,          \* where each setter is
    setting,            \* what it sets
    pc,                 \* where the user of each future is, see Pcs
    succeeded,          \* wait_succeeded
    timed,              \* whether the wait has a deadline
    stop_requested,     \* futures whose stop_token was requested to stop
    outcome,            \* what the last Wait of each future returned
    got,                \* history: what Get returned
    attached,           \* history: futures with a continuation
    seen,               \* history: what their continuation was called with
    aborts              \* history: how often on_abort_ was invoked

scope_vars == <<shared, expired>>
state_vars == <<value_set, value, ready, triggered, continuations>>
setter_vars == <<promise, setter_pc, setting>>
wait_vars == <<succeeded, timed, outcome>>
count_vars == <<future_retrieved, on_abort, reference_count>>
history_vars == <<got, attached, seen, aborts>>
vars == <<scope_vars, state_vars, setter_vars, wait_vars, count_vars,
          history_vars, pc, stop_requested>>

Values == Setters \cup {Broken}
SetterPcs == {"idle", "store", "make_ready", "trigger", "callbacks", "body"}
Pcs == {"none",     \* there is no object
        "idle",     \* a future with the shared state
        "asleep",   \* in the wait of the condition variable
        "woken",
        "check",    \* testing the stop_token after the wait
        "get",      \* in Get, after a successful wait
        "body",     \* in its own continuation, inside Then
        "ready_?",  \* in the destructor of the last future
        "abort",
        "gone"}     \* destroyed, or without a state

Init ==
    /\ shared \in BOOLEAN
    /\ expired = FALSE
    /\ promise = "alive"
    /\ future_retrieved = FALSE
    /\ value_set = FALSE
    /\ value = "unset"
    /\ ready = FALSE
    /\ on_abort = "none"
    /\ reference_count = 0
    /\ triggered = FALSE
    /\ continuations = {}
    /\ setter_pc = [s \in Setters |-> "idle"]
    /\ setting = [s \in Setters |-> s]
    /\ pc = [f \in Futures |-> "none"]
    /\ succeeded = [f \in Futures |-> FALSE]
    /\ timed = [f \in Futures |-> FALSE]
    /\ stop_requested = {}
    /\ outcome = [f \in Futures |-> "none"]
    /\ got = [f \in Futures |-> "none"]
    /\ attached = {}
    /\ seen = [f \in Futures |-> <<>>]
    /\ aborts = 0

SetterGoto(s, label) == setter_pc' = [setter_pc EXCEPT ![s] = label]
Goto(f, label) == pc' = [pc EXCEPT ![f] = label]
See(f) == seen' = [seen EXCEPT ![f] = @ \o <<value>>]

-----------------------------------------------------------------------------
(* The scope of the continuations                                          *)

InScope ==
    \/ \E s \in Setters : setter_pc[s] = "body"
    \/ \E f \in Futures : pc[f] = "body"

\* A function that is called holds the scope's mutex in shared mode.
InvokeIfNotExpired(f) == ~expired /\ See(f)

\* Mutant: nobody waits for the functions that are running.
Expire_unlocked ==
    /\ ~expired
    /\ expired' = TRUE
    /\ UNCHANGED <<shared, state_vars, setter_vars, wait_vars, count_vars,
                   history_vars, pc, stop_requested>>

\* Expire, or the destructor of the scope, locks it exclusively.
Expire ==
    /\ ~expired
    /\ ~InScope
    /\ expired' = TRUE
    /\ UNCHANGED <<shared, state_vars, setter_vars, wait_vars, count_vars,
                   history_vars, pc, stop_requested>>

-----------------------------------------------------------------------------
(* The promise                                                             *)

\* The exchange; whoever finds the value set returns false.
TestAndMarkValueAsSet(s, v) ==
    /\ ~value_set
    /\ value_set' = TRUE
    /\ SetterGoto(s, "store")
    /\ setting' = [setting EXCEPT ![s] = v]

set_value(s) ==
    /\ promise = "alive"
    /\ setter_pc[s] = "idle"
    /\ TestAndMarkValueAsSet(s, s)
    /\ UNCHANGED <<scope_vars, value, ready, triggered, continuations, promise,
                   wait_vars, count_vars, history_vars, pc,
                   stop_requested>>

\* The destructor, when no setter is inside: it sets kPromiseBroken.
destroy_promise(s) ==
    /\ promise = "alive"
    /\ \A t \in Setters : setter_pc[t] = "idle"
    /\ promise' = "destroyed"
    /\ \/ TestAndMarkValueAsSet(s, Broken)
       \/ value_set /\ UNCHANGED <<value_set, setter_pc, setting>>
    /\ UNCHANGED <<scope_vars, value, ready, triggered, continuations,
                   wait_vars, count_vars, history_vars, pc, stop_requested>>

\* Mutant: ready_ becomes true before the value is stored.
store_late(s) ==
    /\ setter_pc[s] = "store"
    /\ \/ /\ ~ready
          /\ ready' = TRUE
          /\ UNCHANGED <<value, setter_pc>>
       \/ /\ ready
          /\ value' = setting[s]
          /\ SetterGoto(s, "make_ready")
          /\ UNCHANGED ready
    /\ UNCHANGED <<scope_vars, value_set, triggered, continuations, promise,
                   setting, wait_vars, count_vars, history_vars, pc,
                   stop_requested>>

store(s) ==
    /\ setter_pc[s] = "store"
    /\ value' = setting[s]
    /\ SetterGoto(s, "make_ready")
    /\ UNCHANGED <<scope_vars, value_set, ready, triggered, continuations,
                   promise, setting, wait_vars, count_vars,
                   history_vars, pc, stop_requested>>

\* Under ready_mutex_: ready_ and notify_all.
MakeReady(s) ==
    /\ setter_pc[s] = "make_ready"
    /\ ready' = TRUE
    /\ pc' = [f \in Futures |-> IF pc[f] = "asleep" THEN "woken" ELSE pc[f]]
    /\ SetterGoto(s, "trigger")
    /\ UNCHANGED <<scope_vars, value_set, value, triggered, continuations,
                   promise, setting, wait_vars, count_vars,
                   history_vars, stop_requested>>

\* Mutant: triggered_ stays false.
TriggerContinuations_unmarked(s) ==
    /\ setter_pc[s] = "trigger"
    /\ SetterGoto(s, "callbacks")
    /\ UNCHANGED <<scope_vars, state_vars, promise, setting,
                   wait_vars, count_vars, history_vars, pc, stop_requested>>

\* triggered_ is set under the mutex ...
TriggerContinuations(s) ==
    /\ setter_pc[s] = "trigger"
    /\ triggered' = TRUE
    /\ SetterGoto(s, "callbacks")
    /\ UNCHANGED <<scope_vars, value_set, value, ready, continuations, promise,
                   setting, wait_vars, count_vars, history_vars, pc,
                   stop_requested>>

\* ... and the callbacks are run without it.
run_continuation(s, f) ==
    /\ setter_pc[s] = "callbacks"
    /\ f \in continuations
    /\ continuations' = continuations \ {f}
    /\ \/ InvokeIfNotExpired(f) /\ SetterGoto(s, "body")
       \/ expired /\ UNCHANGED <<seen, setter_pc>>
    /\ UNCHANGED <<scope_vars, value_set, value, ready, triggered, promise,
                   setting, wait_vars, count_vars, got, attached, aborts, pc,
                   stop_requested>>

continuation_returns(s) ==
    /\ setter_pc[s] = "body"
    /\ SetterGoto(s, "callbacks")
    /\ UNCHANGED <<scope_vars, state_vars, promise, setting, wait_vars,
                   count_vars, history_vars, pc, stop_requested>>

set_value_returns(s) ==
    /\ setter_pc[s] = "callbacks"
    /\ continuations = {}
    /\ SetterGoto(s, "idle")
    /\ UNCHANGED <<scope_vars, state_vars, promise, setting,
                   wait_vars, count_vars, history_vars, pc, stop_requested>>

OnAbort ==
    /\ promise = "alive"
    /\ on_abort = "none"
    /\ on_abort' = IF future_retrieved /\ reference_count = 0
                     THEN "late" ELSE "attached"
    /\ UNCHANGED <<scope_vars, state_vars, setter_vars, wait_vars,
                   future_retrieved, reference_count, history_vars, pc,
                   stop_requested>>

-----------------------------------------------------------------------------
(* The futures                                                             *)

GetInterruptibleFuture(f) ==
    /\ promise = "alive"
    /\ ~future_retrieved
    /\ pc[f] = "none"
    /\ future_retrieved' = TRUE
    /\ reference_count' = reference_count + 1
    /\ Goto(f, "idle")
    /\ UNCHANGED <<scope_vars, state_vars, setter_vars, wait_vars, on_abort,
                   history_vars, stop_requested>>

\* Mutant: a copy is not counted.
copy_future_unregistered(f, other) ==
    /\ shared
    /\ pc[f] = "none" /\ pc[other] = "idle"
    /\ Goto(f, "idle")
    /\ UNCHANGED <<scope_vars, state_vars, setter_vars, wait_vars, count_vars,
                   history_vars, stop_requested>>

copy_future(f, other) ==
    /\ shared
    /\ pc[f] = "none" /\ pc[other] = "idle"
    /\ reference_count' = reference_count + 1
    /\ Goto(f, "idle")
    /\ UNCHANGED <<scope_vars, state_vars, setter_vars, wait_vars,
                   future_retrieved, on_abort, history_vars, stop_requested>>

\* Wait, WaitFor or WaitUntil: the state is ready, or the thread sleeps, or a
\* stop requested before ends the wait at once.
Wait(f, has_deadline) ==
    /\ pc[f] = "idle"
    /\ timed' = [timed EXCEPT ![f] = has_deadline]
    /\ succeeded' = [succeeded EXCEPT ![f] = FALSE]
    /\ \/ /\ ready
          /\ outcome' = [outcome EXCEPT ![f] = "ok"]
          /\ Goto(f, "get")
       \/ /\ ~ready
          /\ outcome' = [outcome EXCEPT ![f] = "none"]
          /\ Goto(f, IF f \in stop_requested THEN "check" ELSE "asleep")
    /\ UNCHANGED <<scope_vars, state_vars, setter_vars, count_vars,
                   history_vars, stop_requested>>

\* Spuriously, or because of the deadline.
wake_unnotified(f) ==
    /\ pc[f] = "asleep"
    /\ Goto(f, "woken")
    /\ UNCHANGED <<scope_vars, state_vars, setter_vars, wait_vars, count_vars,
                   history_vars, stop_requested>>

\* The wait_strategy: it goes on, or returns the value of ready_.
wait_strategy(f) ==
    /\ pc[f] = "woken"
    /\ \/ /\ ready \/ f \in stop_requested \/ timed[f]
          /\ succeeded' = [succeeded EXCEPT ![f] = ready]
          /\ Goto(f, "check")
       \/ /\ ~ready /\ f \notin stop_requested
          /\ Goto(f, "asleep")
          /\ UNCHANGED succeeded
    /\ UNCHANGED <<scope_vars, state_vars, setter_vars, timed, outcome,
                   count_vars, history_vars, stop_requested>>

\* Mutant: whether the wait was successful is not looked at.
WaitOutcome_optimistic(f) ==
    IF f \in stop_requested THEN "kStopRequested" ELSE "ok"

WaitOutcome(f) ==
    CASE f \in stop_requested -> "kStopRequested"
      [] f \notin stop_requested /\ ~succeeded[f] -> "kTimeout"
      [] OTHER -> "ok"

\* After the wait: a stop requested meanwhile goes first.
WaitByStrategy(f) ==
    /\ pc[f] = "check"
    /\ outcome' = [outcome EXCEPT ![f] = WaitOutcome(f)]
    /\ Goto(f, IF WaitOutcome(f) = "ok" THEN "get" ELSE "idle")
    /\ UNCHANGED <<scope_vars, state_vars, setter_vars, succeeded, timed,
                   count_vars, history_vars, stop_requested>>

\* The caller was Wait, which returns.
Wait_returns(f) ==
    /\ pc[f] = "get"
    /\ Goto(f, "idle")
    /\ UNCHANGED <<scope_vars, state_vars, setter_vars, wait_vars, count_vars,
                   history_vars, stop_requested>>

\* The caller was Get.  A shared future shows the value; the other one moves
\* it out of the shared state, which it gives up.
Get(f) ==
    /\ pc[f] = "get"
    /\ got' = [got EXCEPT ![f] = value]
    /\ \/ /\ shared
          /\ Goto(f, "idle")
          /\ UNCHANGED value
       \/ /\ ~shared
          /\ value' = "moved"
          /\ Goto(f, "gone")
    /\ UNCHANGED <<scope_vars, value_set, ready, triggered, continuations,
                   setter_vars, wait_vars, count_vars, attached, seen, aborts,
                   stop_requested>>

\* Then: the continuation counts as a future of its own.  It is stored, or run
\* at once if the others have been triggered.
AddContinuationCallback(f) ==
    /\ pc[f] = "idle"
    /\ f \notin attached
    /\ attached' = attached \cup {f}
    /\ reference_count' = reference_count + 1
    /\ \/ /\ triggered
          /\ \/ InvokeIfNotExpired(f) /\ Goto(f, "body")
             \/ expired /\ UNCHANGED <<seen, pc>>
          /\ UNCHANGED continuations
       \/ /\ ~triggered
          /\ continuations' = continuations \cup {f}
          /\ UNCHANGED <<seen, pc>>
    /\ UNCHANGED <<scope_vars, value_set, value, ready, triggered, setter_vars,
                   wait_vars, future_retrieved, on_abort, got, aborts,
                   stop_requested>>

Then_returns(f) ==
    /\ pc[f] = "body"
    /\ Goto(f, "idle")
    /\ UNCHANGED <<scope_vars, state_vars, setter_vars, wait_vars, count_vars,
                   history_vars, stop_requested>>

\* The destructor: the last future to go tests ready_ without a mutex ...
UnregisterFuture(f) ==
    /\ pc[f] = "idle"
    /\ reference_count' = reference_count - 1
    /\ Goto(f, IF reference_count = 1 THEN "ready_?" ELSE "gone")
    /\ UNCHANGED <<scope_vars, state_vars, setter_vars, wait_vars,
                   future_retrieved, on_abort, history_vars, stop_requested>>

test_ready(f) ==
    /\ pc[f] = "ready_?"
    /\ Goto(f, IF ready THEN "gone" ELSE "abort")
    /\ UNCHANGED <<scope_vars, state_vars, setter_vars, wait_vars, count_vars,
                   history_vars, stop_requested>>

\* ... and invokes on_abort_ with callback_mutex_ locked.
invoke_on_abort(f) ==
    /\ pc[f] = "abort"
    /\ aborts' = IF on_abort = "none" THEN aborts ELSE aborts + 1
    /\ Goto(f, "gone")
    /\ UNCHANGED <<scope_vars, state_vars, setter_vars, wait_vars, count_vars,
                   got, attached, seen, stop_requested>>

\* The stop wakes the waiter, see ConditionVariable.
request_stop(f) ==
    /\ f \notin stop_requested
    /\ stop_requested' = stop_requested \cup {f}
    /\ pc' = IF pc[f] = "asleep" THEN [pc EXCEPT ![f] = "woken"] ELSE pc
    /\ UNCHANGED <<scope_vars, state_vars, setter_vars, wait_vars, count_vars,
                   history_vars>>

-----------------------------------------------------------------------------
\* The steps inside SetValue, SetError or the destructor of the promise.
Set(s) ==
    \/ store(s) \/ MakeReady(s) \/ TriggerContinuations(s)
    \/ \E f \in Futures : run_continuation(s, f)
    \/ continuation_returns(s) \/ set_value_returns(s)

\* The steps inside a function of the future.
Proceed(f) ==
    \/ wait_strategy(f) \/ WaitByStrategy(f) \/ Get(f) \/ Wait_returns(f)
    \/ Then_returns(f) \/ test_ready(f) \/ invoke_on_abort(f)

Next ==
    \/ \E s \in Setters : set_value(s) \/ destroy_promise(s) \/ Set(s)
    \/ OnAbort \/ Expire
    \/ \E f \in Futures :
          \/ GetInterruptibleFuture(f)
          \/ \E other \in Futures : copy_future(f, other)
          \/ \E has_deadline \in BOOLEAN : Wait(f, has_deadline)
          \/ wake_unnotified(f)
          \/ Proceed(f)
          \/ AddContinuationCallback(f)
          \/ UnregisterFuture(f)
          \/ request_stop(f)

Spec == Init /\ [][Next]_vars

-----------------------------------------------------------------------------
\* Every variable has its type; in particular reference_count_ never drops below
\* zero, where UnregisterFuture terminates the program.
TypeOK ==
    /\ shared \in BOOLEAN /\ expired \in BOOLEAN
    /\ promise \in {"alive", "destroyed"}
    /\ future_retrieved \in BOOLEAN
    /\ value_set \in BOOLEAN
    /\ value \in Values \cup {"unset", "moved"}
    /\ ready \in BOOLEAN
    /\ on_abort \in {"none", "attached", "late"}
    /\ reference_count \in 0 .. 2 * Cardinality(Futures)
    /\ triggered \in BOOLEAN
    /\ continuations \subseteq Futures
    /\ setter_pc \in [Setters -> SetterPcs]
    /\ setting \in [Setters -> Values]
    /\ pc \in [Futures -> Pcs]
    /\ succeeded \in [Futures -> BOOLEAN]
    /\ timed \in [Futures -> BOOLEAN]
    /\ stop_requested \subseteq Futures
    /\ outcome \in [Futures -> {"none", "ok", "kStopRequested", "kTimeout"}]
    /\ aborts \in 0 .. Cardinality(Futures)

\* The value does not change once ready_ is true, which readers test without a
\* mutex, except that the Get of a future that is not shared moves it out.
ValueStable ==
    [][ready => value' \in {value, "moved"}]_vars

\* A wait never sleeps through the result or a stop, an outcome means what it says, and
\* Get returns what a setter has stored, never an unset or moved-from value.
OutcomeSound ==
    \A f \in Futures :
        /\ pc[f] = "asleep" => ~ready /\ f \notin stop_requested
        /\ outcome[f] = "ok" => ready
        /\ outcome[f] = "kStopRequested" => f \in stop_requested
        /\ outcome[f] = "kTimeout" => timed[f]
        /\ got[f] \in Values \cup {"none"}

\* A continuation is invoked exactly once: never twice, and not left behind
\* when SetValue has returned, whichever of Then and SetValue comes first,
\* unless its scope expired.
ContinuationOnce ==
    /\ \A f \in Futures : Len(seen[f]) <= 1
    /\ value_set /\ (\A s \in Setters : setter_pc[s] = "idle") =>
          \A f \in attached : Len(seen[f]) = 1 \/ expired

\* All futures were destroyed without a result.
Abandoned ==
    /\ future_retrieved /\ ~value_set
    /\ attached = {}
    /\ \A f \in Futures : pc[f] \in {"none", "gone"}

\* on_abort_ is invoked once and only when the last future has gone without a
\* continuation (base_interruptible_state.h:149-169); and a producer that
\* attached its callback while there were futures is told when none is left.
AbortExact ==
    /\ aborts > 0 =>
          /\ aborts = 1
          /\ attached = {}
          /\ \A f \in Futures : pc[f] \in {"none", "gone"}
    /\ Abandoned /\ on_abort = "attached" => aborts = 1

\* When Expire has returned no continuation is running and none will run,
\* although TriggerContinuations calls them without a mutex of the state: what
\* they use may be destroyed with the scope.
ScopeRespected ==
    expired => ~InScope
=============================================================================
