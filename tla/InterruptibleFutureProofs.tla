---------------------- MODULE InterruptibleFutureProofs ----------------------
(***************************************************************************)
(* Proofs about InterruptibleFuture, for any set of setters and any finite *)
(* set of futures.                                                         *)
(***************************************************************************)
EXTENDS InterruptibleFuture, FiniteSetTheorems, TLAPS

\* The types, without the bounds of the counters.
TypeInv ==
    /\ shared \in BOOLEAN /\ expired \in BOOLEAN
    /\ promise \in {"alive", "destroyed"}
    /\ future_retrieved \in BOOLEAN
    /\ value_set \in BOOLEAN
    /\ value \in Values \cup {"unset", "moved"}
    /\ ready \in BOOLEAN
    /\ on_abort \in {"none", "attached", "late"}
    /\ reference_count \in Nat
    /\ triggered \in BOOLEAN
    /\ continuations \subseteq Futures
    /\ setter_pc \in [Setters -> SetterPcs]
    /\ setting \in [Setters -> Values]
    /\ pc \in [Futures -> Pcs]
    /\ succeeded \in [Futures -> BOOLEAN]
    /\ timed \in [Futures -> BOOLEAN]
    /\ stop_requested \subseteq Futures
    /\ outcome \in [Futures -> {"none", "ok", "kStopRequested", "kTimeout"}]
    /\ DOMAIN got = Futures
    /\ attached \subseteq Futures
    /\ DOMAIN seen = Futures
    /\ aborts \in Nat

\* value_set_ lets one setter in: what it has done follows from where it is.
SetterInv ==
    /\ \A s, t \in Setters :
          setter_pc[s] # "idle" /\ setter_pc[t] # "idle" => s = t
    /\ triggered => ready
    /\ ready => value_set
    /\ ~value_set => \A s \in Setters : setter_pc[s] = "idle"
    /\ \A s \in Setters :
          /\ setter_pc[s] \in {"store", "make_ready"} => ~ready
          /\ setter_pc[s] = "make_ready" => value \in Values
          /\ setter_pc[s] = "trigger" => ready /\ ~triggered
          /\ setter_pc[s] \in {"callbacks", "body"} => triggered
    /\ value_set /\ (\A s \in Setters : setter_pc[s] = "idle") => triggered

\* Futures: the first one is retrieved, only shared ones are copied, and what
\* is moved out of the state is out of everyone's reach.
FutureInv ==
    /\ ~future_retrieved => \A f \in Futures : pc[f] = "none"
    /\ ~shared => \A f, g \in Futures : pc[f] # "none" /\ pc[g] # "none" => f = g
    /\ ready => \/ value \in Values
                \/ /\ future_retrieved /\ ~shared
                   /\ \A f \in Futures : pc[f] \in {"none", "gone"}

\* What a waiting thread knows.
WaitInv ==
    \A f \in Futures :
        /\ pc[f] = "asleep" => ~ready /\ f \notin stop_requested
        /\ pc[f] = "get" => ready
        /\ succeeded[f] => ready
        /\ pc[f] = "check" /\ ~succeeded[f] => f \in stop_requested \/ timed[f]
        /\ outcome[f] = "ok" => ready
        /\ outcome[f] = "kStopRequested" => f \in stop_requested
        /\ outcome[f] = "kTimeout" => timed[f]
        /\ got[f] \in Values \cup {"none"}

\* A continuation is stored, or was invoked, or was skipped by its scope.
ContinuationInv ==
    /\ expired => ~InScope
    /\ continuations \subseteq attached
    /\ \A f \in Futures :
          /\ f \notin attached \/ f \in continuations => seen[f] = <<>>
          /\ f \in attached \ continuations =>
                Len(seen[f]) = 1 \/ (expired /\ seen[f] = <<>>)
    /\ continuations # {} /\ triggered =>
          \E s \in Setters : setter_pc[s] \in {"callbacks", "body"}

Created == {f \in Futures : pc[f] # "none"}
Counted == {f \in Futures : pc[f] \notin {"none", "ready_?", "abort", "gone"}}

\* reference_count_ counts the futures and the continuations, and those
\* futures that gave up the state when they moved the value out of it.
CountInv ==
    /\ Cardinality(Counted) + Cardinality(attached) <= reference_count
    /\ reference_count <= Cardinality(Created) + Cardinality(attached)
    /\ ~ready => reference_count = Cardinality(Counted) + Cardinality(attached)

\* At most one future finds itself the last one, and it does so once.
AbortInv ==
    /\ \A f \in Futures :
          pc[f] \in {"ready_?", "abort"} =>
             /\ reference_count = 0 /\ aborts = 0
             /\ \A g \in Futures : pc[g] \in {"ready_?", "abort"} => f = g
    /\ aborts > 0 =>
          /\ aborts = 1 /\ reference_count = 0
          /\ \A f \in Futures : pc[f] \in {"none", "gone"}
          /\ \E f \in Futures : pc[f] = "gone"
    /\ on_abort = "attached" /\ future_retrieved /\ ~value_set
          /\ reference_count = 0 =>
          aborts = 1 \/ \E f \in Futures : pc[f] \in {"ready_?", "abort"}

\* The inductive invariant.
IInv ==
    /\ TypeInv /\ SetterInv /\ FutureInv /\ WaitInv /\ ContinuationInv
    /\ CountInv /\ AbortInv

-----------------------------------------------------------------------------
\* The sets that are counted are finite.
LEMMA FiniteCounts ==
    ASSUME TypeInv
    PROVE  /\ IsFiniteSet(Counted) /\ Cardinality(Counted) \in Nat
           /\ IsFiniteSet(Created) /\ Cardinality(Created) \in Nat
           /\ IsFiniteSet(attached) /\ Cardinality(attached) \in Nat
<1>1. Counted \subseteq Futures /\ Created \subseteq Futures /\ attached \subseteq Futures
  BY Zenon DEF Counted, Created, TypeInv
<1>2. IsFiniteSet(Counted) /\ IsFiniteSet(Created) /\ IsFiniteSet(attached)
  BY <1>1, FuturesAssumption, FS_Subset, Zenon
<1> QED
  BY <1>2, FS_CardinalityType, Zenon

\* As long as a future has the state, nobody is the last one; when the count is
\* zero there is neither a future nor a continuation.
LEMMA LastFuture ==
    ASSUME TypeInv, CountInv
    PROVE  /\ \A f \in Counted : reference_count > 0
           /\ reference_count = 0 => Counted = {} /\ attached = {}
<1>1. reference_count = 0 => Cardinality(Counted) = 0 /\ Cardinality(attached) = 0
  BY FiniteCounts, SMT DEF TypeInv, CountInv
<1>2. reference_count = 0 => Counted = {} /\ attached = {}
  BY <1>1, FiniteCounts, FS_EmptySet, Zenon
<1> QED
  BY <1>2, SMT DEF TypeInv

\* Nothing has been retrieved or set in the beginning.
LEMMA InitIInv == Init => IInv
<1> SUFFICES ASSUME Init PROVE IInv
  BY Zenon
<1> USE DEF Init
<1>1. TypeInv
  BY Zenon DEF TypeInv, Values, SetterPcs, Pcs
<1>2. Counted = {} /\ Created = {} /\ attached = {}
  BY Zenon DEF Counted, Created
<1>3. CountInv
  BY <1>2, FS_EmptySet, SMT DEF CountInv
<1>4. SetterInv /\ FutureInv /\ WaitInv /\ ContinuationInv /\ AbortInv
  BY SMT DEF SetterInv, FutureInv, WaitInv, ContinuationInv, AbortInv, InScope
<1> QED
  BY <1>1, <1>3, <1>4, Zenon DEF IInv

\* The exchange on value_set_ lets in nobody but the first.
LEMMA set_value_IInv ==
    ASSUME IInv, NEW s \in Setters, set_value(s)
    PROVE  IInv'
<1> USE DEF IInv, set_value, TestAndMarkValueAsSet, SetterGoto, scope_vars,
            state_vars, setter_vars, wait_vars, count_vars, history_vars
<1>1. TypeInv'
  BY Zenon DEF TypeInv, Values, SetterPcs, Pcs
<1>2. SetterInv'
  BY Zenon DEF TypeInv, SetterInv
<1>3. FutureInv'
  BY Zenon DEF FutureInv
<1>4. WaitInv'
  BY Zenon DEF WaitInv
<1>5. ContinuationInv'
  BY SMT DEF ContinuationInv, InScope
<1>6. CountInv'
  <2>1. Counted' = Counted /\ Created' = Created
    BY Zenon DEF TypeInv, Pcs, Counted, Created
  <2> QED
    BY <2>1, Zenon DEF SetterInv, CountInv
<1>7. AbortInv'
  BY Zenon DEF AbortInv
<1> QED
  BY <1>1, <1>2, <1>3, <1>4, <1>5, <1>6, <1>7, Zenon

\* The destructor of the promise sets kPromiseBroken, unless a value was set.
LEMMA destroy_promise_IInv ==
    ASSUME IInv, NEW s \in Setters, destroy_promise(s)
    PROVE  IInv'
<1> USE DEF IInv, destroy_promise, TestAndMarkValueAsSet, SetterGoto,
            scope_vars, state_vars, setter_vars, wait_vars, count_vars,
            history_vars
<1>1. TypeInv'
  <2>1. CASE TestAndMarkValueAsSet(s, Broken)
    BY <2>1, Zenon DEF TypeInv, Values, SetterPcs
  <2>2. CASE UNCHANGED <<value_set, setter_pc, setting>>
    BY <2>2, Zenon DEF TypeInv
  <2> QED
    BY <2>1, <2>2, Zenon
<1>2. SetterInv'
  BY SMT DEF TypeInv, SetterInv
<1>3. FutureInv'
  BY Zenon DEF FutureInv
<1>4. WaitInv'
  BY Zenon DEF WaitInv
<1>5. ContinuationInv'
  BY Zenon DEF TypeInv, ContinuationInv, InScope
<1>6. CountInv'
  <2>1. Counted' = Counted /\ Created' = Created
    BY Zenon DEF TypeInv, Pcs, Counted, Created
  <2> QED
    BY <2>1, Zenon DEF SetterInv, CountInv
<1>7. AbortInv'
  BY SMT DEF AbortInv
<1> QED
  BY <1>1, <1>2, <1>3, <1>4, <1>5, <1>6, <1>7, Zenon

\* The value is stored before ready_ is set.
LEMMA store_IInv ==
    ASSUME IInv, NEW s \in Setters, store(s)
    PROVE  IInv'
<1> USE DEF IInv, store, SetterGoto, scope_vars, state_vars, setter_vars,
            wait_vars, count_vars, history_vars
<1>1. TypeInv'
  BY Zenon DEF TypeInv, SetterPcs
<1>2. SetterInv'
  BY Zenon DEF TypeInv, SetterInv
<1>3. FutureInv'
  BY Zenon DEF TypeInv, FutureInv
<1>4. WaitInv'
  BY Zenon DEF WaitInv
<1>5. ContinuationInv'
  BY SMT DEF ContinuationInv, InScope
<1>6. CountInv'
  <2>1. Counted' = Counted /\ Created' = Created
    BY Zenon DEF TypeInv, Pcs, Counted, Created
  <2> QED
    BY <2>1, Zenon DEF SetterInv, CountInv
<1>7. AbortInv'
  BY Zenon DEF AbortInv
<1> QED
  BY <1>1, <1>2, <1>3, <1>4, <1>5, <1>6, <1>7, Zenon

\* notify_all, under the mutex that guards ready_, leaves nobody asleep.
LEMMA MakeReady_IInv ==
    ASSUME IInv, NEW s \in Setters, MakeReady(s)
    PROVE  IInv'
<1> USE DEF IInv, MakeReady, SetterGoto, scope_vars, state_vars, setter_vars,
            wait_vars, count_vars, history_vars
<1>1. TypeInv'
  BY SMT DEF TypeInv, Values, SetterPcs, Pcs
<1>2. SetterInv'
  BY Zenon DEF TypeInv, SetterInv
<1>3. FutureInv'
  BY Zenon DEF TypeInv, Pcs, SetterInv, FutureInv
<1>4. WaitInv'
  BY Zenon DEF WaitInv
<1>5. ContinuationInv'
  BY SMT DEF ContinuationInv, InScope
<1>6. CountInv'
  <2>1. Counted' = Counted /\ Created' = Created
    BY Zenon DEF TypeInv, Pcs, Counted, Created
  <2> QED
    BY <2>1, Zenon DEF SetterInv, CountInv
<1>7. AbortInv'
  BY Zenon DEF AbortInv
<1> QED
  BY <1>1, <1>2, <1>3, <1>4, <1>5, <1>6, <1>7, Zenon

\* From now on Then runs the continuation itself.
LEMMA TriggerContinuations_IInv ==
    ASSUME IInv, NEW s \in Setters, TriggerContinuations(s)
    PROVE  IInv'
<1> USE DEF IInv, TriggerContinuations, SetterGoto, scope_vars, state_vars,
            setter_vars, wait_vars, count_vars, history_vars
<1>1. TypeInv'
  BY SMT DEF TypeInv, SetterPcs
<1>2. SetterInv'
  BY Zenon DEF TypeInv, SetterInv
<1>3. FutureInv'
  BY Zenon DEF FutureInv
<1>4. WaitInv'
  BY Zenon DEF WaitInv
<1>5. ContinuationInv'
  BY Zenon DEF TypeInv, ContinuationInv, InScope
<1>6. CountInv'
  <2>1. Counted' = Counted /\ Created' = Created
    BY Zenon DEF TypeInv, Pcs, Counted, Created
  <2> QED
    BY <2>1, Zenon DEF SetterInv, CountInv
<1>7. AbortInv'
  BY Zenon DEF AbortInv
<1> QED
  BY <1>1, <1>2, <1>3, <1>4, <1>5, <1>6, <1>7, Zenon

\* A continuation leaves the list when it is invoked or skipped.
LEMMA run_continuation_IInv ==
    ASSUME IInv, NEW s \in Setters, NEW f \in Futures, run_continuation(s, f)
    PROVE  IInv'
<1> USE DEF IInv, run_continuation, SetterGoto, InvokeIfNotExpired, See,
            scope_vars, state_vars, setter_vars, wait_vars, count_vars,
            history_vars
<1>1. TypeInv'
  BY SMT DEF TypeInv, SetterPcs
<1>2. SetterInv'
  BY SMT DEF TypeInv, SetterPcs, SetterInv
<1>3. FutureInv'
  BY Zenon DEF FutureInv
<1>4. WaitInv'
  BY Zenon DEF WaitInv
<1>5. ContinuationInv'
  BY SMT DEF TypeInv, ContinuationInv, InScope
<1>6. CountInv'
  <2>1. Counted' = Counted /\ Created' = Created
    BY Zenon DEF TypeInv, Pcs, Counted, Created
  <2> QED
    BY <2>1, Zenon DEF SetterInv, CountInv
<1>7. AbortInv'
  BY Zenon DEF AbortInv
<1> QED
  BY <1>1, <1>2, <1>3, <1>4, <1>5, <1>6, <1>7, Zenon

\* The setter holds the scope no longer.
LEMMA continuation_returns_IInv ==
    ASSUME IInv, NEW s \in Setters, continuation_returns(s)
    PROVE  IInv'
<1> USE DEF IInv, continuation_returns, SetterGoto, scope_vars, state_vars,
            setter_vars, wait_vars, count_vars, history_vars
<1>1. TypeInv'
  BY SMT DEF TypeInv, SetterPcs
<1>2. SetterInv'
  BY SMT DEF SetterInv
<1>3. FutureInv'
  BY Zenon DEF FutureInv
<1>4. WaitInv'
  BY Zenon DEF WaitInv
<1>5. ContinuationInv'
  BY SMT DEF ContinuationInv, InScope
<1>6. CountInv'
  <2>1. Counted' = Counted /\ Created' = Created
    BY Zenon DEF TypeInv, Pcs, Counted, Created
  <2> QED
    BY <2>1, Zenon DEF SetterInv, CountInv
<1>7. AbortInv'
  BY Zenon DEF AbortInv
<1> QED
  BY <1>1, <1>2, <1>3, <1>4, <1>5, <1>6, <1>7, Zenon

\* The list is empty when SetValue returns.
LEMMA set_value_returns_IInv ==
    ASSUME IInv, NEW s \in Setters, set_value_returns(s)
    PROVE  IInv'
<1> USE DEF IInv, set_value_returns, SetterGoto, scope_vars, state_vars,
            setter_vars, wait_vars, count_vars, history_vars
<1>1. TypeInv'
  BY SMT DEF TypeInv, SetterPcs
<1>2. SetterInv'
  BY SMT DEF SetterInv
<1>3. FutureInv'
  BY Zenon DEF FutureInv
<1>4. WaitInv'
  BY Zenon DEF WaitInv
<1>5. ContinuationInv'
  BY SMT DEF ContinuationInv, InScope
<1>6. CountInv'
  <2>1. Counted' = Counted /\ Created' = Created
    BY Zenon DEF TypeInv, Pcs, Counted, Created
  <2> QED
    BY <2>1, Zenon DEF SetterInv, CountInv
<1>7. AbortInv'
  BY Zenon DEF AbortInv
<1> QED
  BY <1>1, <1>2, <1>3, <1>4, <1>5, <1>6, <1>7, Zenon

\* A callback that is attached when no future is left is not "attached".
LEMMA OnAbort_IInv ==
    ASSUME IInv, OnAbort
    PROVE  IInv'
<1> USE DEF IInv, OnAbort, scope_vars, state_vars, setter_vars, wait_vars,
            count_vars, history_vars
<1>1. TypeInv'
  BY Zenon DEF TypeInv
<1>2. SetterInv'
  BY Zenon DEF SetterInv
<1>3. FutureInv'
  BY Zenon DEF FutureInv
<1>4. WaitInv'
  BY Zenon DEF WaitInv
<1>5. ContinuationInv'
  BY Zenon DEF ContinuationInv, InScope
<1>6. CountInv'
  <2>1. Counted' = Counted /\ Created' = Created
    BY Zenon DEF TypeInv, Pcs, Counted, Created
  <2> QED
    BY <2>1, Zenon DEF SetterInv, CountInv
<1>7. AbortInv'
  BY Zenon DEF AbortInv
<1> QED
  BY <1>1, <1>2, <1>3, <1>4, <1>5, <1>6, <1>7, Zenon

\* Expire waits for the continuations that run.
LEMMA Expire_IInv ==
    ASSUME IInv, Expire
    PROVE  IInv'
<1> USE DEF IInv, Expire, scope_vars, state_vars, setter_vars, wait_vars,
            count_vars, history_vars
<1>1. TypeInv'
  BY SMT DEF TypeInv
<1>2. SetterInv'
  BY Zenon DEF SetterInv
<1>3. FutureInv'
  BY Zenon DEF FutureInv
<1>4. WaitInv'
  BY Zenon DEF WaitInv
<1>5. ContinuationInv'
  BY Zenon DEF ContinuationInv, InScope
<1>6. CountInv'
  <2>1. Counted' = Counted /\ Created' = Created
    BY Zenon DEF TypeInv, Pcs, Counted, Created
  <2> QED
    BY <2>1, Zenon DEF SetterInv, CountInv
<1>7. AbortInv'
  BY Zenon DEF AbortInv
<1> QED
  BY <1>1, <1>2, <1>3, <1>4, <1>5, <1>6, <1>7, Zenon

\* The first future is retrieved once.
LEMMA GetInterruptibleFuture_IInv ==
    ASSUME IInv, NEW f \in Futures, GetInterruptibleFuture(f)
    PROVE  IInv'
<1> USE DEF IInv, GetInterruptibleFuture, Goto, scope_vars, state_vars,
            setter_vars, wait_vars, count_vars, history_vars
<1>1. TypeInv'
  BY SMT DEF TypeInv, Pcs
<1>2. SetterInv'
  BY Zenon DEF SetterInv
<1>3. FutureInv'
  BY SMT DEF FutureInv
<1>4. WaitInv'
  BY SMT DEF WaitInv
<1>5. ContinuationInv'
  BY SMT DEF ContinuationInv, InScope
<1>6. CountInv'
  <2>1. /\ f \notin Counted /\ Counted' = Counted \cup {f}
        /\ f \notin Created /\ Created' = Created \cup {f}
    BY Zenon DEF TypeInv, Pcs, Counted, Created
  <2>2. /\ Cardinality(Counted)' = Cardinality(Counted) + 1
        /\ Cardinality(Created)' = Cardinality(Created) + 1
    BY <2>1, FiniteCounts, FS_AddElement, Zenon
  <2> QED
    BY <2>2, FiniteCounts, SMT DEF TypeInv, CountInv
<1>7. AbortInv'
  BY SMT DEF TypeInv, Pcs, FutureInv, AbortInv
<1> QED
  BY <1>1, <1>2, <1>3, <1>4, <1>5, <1>6, <1>7, Zenon

\* A copy is made of a future that is counted.
LEMMA copy_future_IInv ==
    ASSUME IInv, NEW f \in Futures, NEW other \in Futures, copy_future(f, other)
    PROVE  IInv'
<1> USE DEF IInv, copy_future, Goto, scope_vars, state_vars, setter_vars,
            wait_vars, count_vars, history_vars
<1>1. TypeInv'
  BY SMT DEF TypeInv
<1>2. SetterInv'
  BY Zenon DEF SetterInv
<1>3. FutureInv'
  BY Zenon DEF FutureInv
<1>4. WaitInv'
  BY SMT DEF WaitInv
<1>5. ContinuationInv'
  BY SMT DEF ContinuationInv, InScope
<1>6. CountInv'
  <2>1. /\ f \notin Counted /\ Counted' = Counted \cup {f}
        /\ f \notin Created /\ Created' = Created \cup {f}
    BY Zenon DEF TypeInv, Pcs, Counted, Created
  <2>2. /\ Cardinality(Counted)' = Cardinality(Counted) + 1
        /\ Cardinality(Created)' = Cardinality(Created) + 1
    BY <2>1, FiniteCounts, FS_AddElement, Zenon
  <2> QED
    BY <2>2, FiniteCounts, SMT DEF TypeInv, CountInv
<1>7. AbortInv'
  <2>1. reference_count > 0
    BY LastFuture, Zenon DEF TypeInv, Pcs, Counted
  <2> QED
    BY <2>1, SMT DEF TypeInv, Pcs, AbortInv
<1> QED
  BY <1>1, <1>2, <1>3, <1>4, <1>5, <1>6, <1>7, Zenon

\* Wait looks at ready_ and at the stop before it sleeps.
LEMMA Wait_IInv ==
    ASSUME IInv, NEW f \in Futures, NEW has_deadline \in BOOLEAN, Wait(f, has_deadline)
    PROVE  IInv'
<1> USE DEF IInv, Wait, Goto, scope_vars, state_vars, setter_vars, wait_vars,
            count_vars, history_vars
<1>1. TypeInv'
  BY SMT DEF TypeInv, Pcs
<1>2. SetterInv'
  BY Zenon DEF SetterInv
<1>3. FutureInv'
  BY SMT DEF TypeInv, FutureInv
<1>4. WaitInv'
  BY SMT DEF TypeInv, WaitInv
<1>5. ContinuationInv'
  BY SMT DEF TypeInv, ContinuationInv, InScope
<1>6. CountInv'
  <2>1. Counted' = Counted /\ Created' = Created
    BY SMT DEF TypeInv, Pcs, Counted, Created
  <2> QED
    BY <2>1, Zenon DEF SetterInv, CountInv
<1>7. AbortInv'
  BY SMT DEF TypeInv, AbortInv
<1> QED
  BY <1>1, <1>2, <1>3, <1>4, <1>5, <1>6, <1>7, Zenon

\* A thread that wakes up unnotified knows nothing.
LEMMA wake_unnotified_IInv ==
    ASSUME IInv, NEW f \in Futures, wake_unnotified(f)
    PROVE  IInv'
<1> USE DEF IInv, wake_unnotified, Goto, scope_vars, state_vars, setter_vars,
            wait_vars, count_vars, history_vars
<1>1. TypeInv'
  BY SMT DEF TypeInv, Pcs
<1>2. SetterInv'
  BY Zenon DEF SetterInv
<1>3. FutureInv'
  BY SMT DEF FutureInv
<1>4. WaitInv'
  BY SMT DEF WaitInv
<1>5. ContinuationInv'
  BY SMT DEF ContinuationInv, InScope
<1>6. CountInv'
  <2>1. Counted' = Counted /\ Created' = Created
    BY Zenon DEF TypeInv, Pcs, Counted, Created
  <2> QED
    BY <2>1, Zenon DEF SetterInv, CountInv
<1>7. AbortInv'
  BY SMT DEF AbortInv
<1> QED
  BY <1>1, <1>2, <1>3, <1>4, <1>5, <1>6, <1>7, Zenon

\* The predicate is tested again before the thread sleeps again.
LEMMA wait_strategy_IInv ==
    ASSUME IInv, NEW f \in Futures, wait_strategy(f)
    PROVE  IInv'
<1> USE DEF IInv, wait_strategy, Goto, scope_vars, state_vars, setter_vars,
            wait_vars, count_vars, history_vars
<1>1. TypeInv'
  BY SMT DEF TypeInv, Pcs
<1>2. SetterInv'
  BY Zenon DEF SetterInv
<1>3. FutureInv'
  BY Zenon DEF TypeInv, FutureInv
<1>4. WaitInv'
  BY SMT DEF TypeInv, WaitInv
<1>5. ContinuationInv'
  BY Zenon DEF TypeInv, ContinuationInv, InScope
<1>6. CountInv'
  <2>1. Counted' = Counted /\ Created' = Created
    BY SMT DEF TypeInv, Pcs, Counted, Created
  <2> QED
    BY <2>1, Zenon DEF SetterInv, CountInv
<1>7. AbortInv'
  BY SMT DEF TypeInv, AbortInv
<1> QED
  BY <1>1, <1>2, <1>3, <1>4, <1>5, <1>6, <1>7, Zenon

\* The stop, then the result of the wait, decide about the outcome.
LEMMA WaitByStrategy_IInv ==
    ASSUME IInv, NEW f \in Futures, WaitByStrategy(f)
    PROVE  IInv'
<1> USE DEF IInv, WaitByStrategy, WaitOutcome, Goto, scope_vars, state_vars,
            setter_vars, wait_vars, count_vars, history_vars
<1>1. TypeInv'
  BY SMT DEF TypeInv, Pcs
<1>2. SetterInv'
  BY Zenon DEF SetterInv
<1>3. FutureInv'
  BY SMT DEF FutureInv
<1>4. WaitInv'
  BY SMT DEF WaitInv
<1>5. ContinuationInv'
  BY SMT DEF ContinuationInv, InScope
<1>6. CountInv'
  <2>1. Counted' = Counted /\ Created' = Created
    BY Zenon DEF TypeInv, Pcs, Counted, Created
  <2> QED
    BY <2>1, Zenon DEF SetterInv, CountInv
<1>7. AbortInv'
  BY SMT DEF AbortInv
<1> QED
  BY <1>1, <1>2, <1>3, <1>4, <1>5, <1>6, <1>7, Zenon

\* Wait keeps the future.
LEMMA Wait_returns_IInv ==
    ASSUME IInv, NEW f \in Futures, Wait_returns(f)
    PROVE  IInv'
<1> USE DEF IInv, Wait_returns, Goto, scope_vars, state_vars, setter_vars,
            wait_vars, count_vars, history_vars
<1>1. TypeInv'
  BY SMT DEF TypeInv, Pcs
<1>2. SetterInv'
  BY Zenon DEF SetterInv
<1>3. FutureInv'
  BY SMT DEF FutureInv
<1>4. WaitInv'
  BY SMT DEF WaitInv
<1>5. ContinuationInv'
  BY SMT DEF ContinuationInv, InScope
<1>6. CountInv'
  <2>1. Counted' = Counted /\ Created' = Created
    BY Zenon DEF TypeInv, Pcs, Counted, Created
  <2> QED
    BY <2>1, Zenon DEF SetterInv, CountInv
<1>7. AbortInv'
  BY SMT DEF AbortInv
<1> QED
  BY <1>1, <1>2, <1>3, <1>4, <1>5, <1>6, <1>7, Zenon

\* Get moves the value out of the state only if no other future has it.
LEMMA Get_IInv ==
    ASSUME IInv, NEW f \in Futures, Get(f)
    PROVE  IInv'
<1> USE DEF IInv, Get, Goto, scope_vars, state_vars, setter_vars, wait_vars,
            count_vars, history_vars
<1>1. TypeInv'
  BY Zenon DEF TypeInv, Pcs
<1>2. SetterInv'
  BY Zenon DEF TypeInv, SetterPcs, SetterInv, WaitInv
<1>3. FutureInv'
  BY SMT DEF TypeInv, FutureInv
<1>4. WaitInv'
  BY SMT DEF TypeInv, Pcs, FutureInv, WaitInv
<1>5. ContinuationInv'
  BY Zenon DEF TypeInv, ContinuationInv, InScope
<1>6. CountInv'
  <2>1. ready /\ Created' = Created
    BY SMT DEF TypeInv, Pcs, WaitInv, Created
  <2>2. Counted' = Counted \/ Counted' = Counted \ {f}
    <3>1. CASE shared
      BY <3>1, Zenon DEF TypeInv, Pcs, Counted
    <3>2. CASE ~shared
      BY <3>2, Zenon DEF TypeInv, Pcs, Counted
    <3> QED
      BY <3>1, <3>2, Zenon
  <2>3. Cardinality(Counted)' \in Nat /\ Cardinality(Counted)' <= Cardinality(Counted)
    BY <2>2, FiniteCounts, FS_Subset, FS_CardinalityType, Zenon
  <2> QED
    BY <2>1, <2>3, FiniteCounts, SMT DEF TypeInv, CountInv
<1>7. AbortInv'
  BY SMT DEF TypeInv, AbortInv
<1> QED
  BY <1>1, <1>2, <1>3, <1>4, <1>5, <1>6, <1>7, Zenon

\* Then stores the continuation, or invokes or skips it.
LEMMA AddContinuationCallback_IInv ==
    ASSUME IInv, NEW f \in Futures, AddContinuationCallback(f)
    PROVE  IInv'
<1> USE DEF IInv, AddContinuationCallback, Goto, InvokeIfNotExpired, See,
            scope_vars, state_vars, setter_vars, wait_vars, count_vars,
            history_vars
<1>1. TypeInv'
  BY SMT DEF TypeInv, Pcs
<1>2. SetterInv'
  BY Zenon DEF SetterInv
<1>3. FutureInv'
  BY Zenon DEF TypeInv, FutureInv
<1>4. WaitInv'
  BY SMT DEF TypeInv, WaitInv
<1>5. ContinuationInv'
  BY SMT DEF TypeInv, ContinuationInv, InScope
<1>6. CountInv'
  <2>1. Counted' = Counted /\ Created' = Created
    BY SMT DEF TypeInv, Pcs, Counted, Created
  <2>2. Cardinality(attached)' = Cardinality(attached) + 1
    BY FiniteCounts, FS_AddElement, Zenon
  <2> QED
    BY <2>1, <2>2, FiniteCounts, SMT DEF TypeInv, CountInv
<1>7. AbortInv'
  <2>1. reference_count > 0
    BY LastFuture, Zenon DEF TypeInv, Pcs, Counted
  <2> QED
    BY <2>1, SMT DEF TypeInv, Pcs, AbortInv
<1> QED
  BY <1>1, <1>2, <1>3, <1>4, <1>5, <1>6, <1>7, Zenon

\* The thread holds the scope no longer.
LEMMA Then_returns_IInv ==
    ASSUME IInv, NEW f \in Futures, Then_returns(f)
    PROVE  IInv'
<1> USE DEF IInv, Then_returns, Goto, scope_vars, state_vars, setter_vars,
            wait_vars, count_vars, history_vars
<1>1. TypeInv'
  BY SMT DEF TypeInv, Pcs
<1>2. SetterInv'
  BY Zenon DEF SetterInv
<1>3. FutureInv'
  BY SMT DEF FutureInv
<1>4. WaitInv'
  BY SMT DEF WaitInv
<1>5. ContinuationInv'
  BY Zenon DEF ContinuationInv, InScope
<1>6. CountInv'
  <2>1. Counted' = Counted /\ Created' = Created
    BY Zenon DEF TypeInv, Pcs, Counted, Created
  <2> QED
    BY <2>1, Zenon DEF SetterInv, CountInv
<1>7. AbortInv'
  BY SMT DEF AbortInv
<1> QED
  BY <1>1, <1>2, <1>3, <1>4, <1>5, <1>6, <1>7, Zenon

\* One future finds the count to be one.
LEMMA UnregisterFuture_IInv ==
    ASSUME IInv, NEW f \in Futures, UnregisterFuture(f)
    PROVE  IInv'
<1> USE DEF IInv, UnregisterFuture, Goto, scope_vars, state_vars, setter_vars,
            wait_vars, count_vars, history_vars
<1>1. TypeInv'
  <2>1. reference_count > 0
    BY LastFuture, Zenon DEF TypeInv, Pcs, Counted
  <2> QED
    BY <2>1, SMT DEF TypeInv, Pcs
<1>2. SetterInv'
  BY Zenon DEF SetterInv
<1>3. FutureInv'
  BY SMTT(30) DEF FutureInv
<1>4. WaitInv'
  BY SMT DEF WaitInv
<1>5. ContinuationInv'
  BY SMT DEF ContinuationInv, InScope
<1>6. CountInv'
  <2>1. f \in Counted /\ Counted' = Counted \ {f} /\ Created' = Created
    BY Zenon DEF TypeInv, Pcs, Counted, Created
  <2>2. Cardinality(Counted)' = Cardinality(Counted) - 1
    BY <2>1, FiniteCounts, FS_RemoveElement, Zenon
  <2> QED
    BY <2>1, <2>2, FiniteCounts, SMT DEF TypeInv, CountInv
<1>7. AbortInv'
  <2>1. reference_count > 0
    BY LastFuture, Zenon DEF TypeInv, Pcs, Counted
  <2> QED
    BY <2>1, SMT DEF TypeInv, Pcs, AbortInv
<1> QED
  BY <1>1, <1>2, <1>3, <1>4, <1>5, <1>6, <1>7, Zenon

\* A result that is there makes the abort unnecessary.
LEMMA test_ready_IInv ==
    ASSUME IInv, NEW f \in Futures, test_ready(f)
    PROVE  IInv'
<1> USE DEF IInv, test_ready, Goto, scope_vars, state_vars, setter_vars,
            wait_vars, count_vars, history_vars
<1>1. TypeInv'
  BY SMT DEF TypeInv, Pcs
<1>2. SetterInv'
  BY Zenon DEF SetterInv
<1>3. FutureInv'
  BY SMT DEF FutureInv
<1>4. WaitInv'
  BY SMT DEF WaitInv
<1>5. ContinuationInv'
  BY SMT DEF ContinuationInv, InScope
<1>6. CountInv'
  <2>1. Counted' = Counted /\ Created' = Created
    BY Zenon DEF TypeInv, Pcs, Counted, Created
  <2> QED
    BY <2>1, Zenon DEF SetterInv, CountInv
<1>7. AbortInv'
  BY Zenon DEF TypeInv, Values, SetterPcs, Pcs, SetterInv, FutureInv, AbortInv
<1> QED
  BY <1>1, <1>2, <1>3, <1>4, <1>5, <1>6, <1>7, Zenon

\* The last future invokes the callback that is attached.
LEMMA invoke_on_abort_IInv ==
    ASSUME IInv, NEW f \in Futures, invoke_on_abort(f)
    PROVE  IInv'
<1> USE DEF IInv, invoke_on_abort, Goto, scope_vars, state_vars, setter_vars,
            wait_vars, count_vars, history_vars
<1>1. TypeInv'
  BY SMT DEF TypeInv, Pcs
<1>2. SetterInv'
  BY Zenon DEF SetterInv
<1>3. FutureInv'
  BY SMT DEF FutureInv
<1>4. WaitInv'
  BY SMT DEF WaitInv
<1>5. ContinuationInv'
  BY SMT DEF ContinuationInv, InScope
<1>6. CountInv'
  <2>1. Counted' = Counted /\ Created' = Created
    BY Zenon DEF TypeInv, Pcs, Counted, Created
  <2> QED
    BY <2>1, Zenon DEF SetterInv, CountInv
<1>7. AbortInv'
  <2>1. reference_count = 0 /\ aborts = 0
    BY Zenon DEF AbortInv
  <2>2. \A g \in Futures : g # f => pc[g] \in {"none", "gone"}
    BY <2>1, LastFuture, Zenon DEF AbortInv, Counted
  <2> QED
    BY <2>1, <2>2, SMT DEF TypeInv, Pcs, FutureInv, AbortInv
<1> QED
  BY <1>1, <1>2, <1>3, <1>4, <1>5, <1>6, <1>7, Zenon

\* The stop callback wakes the thread that sleeps.
LEMMA request_stop_IInv ==
    ASSUME IInv, NEW f \in Futures, request_stop(f)
    PROVE  IInv'
<1> USE DEF IInv, request_stop, scope_vars, state_vars, setter_vars,
            wait_vars, count_vars, history_vars
<1>1. TypeInv'
  BY SMT DEF TypeInv, Pcs
<1>2. SetterInv'
  BY Zenon DEF SetterInv
<1>3. FutureInv'
  BY SMT DEF FutureInv
<1>4. WaitInv'
  BY Zenon DEF TypeInv, WaitInv
<1>5. ContinuationInv'
  BY SMT DEF ContinuationInv, InScope
<1>6. CountInv'
  <2>1. Counted' = Counted /\ Created' = Created
    BY Zenon DEF TypeInv, Pcs, Counted, Created
  <2> QED
    BY <2>1, Zenon DEF SetterInv, CountInv
<1>7. AbortInv'
  BY SMT DEF AbortInv
<1> QED
  BY <1>1, <1>2, <1>3, <1>4, <1>5, <1>6, <1>7, Zenon

\* No step of the promise, of a future or of the scope breaks the invariant.
LEMMA NextIInv == IInv /\ [Next]_vars => IInv'
<1> SUFFICES ASSUME IInv, [Next]_vars PROVE IInv'
  BY Zenon
<1>1. ASSUME NEW s \in Setters, set_value(s) \/ destroy_promise(s) \/ Set(s)
      PROVE  IInv'
  BY <1>1, set_value_IInv, destroy_promise_IInv, store_IInv, MakeReady_IInv,
     TriggerContinuations_IInv, run_continuation_IInv, continuation_returns_IInv,
     set_value_returns_IInv, Zenon DEF Set
<1>2. ASSUME OnAbort \/ Expire
      PROVE  IInv'
  BY <1>2, OnAbort_IInv, Expire_IInv, Zenon
<1>3. ASSUME NEW f \in Futures, Proceed(f)
      PROVE  IInv'
  BY <1>3, wait_strategy_IInv, WaitByStrategy_IInv, Get_IInv, Wait_returns_IInv,
     Then_returns_IInv, test_ready_IInv, invoke_on_abort_IInv, Zenon DEF Proceed
<1>4. ASSUME NEW f \in Futures,
             \/ GetInterruptibleFuture(f)
             \/ \E other \in Futures : copy_future(f, other)
             \/ \E has_deadline \in BOOLEAN : Wait(f, has_deadline)
             \/ wake_unnotified(f)
             \/ AddContinuationCallback(f)
             \/ UnregisterFuture(f)
             \/ request_stop(f)
      PROVE  IInv'
  BY <1>4, GetInterruptibleFuture_IInv, copy_future_IInv, Wait_IInv,
     wake_unnotified_IInv, AddContinuationCallback_IInv, UnregisterFuture_IInv,
     request_stop_IInv, Zenon
<1>5. CASE UNCHANGED vars
  <2>1. UNCHANGED <<scope_vars, state_vars, setter_vars, wait_vars, count_vars,
                    history_vars, pc, stop_requested>>
    BY <1>5, Zenon DEF vars
  <2> USE <2>1 DEF scope_vars, state_vars, setter_vars, wait_vars, count_vars,
                   history_vars
  <2>2. TypeInv' /\ SetterInv' /\ FutureInv' /\ WaitInv'
    BY DEF IInv, TypeInv, SetterInv, FutureInv, WaitInv
  <2>3. ContinuationInv' /\ AbortInv'
    BY Zenon DEF IInv, ContinuationInv, InScope, AbortInv
  <2>4. CountInv'
    BY Zenon DEF IInv, CountInv, Counted, Created
  <2> QED
    BY <2>2, <2>3, <2>4, Zenon DEF IInv
<1> QED
  BY <1>1, <1>2, <1>3, <1>4, <1>5, Zenon DEF Next

\* The inductive invariant holds in every state the program reaches.
THEOREM Invariant == Spec => []IInv
  BY InitIInv, NextIInv, PTL DEF Spec

-----------------------------------------------------------------------------
\* Every variable has its type.  In particular reference_count_, which is
\* decremented without a test, never wraps around, and there are never more
\* references than futures and continuations.
THEOREM TypeCorrect == Spec => []TypeOK
<1>1. IInv => TypeOK
  <2> SUFFICES ASSUME IInv PROVE TypeOK
    BY Zenon
  <2>1. Created \subseteq Futures /\ attached \subseteq Futures
    BY Zenon DEF IInv, TypeInv, Created
  <2>2. /\ Cardinality(Created) <= Cardinality(Futures)
        /\ Cardinality(attached) <= Cardinality(Futures)
        /\ Cardinality(Futures) \in Nat
    BY <2>1, FuturesAssumption, FS_Subset, FS_CardinalityType, Zenon
  <2>3. reference_count \in 0 .. 2 * Cardinality(Futures)
    BY <2>2, FiniteCounts, SMT DEF IInv, TypeInv, CountInv
  <2>4. aborts > 0 => Cardinality(Futures) # 0
    BY FuturesAssumption, FS_EmptySet, Zenon DEF IInv, AbortInv
  <2>5. aborts \in 0 .. Cardinality(Futures)
    BY <2>2, <2>4, SMT DEF IInv, TypeInv, AbortInv
  <2> QED
    BY <2>3, <2>5, Zenon DEF IInv, TypeInv, TypeOK
<1> QED
  BY <1>1, Invariant, PTL

\* Wait, WaitFor, WaitUntil and Get of a future: nobody sleeps through the
\* result or a stop, an outcome means what it says, and Get returns what a
\* setter stored.
THEOREM OutcomesAreSound == Spec => []OutcomeSound
<1>1. IInv => OutcomeSound
  BY Zenon DEF IInv, WaitInv, OutcomeSound
<1> QED
  BY <1>1, Invariant, PTL

\* AddContinuationCallback against TriggerContinuations: a continuation runs
\* at most once, and it has run or was skipped when SetValue has returned.
THEOREM ContinuationsRunOnce == Spec => []ContinuationOnce
<1>1. IInv => ContinuationOnce
  <2> SUFFICES ASSUME IInv PROVE ContinuationOnce
    BY Zenon
  <2>1. \A f \in Futures : seen[f] = <<>> \/ Len(seen[f]) = 1
    BY Zenon DEF IInv, TypeInv, ContinuationInv
  <2>2. ASSUME value_set, \A s \in Setters : setter_pc[s] = "idle"
        PROVE  continuations = {}
    BY <2>2, Zenon DEF IInv, SetterInv, ContinuationInv
  <2>3. \A f \in Futures : Len(seen[f]) <= 1
    <3> SUFFICES ASSUME NEW f \in Futures PROVE Len(seen[f]) <= 1
      BY Zenon
    <3>1. CASE seen[f] = <<>>
      BY <3>1
    <3>2. CASE Len(seen[f]) = 1
      BY <3>2
    <3> QED
      BY <2>1, <3>1, <3>2, Zenon
  <2> QED
    BY <2>2, <2>3, Zenon DEF IInv, TypeInv, ContinuationInv, ContinuationOnce
<1> QED
  BY <1>1, Invariant, PTL

\* UnregisterFuture and OnAbort: the callback is invoked once, when the last
\* future has gone, and a producer that attached it in time is told.
THEOREM AbortIsExact == Spec => []AbortExact
<1>1. IInv => AbortExact
  <2> SUFFICES ASSUME IInv PROVE AbortExact
    BY Zenon
  <2>1. aborts > 0 =>
           /\ aborts = 1 /\ attached = {}
           /\ \A f \in Futures : pc[f] \in {"none", "gone"}
    BY LastFuture, Zenon DEF IInv, AbortInv
  <2>2. ASSUME Abandoned, on_abort = "attached"
        PROVE  aborts = 1
    <3>1. ~ready /\ Counted = {} /\ attached = {}
      BY <2>2, Zenon DEF IInv, SetterInv, Abandoned, Counted
    <3>2. reference_count = 0
      BY <3>1, FS_EmptySet, SMT DEF IInv, CountInv
    <3> QED
      BY <2>2, <3>2, Zenon DEF IInv, AbortInv, Abandoned
  <2> QED
    BY <2>1, <2>2, Zenon DEF AbortExact
<1> QED
  BY <1>1, Invariant, PTL

\* Expire of the scope: no continuation is running afterwards.
THEOREM ScopeIsRespected == Spec => []ScopeRespected
<1>1. IInv => ScopeRespected
  BY Zenon DEF IInv, ContinuationInv, ScopeRespected
<1> QED
  BY <1>1, Invariant, PTL

\* value_ is read without a mutex by whoever has seen ready_: a step that
\* changes it then can only be the Get that moves it out.
THEOREM ValueIsStable == Spec => ValueStable
<1>1. IInv /\ [Next]_vars => [ready => value' \in {value, "moved"}]_vars
  <2> SUFFICES ASSUME IInv, Next, ready PROVE value' \in {value, "moved"}
    BY Zenon
  <2> USE DEF scope_vars, state_vars, setter_vars, wait_vars, count_vars,
              history_vars
  <2>1. \A s \in Setters : setter_pc[s] # "store"
    BY Zenon DEF IInv, SetterInv
  <2>2. ASSUME NEW s \in Setters, set_value(s) \/ destroy_promise(s) \/ Set(s)
        PROVE  UNCHANGED value
    <3>1. set_value(s) => UNCHANGED value
      BY Zenon DEF set_value
    <3>2. destroy_promise(s) => UNCHANGED value
      BY Zenon DEF destroy_promise
    <3>3. store(s) => UNCHANGED value
      BY <2>1, Zenon DEF store
    <3>4. MakeReady(s) => UNCHANGED value
      BY Zenon DEF MakeReady
    <3>5. TriggerContinuations(s) => UNCHANGED value
      BY Zenon DEF TriggerContinuations
    <3>6. (\E f \in Futures : run_continuation(s, f)) => UNCHANGED value
      BY Zenon DEF run_continuation
    <3>7. continuation_returns(s) => UNCHANGED value
      BY Zenon DEF continuation_returns
    <3>8. set_value_returns(s) => UNCHANGED value
      BY Zenon DEF set_value_returns
    <3> QED
      BY <2>2, <3>1, <3>2, <3>3, <3>4, <3>5, <3>6, <3>7, <3>8, Zenon DEF Set
  <2>3. ASSUME OnAbort \/ Expire
        PROVE  UNCHANGED value
    BY <2>3, Zenon DEF OnAbort, Expire
  <2>4. ASSUME NEW f \in Futures, Proceed(f)
        PROVE  value' \in {value, "moved"}
    <3>1. wait_strategy(f) => value' \in {value, "moved"}
      BY Zenon DEF wait_strategy
    <3>2. WaitByStrategy(f) => value' \in {value, "moved"}
      BY Zenon DEF WaitByStrategy
    <3>3. Get(f) => value' \in {value, "moved"}
      BY Zenon DEF Get
    <3>4. Wait_returns(f) => value' \in {value, "moved"}
      BY Zenon DEF Wait_returns
    <3>5. Then_returns(f) => value' \in {value, "moved"}
      BY Zenon DEF Then_returns
    <3>6. test_ready(f) => value' \in {value, "moved"}
      BY Zenon DEF test_ready
    <3>7. invoke_on_abort(f) => value' \in {value, "moved"}
      BY Zenon DEF invoke_on_abort
    <3> QED
      BY <2>4, <3>1, <3>2, <3>3, <3>4, <3>5, <3>6, <3>7, Zenon DEF Proceed
  <2>5. ASSUME NEW f \in Futures,
               \/ GetInterruptibleFuture(f)
               \/ \E other \in Futures : copy_future(f, other)
               \/ \E has_deadline \in BOOLEAN : Wait(f, has_deadline)
               \/ wake_unnotified(f)
               \/ AddContinuationCallback(f)
               \/ UnregisterFuture(f)
               \/ request_stop(f)
        PROVE  UNCHANGED value
    <3>1. GetInterruptibleFuture(f) => UNCHANGED value
      BY Zenon DEF GetInterruptibleFuture
    <3>2. (\E other \in Futures : copy_future(f, other)) => UNCHANGED value
      BY Zenon DEF copy_future
    <3>3. (\E has_deadline \in BOOLEAN : Wait(f, has_deadline)) => UNCHANGED value
      BY Zenon DEF Wait
    <3>4. wake_unnotified(f) => UNCHANGED value
      BY Zenon DEF wake_unnotified
    <3>5. AddContinuationCallback(f) => UNCHANGED value
      BY Zenon DEF AddContinuationCallback
    <3>6. UnregisterFuture(f) => UNCHANGED value
      BY Zenon DEF UnregisterFuture
    <3>7. request_stop(f) => UNCHANGED value
      BY Zenon DEF request_stop
    <3> QED
      BY <2>5, <3>1, <3>2, <3>3, <3>4, <3>5, <3>6, <3>7, Zenon
  <2> QED
    BY <2>2, <2>3, <2>4, <2>5, Zenon DEF Next
<1> QED
  BY <1>1, Invariant, PTL DEF Spec, ValueStable
=============================================================================
