----------------------- MODULE ConditionVariableProofs -----------------------
(***************************************************************************)
(* Proofs about ConditionVariable, for any finite sets of waiters and of   *)
(* producers and any bound on the items.                                   *)
(***************************************************************************)
EXTENDS ConditionVariable, FiniteSetTheorems, TLAPS

\* The types, without the bound of entry_counter_.
TypeInv ==
    /\ pc \in [Waiters -> Pcs]
    /\ kind \in [Waiters -> Kinds]
    /\ expired \in [Waiters -> BOOLEAN]
    /\ result \in [Waiters -> BOOLEAN]
    /\ user_lock \in Waiters \cup Producers \cup {Stopper, NoThread}
    /\ internal_mutex \in Waiters \cup {NoThread}
    /\ items \in 0 .. MaxItems
    /\ notifying \subseteq Producers
    /\ stop_requested \in BOOLEAN
    /\ registered \subseteq Waiters
    /\ executing \in Waiters \cup {NoThread}
    /\ stop_pc \in {"idle", "scan", "callback", "done"}
    /\ entry_counter \in Nat
    /\ object \in {"alive", "destroying", "destroyed"}

\* Which locks a waiter holds, and that there are no items when one without
\* a predicate, or one that has just tested it, goes to sleep.
LockInv ==
    \A w \in Waiters :
        /\ pc[w] \in {"construct", "inline", "test", "lock", "unlock",
                      "deregister", "exit", "returned"} => user_lock = w
        /\ pc[w] \in {"unlock", "sleep", "unwind"} <=> internal_mutex = w
        /\ pc[w] \in {"lock", "unlock"} => items = 0
        /\ pc[w] \in {"construct", "inline"} /\ ~HasPredicate(w) => items = 0

\* What a function is going to return.
ResultInv ==
    \A w \in Waiters :
        /\ pc[w] \in {"unwind", "relock"} /\ ~result[w] => stop_requested
        /\ pc[w] \in {"deregister", "exit", "returned"} =>
              /\ HasPredicate(w) => (result[w] <=> stop_waiting)
              /\ ~result[w] =>
                    stop_requested \/ (kind[w] = "wait_until_pred" /\ expired[w])

\* Where a stop_callback may be linked, or be running.
Inside(w) ==
    pc[w] \notin {"idle", "construct", "inline", "exit", "returned"}

\* Whoever sleeps, or is bound to, will be woken by its own callback if a stop
\* is requested.
StopInv ==
    /\ stop_requested <=> stop_pc # "idle"
    /\ executing # NoThread <=> stop_pc = "callback"
    /\ stop_pc = "done" => registered = {}
    /\ \A w \in Waiters :
          /\ w \in registered \/ executing = w => Inside(w)
          /\ ~stop_requested /\ Inside(w) => w \in registered
          /\ pc[w] = "inline" => stop_requested
          /\ pc[w] \in {"unlock", "sleep", "asleep"} =>
                w \in registered \/ executing = w

\* The waits that entry_counter_ counts.
Entered == {w \in Waiters : pc[w] \notin {"idle", "returned"}}

EntryInv ==
    /\ entry_counter = Cardinality(Entered)
    /\ object = "destroyed" => Entered = {}

\* Whoever is about to sleep counts as asleep.
WakeUpInv ==
    (\E w \in Waiters : pc[w] \in {"sleep", "asleep"}) =>
        items <= Cardinality(WillTest) + Cardinality(notifying)

\* The inductive invariant.
IInv ==
    /\ TypeInv /\ LockInv /\ ResultInv /\ StopInv /\ EntryInv /\ WakeUpInv

-----------------------------------------------------------------------------
\* Pcs that are counted, as sets that are finite.
LEMMA FiniteCounts ==
    ASSUME TypeInv
    PROVE  /\ IsFiniteSet(Entered) /\ Cardinality(Entered) \in Nat
           /\ IsFiniteSet(WillTest) /\ Cardinality(WillTest) \in Nat
           /\ IsFiniteSet(notifying) /\ Cardinality(notifying) \in Nat
<1>1. Entered \subseteq Waiters /\ WillTest \subseteq Waiters /\ notifying \subseteq Producers
  BY Zenon DEF Entered, WillTest, TypeInv
<1>2. IsFiniteSet(Entered) /\ IsFiniteSet(WillTest) /\ IsFiniteSet(notifying)
  BY <1>1, ThreadsAssumption, FS_Subset, Zenon
<1> QED
  BY <1>2, FS_CardinalityType, Zenon

\* A step after which no fewer waiters are going to look at the items, and
\* which leaves the items and the producers alone, loses no wake-up.
LEMMA MoreWillTest ==
    ASSUME TypeInv, TypeInv', WakeUpInv, WillTest \subseteq WillTest',
           UNCHANGED <<items, notifying>>,
           (\E w \in Waiters : pc[w] \in {"sleep", "asleep"})'
              => \E w \in Waiters : pc[w] \in {"sleep", "asleep"}
    PROVE  WakeUpInv'
<1>1. IsFiniteSet(WillTest')
  <2>1. WillTest' \subseteq Waiters
    BY Zenon DEF WillTest
  <2> QED
    BY <2>1, ThreadsAssumption, FS_Subset, Zenon
<1>2. /\ Cardinality(WillTest) <= Cardinality(WillTest')
      /\ Cardinality(WillTest') \in Nat
  BY <1>1, FS_Subset, FS_CardinalityType, Zenon
<1> QED
  BY <1>2, FiniteCounts, SMT DEF TypeInv, WakeUpInv

\* The result of w becomes r, which is a Boolean expression in the actions.
LEMMA ResultUpdate ==
    ASSUME TypeInv, NEW w \in Waiters, NEW r \in BOOLEAN,
           result' = [result EXCEPT ![w] = r]
    PROVE  /\ result' \in [Waiters -> BOOLEAN]
           /\ result'[w] <=> r
           /\ \A v \in Waiters : v # w => (result'[v] <=> result[v])
  BY Zenon DEF TypeInv

\* In the beginning nobody waits.
LEMMA InitIInv == Init => IInv
<1> SUFFICES ASSUME Init PROVE IInv
  BY Zenon
<1> USE ThreadsAssumption, MaxItemsAssumption DEF Init
<1>1. TypeInv
  <2>1. /\ pc \in [Waiters -> Pcs] /\ kind \in [Waiters -> Kinds]
        /\ expired \in [Waiters -> BOOLEAN] /\ result \in [Waiters -> BOOLEAN]
    BY Zenon DEF Pcs, Kinds
  <2>2. items \in 0 .. MaxItems
    BY SMT
  <2> QED
    BY <2>1, <2>2, Zenon DEF TypeInv
<1>2. LockInv /\ ResultInv /\ StopInv /\ WakeUpInv
  BY Zenon DEF LockInv, ResultInv, StopInv, Inside, WakeUpInv
<1>3. Entered = {}
  BY Zenon DEF Entered
<1>4. EntryInv
  BY <1>3, FS_EmptySet, Zenon DEF EntryInv
<1> QED
  BY <1>1, <1>2, <1>4, Zenon DEF IInv

\* A waiter locks the user's lock, and its entry is counted.
LEMMA call_IInv ==
    ASSUME IInv, NEW w \in Waiters, NEW k \in Kinds, NEW late \in BOOLEAN,
           call(w, k, late)
    PROVE  IInv'
<1> USE ThreadsAssumption, MaxItemsAssumption
    DEF IInv, call, too_late,
            enter, Goto
<1>a. /\ result' \in [Waiters -> BOOLEAN]
      /\ late => (result'[w] <=> (HasPredicate(w)' => stop_waiting))
      /\ ~late /\ stop_requested => (result'[w] <=> HasPredicate(w)' /\ stop_waiting)
      /\ \A v \in Waiters : v # w => (result'[v] <=> result[v])
  <2>1. CASE late
    <3>1. result' = [result EXCEPT ![w] = HasPredicate(w)' => stop_waiting]
      BY <2>1, Zenon
    <3> QED
      BY <2>1, <3>1, ResultUpdate, Zenon
  <2>2. CASE ~late /\ stop_requested
    <3>1. result' = [result EXCEPT ![w] = HasPredicate(w)' /\ stop_waiting]
      BY <2>2, Zenon
    <3> QED
      BY <2>2, <3>1, ResultUpdate, Zenon
  <2>3. CASE ~late /\ ~stop_requested
    BY <2>3, Zenon DEF TypeInv
  <2> QED
    BY <2>1, <2>2, <2>3, Zenon
<1>1. TypeInv'
  <2>1. pc' \in [Waiters -> Pcs] /\ entry_counter' \in Nat
    BY SMT DEF TypeInv, Pcs
  <2>2. /\ kind' \in [Waiters -> Kinds]
        /\ expired' \in [Waiters -> BOOLEAN]
        /\ user_lock' \in Waiters
    BY Zenon DEF TypeInv
  <2> QED
    BY <1>a, <2>1, <2>2, Zenon DEF TypeInv
<1>2. LockInv'
  BY SMT DEF TypeInv, Pcs, LockInv, HasPredicate, stop_waiting
<1>3. ResultInv'
  BY <1>a, SMT DEF TypeInv, Pcs, Kinds, LockInv, ResultInv, HasPredicate,
     stop_waiting
<1>4. StopInv'
  BY SMT DEF TypeInv, StopInv, Inside
<1>5. EntryInv'
  <2>1. CASE late
    <3>1. Entered' = Entered
      BY <2>1, Zenon DEF TypeInv, Pcs, Entered
    <3> QED
      BY <2>1, <3>1, Zenon DEF EntryInv
  <2>2. CASE ~late
    <3>1. w \notin Entered /\ Entered' = Entered \cup {w}
      BY <2>2, SMT DEF TypeInv, Pcs, Entered
    <3>2. Cardinality(Entered)' = Cardinality(Entered) + 1
      BY <3>1, FiniteCounts, FS_AddElement, Zenon
    <3> QED
      BY <2>2, <3>2, Zenon DEF EntryInv
  <2> QED
    BY <2>1, <2>2, Zenon
<1>6. WakeUpInv'
  <2>1. WillTest \subseteq WillTest'
    BY Zenon DEF TypeInv, Pcs, WillTest
  <2>2. (\E v \in Waiters : pc[v] \in {"sleep", "asleep"})'
           => \E v \in Waiters : pc[v] \in {"sleep", "asleep"}
    BY SMT DEF TypeInv, Pcs
  <2> QED
    BY <1>1, <2>1, <2>2, MoreWillTest, Zenon
<1> QED
  BY <1>1, <1>2, <1>3, <1>4, <1>5, <1>6, Zenon

\* The callback is linked, or run at once if a stop was requested.
LEMMA construct_callback_IInv ==
    ASSUME IInv, NEW w \in Waiters, construct_callback(w)
    PROVE  IInv'
<1> USE ThreadsAssumption, MaxItemsAssumption
    DEF IInv, construct_callback,
            Loop, Goto
<1>1. TypeInv'
  BY SMT DEF TypeInv, Pcs
<1>2. LockInv'
  BY SMT DEF TypeInv, LockInv, HasPredicate
<1>3. ResultInv'
  BY SMT DEF TypeInv, LockInv, ResultInv, HasPredicate, stop_waiting
<1>4. StopInv'
  BY SMT DEF TypeInv, StopInv, Inside
<1>5. EntryInv'
  <2>1. Entered' = Entered
    BY Zenon DEF TypeInv, Pcs, Entered
  <2> QED
    BY <2>1, Zenon DEF EntryInv
<1>6. WakeUpInv'
  <2>1. CASE items = 0
    <3>1. items' = 0 /\ WillTest' \subseteq Waiters /\ notifying' \subseteq Producers
      BY <1>1, <2>1, Zenon DEF TypeInv, WillTest
    <3>2. Cardinality(WillTest') \in Nat /\ Cardinality(notifying') \in Nat
      BY <3>1, ThreadsAssumption, FS_Subset, FS_CardinalityType, Zenon
    <3> QED
      BY <3>1, <3>2, SMT DEF WakeUpInv
  <2>2. CASE items # 0
    <3>1. WillTest \subseteq WillTest'
      BY <2>2, SMT DEF TypeInv, Pcs, LockInv, HasPredicate, stop_waiting, WillTest
    <3>2. (\E v \in Waiters : pc[v] \in {"sleep", "asleep"})'
             => \E v \in Waiters : pc[v] \in {"sleep", "asleep"}
      BY <2>2, SMT DEF TypeInv, Pcs, LockInv
    <3> QED
      BY <1>1, <3>1, <3>2, MoreWillTest, Zenon
  <2> QED
    BY <2>1, <2>2, Zenon
<1> QED
  BY <1>1, <1>2, <1>3, <1>4, <1>5, <1>6, Zenon

\* The callback of a stop that was requested before wakes everyone.
LEMMA inline_notify_all_IInv ==
    ASSUME IInv, NEW w \in Waiters, inline_notify_all(w)
    PROVE  IInv'
<1> USE ThreadsAssumption, MaxItemsAssumption
    DEF IInv, inline_notify_all,
            Awaken, Asleep, Loop
<1>1. TypeInv'
  BY Zenon DEF TypeInv, Pcs
<1>2. LockInv'
  BY Zenon DEF LockInv, HasPredicate
<1>3. ResultInv'
  BY Zenon DEF ResultInv, HasPredicate, stop_waiting
<1>4. StopInv'
  <2>1. \A v \in Waiters : v # w => (Inside(v)' <=> Inside(v))
    BY Zenon DEF TypeInv, Pcs, Inside
  <2>2. stop_requested /\ Inside(w)'
    BY Zenon DEF TypeInv, Pcs, StopInv, Inside
  <2>3. \A v \in Waiters : pc'[v] \in {"unlock", "sleep", "asleep"} =>
           pc[v] \in {"unlock", "sleep", "asleep"}
    BY Zenon DEF TypeInv, Pcs
  <2> QED
    BY <2>1, <2>2, <2>3, Zenon DEF StopInv
<1>5. EntryInv'
  <2>1. Entered' = Entered
    BY Zenon DEF TypeInv, Pcs, Entered
  <2> QED
    BY <2>1, Zenon DEF EntryInv
<1>6. WakeUpInv'
  <2>1. CASE items = 0
    <3>1. items' = 0 /\ WillTest' \subseteq Waiters /\ notifying' \subseteq Producers
      BY <1>1, <2>1, Zenon DEF TypeInv, WillTest
    <3>2. Cardinality(WillTest') \in Nat /\ Cardinality(notifying') \in Nat
      BY <3>1, ThreadsAssumption, FS_Subset, FS_CardinalityType, Zenon
    <3> QED
      BY <3>1, <3>2, SMT DEF WakeUpInv
  <2>2. CASE items # 0
    <3>1. WillTest \subseteq WillTest'
      BY <2>2, Zenon DEF TypeInv, Pcs, LockInv, HasPredicate, stop_waiting, WillTest
    <3>2. (\E v \in Waiters : pc[v] \in {"sleep", "asleep"})'
             => \E v \in Waiters : pc[v] \in {"sleep", "asleep"}
      BY <2>2, Zenon DEF TypeInv, Pcs, LockInv
    <3> QED
      BY <1>1, <3>1, <3>2, MoreWillTest, Zenon
  <2> QED
    BY <2>1, <2>2, Zenon
<1> QED
  BY <1>1, <1>2, <1>3, <1>4, <1>5, <1>6, Zenon

\* A waiter goes on to sleep only if it finds no item.
LEMMA test_IInv ==
    ASSUME IInv, NEW w \in Waiters, test(w)
    PROVE  IInv'
<1> USE ThreadsAssumption, MaxItemsAssumption
    DEF IInv, test, Return, Goto
<1>1. TypeInv'
  <2>1. CASE stop_waiting
    <3>1. result' \in [Waiters -> BOOLEAN] /\ pc' \in [Waiters -> Pcs]
      BY <2>1, Zenon DEF TypeInv, Pcs
    <3> QED
      BY <3>1, Zenon DEF TypeInv
  <2>2. CASE ~stop_waiting
    BY <2>2, SMT DEF TypeInv, Pcs
  <2> QED
    BY <2>1, <2>2, Zenon
<1>2. LockInv'
  BY SMT DEF TypeInv, Pcs, LockInv, HasPredicate, stop_waiting
<1>3. ResultInv'
  BY SMT DEF TypeInv, LockInv, ResultInv, HasPredicate, stop_waiting
<1>4. StopInv'
  BY SMT DEF TypeInv, StopInv, Inside
<1>5. EntryInv'
  <2>1. Entered' = Entered
    BY Zenon DEF TypeInv, Pcs, Entered
  <2> QED
    BY <2>1, Zenon DEF EntryInv
<1>6. WakeUpInv'
  <2>1. CASE items = 0
    <3>1. items' = 0 /\ WillTest' \subseteq Waiters /\ notifying' \subseteq Producers
      BY <1>1, <2>1, Zenon DEF TypeInv, WillTest
    <3>2. Cardinality(WillTest') \in Nat /\ Cardinality(notifying') \in Nat
      BY <3>1, ThreadsAssumption, FS_Subset, FS_CardinalityType, Zenon
    <3> QED
      BY <3>1, <3>2, SMT DEF WakeUpInv
  <2>2. CASE items # 0
    <3>1. WillTest \subseteq WillTest'
      BY <2>2, SMT DEF TypeInv, Pcs, LockInv, HasPredicate, stop_waiting, WillTest
    <3>2. (\E v \in Waiters : pc[v] \in {"sleep", "asleep"})'
             => \E v \in Waiters : pc[v] \in {"sleep", "asleep"}
      BY <2>2, SMT DEF TypeInv, Pcs, LockInv
    <3> QED
      BY <1>1, <3>1, <3>2, MoreWillTest, Zenon
  <2> QED
    BY <2>1, <2>2, Zenon
<1> QED
  BY <1>1, <1>2, <1>3, <1>4, <1>5, <1>6, Zenon

\* The stop is tested under internal_mutex_, before the waiter sleeps.
LEMMA lock_internal_IInv ==
    ASSUME IInv, NEW w \in Waiters, lock_internal(w)
    PROVE  IInv'
<1> USE ThreadsAssumption, MaxItemsAssumption
    DEF IInv, lock_internal,
            Return, Goto
<1>a. /\ result' \in [Waiters -> BOOLEAN]
      /\ stop_requested =>
            (result'[w] <=> kind[w] = "wait_until_pred" /\ stop_waiting)
      /\ \A v \in Waiters : v # w => (result'[v] <=> result[v])
  <2>1. CASE stop_requested
    <3>1. result' = [result EXCEPT ![w] = kind[w] = "wait_until_pred" /\ stop_waiting]
      BY <2>1, Zenon
    <3> QED
      BY <2>1, <3>1, ResultUpdate, Zenon
  <2>2. CASE ~stop_requested
    BY <2>2, Zenon DEF TypeInv
  <2> QED
    BY <2>1, <2>2, Zenon
<1>1. TypeInv'
  BY <1>a, SMT DEF TypeInv, Pcs, Kinds
<1>2. LockInv'
  BY SMT DEF TypeInv, LockInv, HasPredicate
<1>3. ResultInv'
  BY <1>a, SMT DEF TypeInv, Pcs, Kinds, LockInv, ResultInv, HasPredicate,
     stop_waiting
<1>4. StopInv'
  BY SMT DEF TypeInv, StopInv, Inside
<1>5. EntryInv'
  <2>1. Entered' = Entered
    BY Zenon DEF TypeInv, Pcs, Entered
  <2> QED
    BY <2>1, Zenon DEF EntryInv
<1>6. WakeUpInv'
  <2>1. WillTest \subseteq WillTest'
    BY Zenon DEF TypeInv, Pcs, WillTest
  <2>2. (\E v \in Waiters : pc[v] \in {"sleep", "asleep"})'
           => \E v \in Waiters : pc[v] \in {"sleep", "asleep"}
    BY Zenon DEF TypeInv, Pcs
  <2> QED
    BY <1>1, <2>1, <2>2, MoreWillTest, Zenon
<1> QED
  BY <1>1, <1>2, <1>3, <1>4, <1>5, <1>6, Zenon

\* From here on items may arrive, but a notification has to wait.
LEMMA unlock_user_IInv ==
    ASSUME IInv, NEW w \in Waiters, unlock_user(w)
    PROVE  IInv'
<1> USE ThreadsAssumption, MaxItemsAssumption
    DEF IInv, unlock_user, Goto
<1>1. TypeInv'
  BY Zenon DEF TypeInv, Pcs
<1>2. LockInv'
  BY Zenon DEF TypeInv, LockInv, HasPredicate
<1>3. ResultInv'
  BY SMT DEF ResultInv, HasPredicate, stop_waiting
<1>4. StopInv'
  BY SMT DEF StopInv, Inside
<1>5. EntryInv'
  BY SMT DEF EntryInv, Entered
<1>6. WakeUpInv'
  <2>1. CASE items = 0
    <3>1. items' = 0 /\ WillTest' \subseteq Waiters /\ notifying' \subseteq Producers
      BY <1>1, <2>1, Zenon DEF TypeInv, WillTest
    <3>2. Cardinality(WillTest') \in Nat /\ Cardinality(notifying') \in Nat
      BY <3>1, ThreadsAssumption, FS_Subset, FS_CardinalityType, Zenon
    <3> QED
      BY <3>1, <3>2, SMT DEF WakeUpInv
  <2>2. CASE items # 0
    <3>1. WillTest \subseteq WillTest'
      BY <2>2, Zenon DEF TypeInv, Pcs, LockInv, HasPredicate, stop_waiting, WillTest
    <3>2. (\E v \in Waiters : pc[v] \in {"sleep", "asleep"})'
             => \E v \in Waiters : pc[v] \in {"sleep", "asleep"}
      BY <2>2, Zenon DEF TypeInv, Pcs, LockInv
    <3> QED
      BY <1>1, <3>1, <3>2, MoreWillTest, Zenon
  <2> QED
    BY <2>1, <2>2, Zenon
<1> QED
  BY <1>1, <1>2, <1>3, <1>4, <1>5, <1>6, Zenon

\* The waiter sleeps with its callback linked.
LEMMA sleep_IInv ==
    ASSUME IInv, NEW w \in Waiters, sleep(w)
    PROVE  IInv'
<1> USE ThreadsAssumption, MaxItemsAssumption
    DEF IInv, sleep, Goto
<1>1. TypeInv'
  BY Zenon DEF TypeInv, Pcs
<1>2. LockInv'
  BY Zenon DEF TypeInv, LockInv, HasPredicate
<1>3. ResultInv'
  BY SMT DEF ResultInv, HasPredicate, stop_waiting
<1>4. StopInv'
  BY SMT DEF StopInv, Inside
<1>5. EntryInv'
  BY SMT DEF EntryInv, Entered
<1>6. WakeUpInv'
  BY SMT DEF WakeUpInv, WillTest
<1> QED
  BY <1>1, <1>2, <1>3, <1>4, <1>5, <1>6, Zenon

\* A waiter that wakes up unnotified will look at the items.
LEMMA wake_unnotified_IInv ==
    ASSUME IInv, NEW w \in Waiters, wake_unnotified(w)
    PROVE  IInv'
<1> USE ThreadsAssumption, MaxItemsAssumption
    DEF IInv, wake_unnotified,
            Goto
<1>1. TypeInv'
  BY Zenon DEF TypeInv, Pcs
<1>2. LockInv'
  BY SMT DEF LockInv, HasPredicate
<1>3. ResultInv'
  BY SMT DEF ResultInv, HasPredicate, stop_waiting
<1>4. StopInv'
  BY SMT DEF StopInv, Inside
<1>5. EntryInv'
  BY SMT DEF EntryInv, Entered
<1>6. WakeUpInv'
  <2>1. WillTest \subseteq WillTest'
    BY Zenon DEF TypeInv, Pcs, WillTest
  <2>2. (\E v \in Waiters : pc[v] \in {"sleep", "asleep"})'
           => \E v \in Waiters : pc[v] \in {"sleep", "asleep"}
    BY Zenon DEF TypeInv, Pcs
  <2> QED
    BY <1>1, <2>1, <2>2, MoreWillTest, Zenon
<1> QED
  BY <1>1, <1>2, <1>3, <1>4, <1>5, <1>6, Zenon

\* wait_until_impl returns false only if a stop was requested.
LEMMA wake_IInv ==
    ASSUME IInv, NEW w \in Waiters, wake(w)
    PROVE  IInv'
<1> USE ThreadsAssumption, MaxItemsAssumption
    DEF IInv, wake, Goto
<1>a. /\ result' \in [Waiters -> BOOLEAN]
      /\ result'[w] <=> ~stop_requested
      /\ \A v \in Waiters : v # w => (result'[v] <=> result[v])
  BY ResultUpdate, Zenon
<1>1. TypeInv'
  BY Zenon DEF TypeInv, Pcs
<1>2. LockInv'
  BY Zenon DEF TypeInv, LockInv, HasPredicate
<1>3. ResultInv'
  BY <1>a, SMT DEF TypeInv, Pcs, Kinds, LockInv, ResultInv, HasPredicate,
     stop_waiting
<1>4. StopInv'
  BY SMT DEF StopInv, Inside
<1>5. EntryInv'
  BY SMT DEF EntryInv, Entered
<1>6. WakeUpInv'
  BY SMT DEF WakeUpInv, WillTest
<1> QED
  BY <1>1, <1>2, <1>3, <1>4, <1>5, <1>6, Zenon

\* internal_mutex_ is released first.
LEMMA unwind_IInv ==
    ASSUME IInv, NEW w \in Waiters, unwind(w)
    PROVE  IInv'
<1> USE ThreadsAssumption, MaxItemsAssumption
    DEF IInv, unwind, Goto
<1>1. TypeInv'
  BY Zenon DEF TypeInv, Pcs
<1>2. LockInv'
  BY Zenon DEF TypeInv, LockInv, HasPredicate
<1>3. ResultInv'
  BY SMT DEF ResultInv, HasPredicate, stop_waiting
<1>4. StopInv'
  BY SMT DEF StopInv, Inside
<1>5. EntryInv'
  BY SMT DEF EntryInv, Entered
<1>6. WakeUpInv'
  BY SMT DEF WakeUpInv, WillTest
<1> QED
  BY <1>1, <1>2, <1>3, <1>4, <1>5, <1>6, Zenon

\* With the user's lock again the result is the predicate's value.
LEMMA relock_user_IInv ==
    ASSUME IInv, NEW w \in Waiters, relock_user(w)
    PROVE  IInv'
<1> USE ThreadsAssumption, MaxItemsAssumption
    DEF IInv, relock_user,
            Return, Goto, shouldStop
<1>a. /\ result' \in [Waiters -> BOOLEAN]
      /\ pc'[w] = "deregister" =>
            (result'[w] <=> IF kind[w] = "wait_until" THEN result[w] ELSE stop_waiting)
      /\ \A v \in Waiters : v # w => (result'[v] <=> result[v])
  <2>1. CASE kind[w] = "wait_until"
    <3>1. UNCHANGED result
      BY <2>1, Zenon DEF TypeInv
    <3> QED
      BY <2>1, <3>1, Zenon DEF TypeInv
  <2>2. CASE kind[w] = "wait_until_pred" /\ shouldStop(w)
    <3>1. result' = [result EXCEPT ![w] = stop_waiting]
      BY <2>2, Zenon
    <3>2. stop_waiting \in BOOLEAN
      BY DEF stop_waiting
    <3> QED
      BY <2>2, <3>1, <3>2, ResultUpdate, Zenon
  <2>3. CASE kind[w] = "wait" \/ (kind[w] = "wait_until_pred" /\ ~shouldStop(w))
    BY <2>3, Zenon DEF TypeInv, Pcs
  <2> QED
    BY <2>1, <2>2, <2>3, Zenon DEF TypeInv, Kinds
<1>1. TypeInv'
  BY <1>a, SMT DEF TypeInv, Pcs, Kinds
<1>2. LockInv'
  BY SMT DEF TypeInv, LockInv, HasPredicate
<1>3. ResultInv'
  BY <1>a, SMT DEF TypeInv, Pcs, Kinds, LockInv, ResultInv, HasPredicate,
     stop_waiting
<1>4. StopInv'
  BY SMT DEF TypeInv, StopInv, Inside
<1>5. EntryInv'
  <2>1. Entered' = Entered
    BY Zenon DEF TypeInv, Pcs, Entered
  <2> QED
    BY <2>1, Zenon DEF EntryInv
<1>6. WakeUpInv'
  <2>1. WillTest \subseteq WillTest'
    BY Zenon DEF TypeInv, Pcs, WillTest
  <2>2. (\E v \in Waiters : pc[v] \in {"sleep", "asleep"})'
           => \E v \in Waiters : pc[v] \in {"sleep", "asleep"}
    BY Zenon DEF TypeInv, Pcs
  <2> QED
    BY <1>1, <2>1, <2>2, MoreWillTest, Zenon
<1> QED
  BY <1>1, <1>2, <1>3, <1>4, <1>5, <1>6, Zenon

\* ~stop_callback waits for the callback while it runs.
LEMMA deregister_callback_IInv ==
    ASSUME IInv, NEW w \in Waiters, deregister_callback(w)
    PROVE  IInv'
<1> USE ThreadsAssumption, MaxItemsAssumption
    DEF IInv,
            deregister_callback, Goto
<1>1. TypeInv'
  BY Zenon DEF TypeInv, Pcs
<1>2. LockInv'
  BY SMT DEF LockInv, HasPredicate
<1>3. ResultInv'
  BY SMT DEF ResultInv, HasPredicate, stop_waiting
<1>4. StopInv'
  BY SMT DEF TypeInv, StopInv, Inside
<1>5. EntryInv'
  BY SMT DEF EntryInv, Entered
<1>6. WakeUpInv'
  BY SMT DEF WakeUpInv, WillTest
<1> QED
  BY <1>1, <1>2, <1>3, <1>4, <1>5, <1>6, Zenon

\* The wait is not counted any more when it has stopped using the object.
LEMMA exit_IInv ==
    ASSUME IInv, NEW w \in Waiters, exit(w)
    PROVE  IInv'
<1> USE ThreadsAssumption, MaxItemsAssumption
    DEF IInv, exit, Goto
<1>1. TypeInv'
  <2>1. w \in Entered
    BY Zenon DEF Entered
  <2>2. Cardinality(Entered) # 0
    BY <2>1, FiniteCounts, FS_EmptySet, Zenon
  <2> QED
    BY <2>2, SMT DEF TypeInv, Pcs, EntryInv
<1>2. LockInv'
  BY SMT DEF LockInv, HasPredicate
<1>3. ResultInv'
  BY SMT DEF ResultInv, HasPredicate, stop_waiting
<1>4. StopInv'
  BY SMT DEF StopInv, Inside
<1>5. EntryInv'
  <2>1. w \in Entered /\ Entered' = Entered \ {w}
    BY Zenon DEF TypeInv, Pcs, Entered
  <2>2. Cardinality(Entered)' = Cardinality(Entered) - 1
    BY <2>1, FiniteCounts, FS_RemoveElement, Zenon
  <2> QED
    BY <2>1, <2>2, Zenon DEF EntryInv
<1>6. WakeUpInv'
  BY SMT DEF WakeUpInv, WillTest
<1> QED
  BY <1>1, <1>2, <1>3, <1>4, <1>5, <1>6, Zenon

\* The waiter takes an item with it, if there is one.
LEMMA leave_IInv ==
    ASSUME IInv, NEW w \in Waiters, leave(w)
    PROVE  IInv'
<1> USE ThreadsAssumption, MaxItemsAssumption
    DEF IInv, leave, Goto
<1>1. TypeInv'
  BY SMT DEF TypeInv, Pcs, Kinds, HasPredicate, stop_waiting
<1>2. LockInv'
  BY Zenon DEF TypeInv, LockInv, HasPredicate
<1>3. ResultInv'
  BY Zenon DEF TypeInv, LockInv, ResultInv, HasPredicate, stop_waiting
<1>4. StopInv'
  BY SMT DEF StopInv, Inside
<1>5. EntryInv'
  <2>1. Entered' = Entered
    BY Zenon DEF TypeInv, Pcs, Entered
  <2> QED
    BY <2>1, Zenon DEF EntryInv
<1>6. WakeUpInv'
  <2>1. w \in WillTest /\ WillTest' = WillTest \ {w}
    BY Zenon DEF TypeInv, Pcs, WillTest
  <2>2. /\ Cardinality(WillTest') = Cardinality(WillTest) - 1
        /\ Cardinality(WillTest) # 0
    BY <2>1, FiniteCounts, FS_RemoveElement, FS_EmptySet, Zenon
  <2>3. (\E v \in Waiters : pc[v] \in {"sleep", "asleep"})'
           => \E v \in Waiters : pc[v] \in {"sleep", "asleep"}
    BY Zenon DEF TypeInv
  <2> QED
    BY <2>2, <2>3, FiniteCounts, SMT DEF TypeInv, WakeUpInv, stop_waiting
<1> QED
  BY <1>1, <1>2, <1>3, <1>4, <1>5, <1>6, Zenon

\* A deadline that passes only makes more results possible.
LEMMA time_passes_IInv ==
    ASSUME IInv, NEW w \in Waiters, time_passes(w)
    PROVE  IInv'
<1> USE ThreadsAssumption, MaxItemsAssumption
    DEF IInv, time_passes
<1>1. TypeInv'
  BY Zenon DEF TypeInv
<1>2. LockInv'
  BY Zenon DEF LockInv, HasPredicate
<1>3. ResultInv'
  BY SMT DEF ResultInv, HasPredicate, stop_waiting
<1>4. StopInv'
  BY Zenon DEF StopInv, Inside
<1>5. EntryInv'
  BY Zenon DEF EntryInv, Entered
<1>6. WakeUpInv'
  BY Zenon DEF WakeUpInv, WillTest
<1> QED
  BY <1>1, <1>2, <1>3, <1>4, <1>5, <1>6, Zenon

\* An item comes with a notification that is still due.
LEMMA produce_IInv ==
    ASSUME IInv, NEW p \in Producers, NEW keep \in BOOLEAN, produce(p, keep)
    PROVE  IInv'
<1> USE ThreadsAssumption, MaxItemsAssumption
    DEF IInv, produce
<1>1. TypeInv'
  BY SMT DEF TypeInv
<1>2. LockInv'
  BY Zenon DEF LockInv, HasPredicate
<1>3. ResultInv'
  BY Zenon DEF TypeInv, LockInv, ResultInv, HasPredicate, stop_waiting
<1>4. StopInv'
  BY Zenon DEF StopInv, Inside
<1>5. EntryInv'
  BY Zenon DEF EntryInv, Entered
<1>6. WakeUpInv'
  <2>1. WillTest' = WillTest
    BY Zenon DEF WillTest
  <2>2. Cardinality(notifying') = Cardinality(notifying) + 1
    BY FiniteCounts, FS_AddElement, Zenon
  <2> QED
    BY <2>1, <2>2, FiniteCounts, SMT DEF TypeInv, WakeUpInv
<1> QED
  BY <1>1, <1>2, <1>3, <1>4, <1>5, <1>6, Zenon

\* A notification that finds nobody asleep finds nobody about to sleep.
LEMMA notify_one_IInv ==
    ASSUME IInv, NEW p \in Producers, notify_one(p)
    PROVE  IInv'
<1> USE ThreadsAssumption, MaxItemsAssumption
    DEF IInv, notify_one, Awaken,
            Asleep, Release
<1>1. TypeInv'
  BY SMT DEF TypeInv, Pcs
<1>2. LockInv'
  BY SMT DEF LockInv, HasPredicate
<1>3. ResultInv'
  BY Zenon DEF ResultInv, HasPredicate, stop_waiting
<1>4. StopInv'
  BY Zenon DEF StopInv, Inside
<1>5. EntryInv'
  BY Zenon DEF EntryInv, Entered
<1>6. WakeUpInv'
  <2>1. Cardinality(notifying') = Cardinality(notifying) - 1
    BY FiniteCounts, FS_RemoveElement, Zenon
  <2>2. CASE \A v \in Waiters : pc[v] # "asleep"
    <3>1. \A v \in Waiters : pc'[v] \notin {"sleep", "asleep"}
      BY <2>2, Zenon DEF TypeInv, LockInv
    <3> QED
      BY <3>1, Zenon DEF WakeUpInv
  <2>3. CASE \E v \in Waiters : pc[v] = "asleep"
    <3>1. PICK v \in Waiters : pc[v] = "asleep" /\ pc' = Awaken({v})
      BY <2>3, Zenon
    <3>2. v \notin WillTest /\ WillTest' = WillTest \cup {v}
      BY <3>1, SMT DEF TypeInv, Pcs, WillTest
    <3>3. Cardinality(WillTest') = Cardinality(WillTest) + 1
      BY <3>2, FiniteCounts, FS_AddElement, Zenon
    <3> QED
      BY <2>1, <2>3, <3>3, FiniteCounts, SMT DEF TypeInv, WakeUpInv
  <2> QED
    BY <2>2, <2>3, Zenon
<1> QED
  BY <1>1, <1>2, <1>3, <1>4, <1>5, <1>6, Zenon

\* Whoever sleeps has its callback linked when the stop is requested.
LEMMA request_stop_IInv ==
    ASSUME IInv, NEW keep \in BOOLEAN, request_stop(keep)
    PROVE  IInv'
<1> USE ThreadsAssumption, MaxItemsAssumption
    DEF IInv, request_stop
<1>1. TypeInv'
  BY Zenon DEF TypeInv
<1>2. LockInv'
  BY Zenon DEF LockInv, HasPredicate
<1>3. ResultInv'
  BY Zenon DEF ResultInv, HasPredicate, stop_waiting
<1>4. StopInv'
  BY Zenon DEF StopInv, Inside
<1>5. EntryInv'
  BY Zenon DEF EntryInv, Entered
<1>6. WakeUpInv'
  BY Zenon DEF WakeUpInv, WillTest
<1> QED
  BY <1>1, <1>2, <1>3, <1>4, <1>5, <1>6, Zenon

\* The callback that is run is not linked any more.
LEMMA execute_IInv ==
    ASSUME IInv, NEW w \in Waiters, execute(w)
    PROVE  IInv'
<1> USE ThreadsAssumption, MaxItemsAssumption
    DEF IInv, execute
<1>1. TypeInv'
  BY Zenon DEF TypeInv
<1>2. LockInv'
  BY Zenon DEF LockInv, HasPredicate
<1>3. ResultInv'
  BY Zenon DEF ResultInv, HasPredicate, stop_waiting
<1>4. StopInv'
  BY Zenon DEF StopInv, Inside
<1>5. EntryInv'
  BY Zenon DEF EntryInv, Entered
<1>6. WakeUpInv'
  BY Zenon DEF WakeUpInv, WillTest
<1> QED
  BY <1>1, <1>2, <1>3, <1>4, <1>5, <1>6, Zenon

\* notify_all() has to wait for whoever is about to sleep.
LEMMA notify_all_IInv ==
    ASSUME IInv, notify_all
    PROVE  IInv'
<1> USE ThreadsAssumption, MaxItemsAssumption
    DEF IInv, notify_all, Awaken,
            Asleep
<1>1. TypeInv'
  BY Zenon DEF TypeInv, Pcs
<1>2. LockInv'
  BY Zenon DEF LockInv, HasPredicate
<1>3. ResultInv'
  BY Zenon DEF ResultInv, HasPredicate, stop_waiting
<1>4. StopInv'
  BY Zenon DEF TypeInv, Pcs, LockInv, StopInv, Inside
<1>5. EntryInv'
  BY Zenon DEF EntryInv, Entered
<1>6. WakeUpInv'
  <2>1. WillTest \subseteq WillTest'
    BY Zenon DEF TypeInv, Pcs, WillTest
  <2>2. (\E v \in Waiters : pc[v] \in {"sleep", "asleep"})'
           => \E v \in Waiters : pc[v] \in {"sleep", "asleep"}
    BY Zenon DEF TypeInv, Pcs
  <2> QED
    BY <1>1, <2>1, <2>2, MoreWillTest, Zenon
<1> QED
  BY <1>1, <1>2, <1>3, <1>4, <1>5, <1>6, Zenon

\* All callbacks have been run.
LEMMA request_stop_returns_IInv ==
    ASSUME IInv, request_stop_returns
    PROVE  IInv'
<1> USE ThreadsAssumption, MaxItemsAssumption
    DEF IInv,
            request_stop_returns, Release
<1>1. TypeInv'
  BY Zenon DEF TypeInv
<1>2. LockInv'
  BY Zenon DEF LockInv, HasPredicate
<1>3. ResultInv'
  BY Zenon DEF ResultInv, HasPredicate, stop_waiting
<1>4. StopInv'
  BY Zenon DEF StopInv, Inside
<1>5. EntryInv'
  BY Zenon DEF EntryInv, Entered
<1>6. WakeUpInv'
  BY Zenon DEF WakeUpInv, WillTest
<1> QED
  BY <1>1, <1>2, <1>3, <1>4, <1>5, <1>6, Zenon

\* The destructor begins.
LEMMA destroy_IInv ==
    ASSUME IInv, destroy
    PROVE  IInv'
<1> USE ThreadsAssumption, MaxItemsAssumption
    DEF IInv, destroy
<1>1. TypeInv'
  BY Zenon DEF TypeInv
<1>2. LockInv'
  BY Zenon DEF LockInv, HasPredicate
<1>3. ResultInv'
  BY Zenon DEF ResultInv, HasPredicate, stop_waiting
<1>4. StopInv'
  BY Zenon DEF StopInv, Inside
<1>5. EntryInv'
  BY Zenon DEF EntryInv, Entered
<1>6. WakeUpInv'
  BY Zenon DEF WakeUpInv, WillTest
<1> QED
  BY <1>1, <1>2, <1>3, <1>4, <1>5, <1>6, Zenon

\* The destructor returns when no wait is counted.
LEMMA destroyed_IInv ==
    ASSUME IInv, destroyed
    PROVE  IInv'
<1> USE ThreadsAssumption, MaxItemsAssumption
    DEF IInv, destroyed
<1>1. TypeInv'
  BY Zenon DEF TypeInv
<1>2. LockInv'
  BY Zenon DEF LockInv, HasPredicate
<1>3. ResultInv'
  BY Zenon DEF ResultInv, HasPredicate, stop_waiting
<1>4. StopInv'
  BY Zenon DEF StopInv, Inside
<1>5. EntryInv'
  <2>1. Entered = {} /\ Entered' = Entered
    BY FiniteCounts, FS_EmptySet, Zenon DEF EntryInv, Entered
  <2> QED
    BY <2>1, Zenon DEF EntryInv
<1>6. WakeUpInv'
  BY Zenon DEF WakeUpInv, WillTest
<1> QED
  BY <1>1, <1>2, <1>3, <1>4, <1>5, <1>6, Zenon

\* No step of a waiter, a producer, the stopper or the owner breaks the
\* invariant.
LEMMA NextIInv == IInv /\ [Next]_vars => IInv'
<1> SUFFICES ASSUME IInv, [Next]_vars PROVE IInv'
  BY Zenon
<1>1. ASSUME NEW w \in Waiters, Proceed(w)
      PROVE  IInv'
  BY <1>1, construct_callback_IInv, inline_notify_all_IInv, test_IInv,
     lock_internal_IInv, unlock_user_IInv, sleep_IInv, wake_IInv, unwind_IInv,
     relock_user_IInv, deregister_callback_IInv, exit_IInv, leave_IInv, Zenon
  DEF Proceed
<1>2. ASSUME NEW w \in Waiters,
             \/ \E k \in Kinds, late \in BOOLEAN : call(w, k, late)
             \/ wake_unnotified(w)
             \/ time_passes(w)
             \/ execute(w)
      PROVE  IInv'
  BY <1>2, call_IInv, wake_unnotified_IInv, time_passes_IInv, execute_IInv, Zenon
<1>3. ASSUME NEW p \in Producers,
             notify_one(p) \/ \E keep \in BOOLEAN : produce(p, keep)
      PROVE  IInv'
  BY <1>3, notify_one_IInv, produce_IInv, Zenon
<1>4. ASSUME \/ \E keep \in BOOLEAN : request_stop(keep)
             \/ notify_all \/ request_stop_returns
             \/ destroy \/ destroyed
      PROVE  IInv'
  BY <1>4, request_stop_IInv, notify_all_IInv, request_stop_returns_IInv,
     destroy_IInv, destroyed_IInv, Zenon
<1>5. CASE UNCHANGED vars
  <2> USE <1>5 DEF vars
  <2>1. TypeInv' /\ LockInv' /\ ResultInv'
    BY DEF IInv, TypeInv, LockInv, ResultInv, HasPredicate, stop_waiting
  <2>2. StopInv' /\ EntryInv' /\ WakeUpInv'
    BY Zenon DEF IInv, StopInv, Inside, EntryInv, Entered, WakeUpInv, WillTest
  <2> QED
    BY <2>1, <2>2, Zenon DEF IInv
<1> QED
  BY <1>1, <1>2, <1>3, <1>4, <1>5, Zenon DEF Next

\* The inductive invariant holds in every state the program reaches.
THEOREM Invariant == Spec => []IInv
  BY InitIInv, NextIInv, PTL DEF Spec

-----------------------------------------------------------------------------
\* Every variable has its type: entry_counter_, which ~DestructionGuard
\* decrements without a test, never wraps around.
THEOREM TypeCorrect == Spec => []TypeOK
<1>1. IInv => TypeOK
  <2> SUFFICES ASSUME IInv PROVE TypeOK
    BY Zenon
  <2>1. Entered \subseteq Waiters
    BY Zenon DEF Entered
  <2>2. /\ Cardinality(Waiters) \in Nat
        /\ Cardinality(Entered) <= Cardinality(Waiters)
    BY <2>1, ThreadsAssumption, FS_Subset, FS_CardinalityType, Zenon
  <2>3. entry_counter \in 0 .. Cardinality(Waiters)
    BY <2>2, SMT DEF IInv, TypeInv, EntryInv
  <2> QED
    BY <2>3, Zenon DEF IInv, TypeInv, TypeOK
<1> QED
  BY <1>1, Invariant, PTL

\* wait, notify_one and the callbacks of request_stop: while a waiter sleeps,
\* every item is matched by a waiter that will look or a producer that will
\* notify, and nobody sleeps on when request_stop has returned.
THEOREM NoWakeUpIsLost == Spec => []NoLostWakeUp
<1>1. IInv => NoLostWakeUp
  <2> SUFFICES ASSUME IInv, NEW w \in Waiters, pc[w] = "asleep"
               PROVE  /\ items <= Cardinality(WillTest) + Cardinality(notifying)
                      /\ stop_pc # "done"
    BY Zenon DEF NoLostWakeUp, Asleep
  <2>1. items <= Cardinality(WillTest) + Cardinality(notifying)
    BY Zenon DEF IInv, WakeUpInv
  <2>2. stop_pc # "done"
    BY ThreadsAssumption, Zenon DEF IInv, StopInv
  <2> QED
    BY <2>1, <2>2, Zenon
<1> QED
  BY <1>1, Invariant, PTL

\* wait and wait_until return with the lock, the predicate's present value, and
\* false only after a stop or the deadline.
THEOREM ResultsAreSound == Spec => []ResultSound
<1>1. IInv => ResultSound
  <2> SUFFICES ASSUME IInv, NEW w \in Waiters, pc[w] = "returned"
               PROVE  /\ user_lock = w
                      /\ HasPredicate(w) => result[w] = stop_waiting
                      /\ ~result[w] =>
                            \/ stop_requested
                            \/ kind[w] = "wait_until_pred" /\ expired[w]
    BY Zenon DEF ResultSound
  <2>1. user_lock = w
    BY Zenon DEF IInv, LockInv
  <2>2. /\ HasPredicate(w) => (result[w] <=> stop_waiting)
        /\ ~result[w] => \/ stop_requested
                         \/ kind[w] = "wait_until_pred" /\ expired[w]
    BY Zenon DEF IInv, ResultInv
  <2>3. result[w] \in BOOLEAN /\ stop_waiting \in BOOLEAN
    BY DEF IInv, TypeInv, stop_waiting
  <2> QED
    BY <2>1, <2>2, <2>3, Zenon
<1> QED
  BY <1>1, Invariant, PTL

\* The destructor, which waits for entry_counter_: no thread is inside a wait
\* and no callback runs when it has returned.
THEOREM NoUseAfterDestructor == Spec => []NoUseAfterDestruction
<1>1. IInv => NoUseAfterDestruction
  <2> SUFFICES ASSUME IInv, object = "destroyed"
               PROVE  /\ executing = NoThread
                      /\ \A w \in Waiters : pc[w] \in {"idle", "returned"}
    BY Zenon DEF NoUseAfterDestruction
  <2>1. \A w \in Waiters : pc[w] \in {"idle", "returned"}
    BY Zenon DEF IInv, EntryInv, Entered
  <2>2. executing = NoThread
    BY <2>1, Zenon DEF IInv, TypeInv, StopInv, Inside
  <2> QED
    BY <2>1, <2>2, Zenon
<1> QED
  BY <1>1, Invariant, PTL
=============================================================================
