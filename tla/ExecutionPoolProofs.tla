------------------------ MODULE ExecutionPoolProofs ------------------------
(***************************************************************************)
(* Proofs about ExecutionPool, for any number of workers, clients and      *)
(* tasks.                                                                  *)
(***************************************************************************)
EXTENDS ExecutionPool, FiniteSetTheorems, TLAPS

In(s, e) == \E j \in 1 .. Len(s) : s[j] = e
Distinct(s) == \A j, k \in 1 .. Len(s) : s[j] = s[k] => j = k

\* t has a task in push() that is in no queue yet.
Carries(t) == push[t] \in {"lock", "locked"}

Arrived(w) == pc[w] \in {"latch", "drain", "drain_try", "exited"}

Clearing == {"stop", "abort", "aborting", "notify"}

\* The type invariant, and that the loops are within their bounds.
QueueType ==
    /\ queue \in [Workers -> Seq(Tasks)]
    /\ mutex \in [Workers -> Pushers \cup {Destroyer, None}]
    /\ abort \subseteq Workers
WorkerType ==
    /\ pc \in [Workers -> Pcs]
    /\ i \in [Workers -> 0 .. WorkerCount]
    /\ task \in [Workers -> Tasks \cup {None}]
    /\ \A w \in Workers : pc[w] \in {"steal", "try"} => i[w] < WorkerCount
PushType ==
    /\ push_index \in Workers
    /\ push \in [Pushers -> {"idle", "lock", "locked", "notify"}]
    /\ target \in [Pushers -> Workers]
    /\ item \in [Pushers -> Tasks \cup {None}]
PoolType ==
    /\ stop \subseteq Workers /\ left \subseteq Workers
    /\ pool \in Clearing \cup {"alive", "count_down", "join", "destroyed"}
    /\ pool \in Clearing => left # {}
StateType ==
    state \in [Tasks -> {"new", "pending", "running", "done", "dropped"}]

\* Who has the mutex of a queue is in one of its critical sections.
MutexInv ==
    \A q \in Workers : mutex[q] # None =>
        \/ \E t \in Pushers : push[t] = "locked" /\ target[t] = q /\ mutex[q] = t
        \/ \E w \in Workers : pc[w] = "try" /\ Victim(w) = q /\ mutex[q] = w
        \/ pc[q] \in {"pop", "drain_try"} /\ mutex[q] = q
        \/ pool = "aborting" /\ First = q /\ mutex[q] = Destroyer

\* A worker pushes only while it executes a task; no client calls a pool that
\* is being destroyed.
PushersInv ==
    /\ \A w \in Workers : push[w] # "idle" => pc[w] = "body"
    /\ pool # "alive" => \A c \in Clients : push[c] = "idle"

\* The latch counts the workers that have not arrived and the destructor.
Coming == {w \in Workers : ~Arrived(w)}
LatchInv ==
    /\ count = Cardinality(Coming)
                 + (IF pool \in {"join", "destroyed"} THEN 0 ELSE 1)
    /\ done \in BOOLEAN /\ (done <=> count = 0)
    /\ \A w \in Workers : pc[w] \in {"drain", "drain_try", "exited"} => done

\* A worker leaves an empty queue.
LeftInv ==
    /\ \A w \in Workers : pc[w] = "exited" => queue[w] = <<>>
    /\ pool = "destroyed" => \A w \in Workers : pc[w] = "exited"

\* Where a task is, by its state.
PlaceInv ==
    /\ \A q \in Workers : Distinct(queue[q])
    /\ \A q \in Workers, k \in Tasks : In(queue[q], k) =>
          /\ state[k] = "pending"
          /\ \A p \in Workers : In(queue[p], k) => p = q
          /\ \A t \in Pushers : Carries(t) => item[t] # k
    /\ \A t \in Pushers : Carries(t) =>
          /\ item[t] \in Tasks /\ state[item[t]] = "pending"
          /\ \A u \in Pushers : Carries(u) /\ item[u] = item[t] => u = t
    /\ \A w \in Workers : pc[w] = "body" =>
          /\ task[w] \in Tasks /\ state[task[w]] = "running"
          /\ \A v \in Workers : pc[v] = "body" /\ task[v] = task[w] => v = w

\* A task that was pushed and is not over is somewhere.
KeptInv ==
    \A k \in Tasks :
        /\ state[k] = "pending" =>
              \/ \E q \in Workers : In(queue[q], k)
              \/ \E t \in Pushers : Carries(t) /\ item[t] = k
        /\ state[k] = "running" =>
              \E w \in Workers : pc[w] = "body" /\ task[w] = k

\* The inductive invariant.
IInv ==
    /\ QueueType /\ WorkerType /\ PushType /\ PoolType /\ StateType
    /\ NoLostWakeUp
    /\ MutexInv /\ PushersInv /\ LatchInv /\ LeftInv
    /\ PlaceInv /\ KeptInv

-----------------------------------------------------------------------------
\* A set of natural numbers that is not empty has a least element.
LEMMA NatMin ==
    ASSUME NEW S \in SUBSET Nat, S # {}
    PROVE  \E m \in S : \A n \in S : m <= n
<1> DEFINE R == OpToRel(<, Nat)
<1>1. PICK m \in S : \A n \in S : <<n, m>> \notin R
  <2>1. IsWellFoundedOn(R, Nat)
    BY NatLessThanWellFounded, Zenon
  <2> HIDE DEF R
  <2> QED
    BY <2>1, WFMin, Zenon
<1>2. ASSUME NEW n \in S PROVE m <= n
  <2>1. <<n, m>> \in Nat \X Nat /\ <<n, m>>[1] = n /\ <<n, m>>[2] = m
    BY Zenon
  <2>2. ~(n < m)
    BY <1>1, <2>1, Zenon DEF OpToRel
  <2> QED
    BY <2>2
<1> QED
  BY <1>2, Zenon

\* What the destructor deals with next is among what is left.
LEMMA FirstInLeft ==
    ASSUME left \subseteq Workers, left # {}
    PROVE  First \in left
<1>1. left \subseteq Nat
  BY CountsAssumption DEF Workers
<1>2. PICK m \in left : \A v \in left : m <= v
  BY <1>1, NatMin, Zenon
<1> QED
  BY <1>2, Zenon DEF First

\* The destructor's loop is where it was while left is.
LEMMA FirstUnchanged ==
    ASSUME UNCHANGED left
    PROVE  First' = First
<1> DEFINE FirstOf(S) == CHOOSE w \in S : \A v \in S : w <= v
<1>1. First = FirstOf(left) /\ First' = FirstOf(left')
  BY Zenon DEF First
<1> HIDE DEF FirstOf
<1> QED
  BY <1>1, Zenon

\* Tail removes the head, of which a sequence without repetition has only one.
LEMMA TailIn ==
    ASSUME NEW S, NEW s \in Seq(S), s # <<>>, Distinct(s)
    PROVE  /\ Head(s) \in S /\ Tail(s) \in Seq(S)
           /\ Distinct(Tail(s))
           /\ In(s, Head(s))
           /\ \A e : In(Tail(s), e) <=> In(s, e) /\ e # Head(s)
<1>1. /\ Head(s) \in S /\ Tail(s) \in Seq(S)
      /\ Head(s) = s[1] /\ Len(s) \in Nat \ {0}
      /\ Len(Tail(s)) = Len(s) - 1
      /\ \A j \in 1 .. Len(s) - 1 : Tail(s)[j] = s[j + 1]
  OBVIOUS
<1>2. \A j \in 1 .. Len(s) - 1 : j + 1 \in 1 .. Len(s) /\ j + 1 # 1
  BY <1>1
<1>3. \A j \in 1 .. Len(s) : j # 1 => j - 1 \in 1 .. Len(s) - 1 /\ (j - 1) + 1 = j
  BY <1>1
<1>4. Distinct(Tail(s))
  BY <1>1, <1>2 DEF Distinct
<1>5. 1 \in 1 .. Len(s)
  BY <1>1
<1>6. ASSUME NEW e, In(Tail(s), e) PROVE In(s, e) /\ e # Head(s)
  BY <1>1, <1>2, <1>5, <1>6, ZenonT(40) DEF In, Distinct
<1>7. ASSUME NEW e, In(s, e), e # Head(s) PROVE In(Tail(s), e)
  <2>1. PICK j \in 1 .. Len(s) : s[j] = e
    BY <1>7, Zenon DEF In
  <2>2. j # 1
    BY <1>1, <1>7, <2>1, Zenon
  <2>3. j - 1 \in 1 .. Len(Tail(s)) /\ Tail(s)[j - 1] = e
    BY <1>1, <1>3, <2>1, <2>2, Zenon
  <2> QED
    BY <2>3, Zenon DEF In
<1> QED
  BY <1>1, <1>4, <1>5, <1>6, <1>7, Zenon DEF In

\* Appending an element that a sequence does not have.
LEMMA AppendIn ==
    ASSUME NEW S, NEW s \in Seq(S), NEW e \in S, Distinct(s), ~In(s, e)
    PROVE  /\ Append(s, e) \in Seq(S) /\ Append(s, e) # <<>>
           /\ Distinct(Append(s, e))
           /\ \A x : In(Append(s, e), x) <=> In(s, x) \/ x = e
<1> DEFINE r == Append(s, e)
<1>1. /\ r \in Seq(S) /\ r # <<>>
      /\ Len(s) \in Nat /\ Len(r) = Len(s) + 1
      /\ \A j \in 1 .. Len(s) : r[j] = s[j]
      /\ r[Len(s) + 1] = e
  OBVIOUS
<1> HIDE DEF r
<1>2. /\ \A j \in 1 .. Len(r) : j \in 1 .. Len(s) \/ j = Len(s) + 1
      /\ \A j \in 1 .. Len(s) : j \in 1 .. Len(r)
      /\ Len(s) + 1 \in 1 .. Len(r)
  BY <1>1
<1>3. Distinct(r)
  BY <1>1, <1>2, Zenon DEF Distinct, In
<1>4. \A x : In(r, x) <=> In(s, x) \/ x = e
  BY <1>1, <1>2, Zenon DEF In
<1> QED
  BY <1>1, <1>3, <1>4, Zenon DEF r

\* The workers are finitely many.
LEMMA ComingFinite == IsFiniteSet(Coming) /\ Cardinality(Coming) \in Nat
<1>1. IsFiniteSet(Workers)
  BY FS_Interval, CountsAssumption DEF Workers
<1>2. IsFiniteSet(Coming)
  BY <1>1, FS_Subset, Zenon DEF Coming
<1> QED
  BY <1>2, FS_CardinalityType, Zenon

\* When nobody arrives and nobody passes the latch.
LEMMA LatchSame ==
    ASSUME LatchInv, UNCHANGED latch_vars,
           \A w \in Workers : Arrived(w)' <=> Arrived(w),
           \A w \in Workers : pc'[w] \in {"drain", "drain_try", "exited"} =>
                pc[w] \in {"drain", "drain_try", "exited"},
           pool \in {"join", "destroyed"} <=> pool' \in {"join", "destroyed"}
    PROVE  LatchInv'
<1>1. Coming' = Coming
  BY Zenon DEF Coming
<1>2. UNCHANGED <<count, done>>
  BY Zenon DEF latch_vars
<1>3. (IF pool \in {"join", "destroyed"} THEN 0 ELSE 1)
         = (IF pool' \in {"join", "destroyed"} THEN 0 ELSE 1)
  BY Zenon
<1> HIDE DEF Coming
<1>4. count' = Cardinality(Coming')
                 + (IF pool' \in {"join", "destroyed"} THEN 0 ELSE 1)
  BY <1>1, <1>2, <1>3, Zenon DEF LatchInv
<1> QED
  BY <1>2, <1>4, Zenon DEF LatchInv

\* When no task moves.
LEMMA PlaceSame ==
    ASSUME PlaceInv, KeptInv, UNCHANGED <<queue, item, task, state>>,
           \A t \in Pushers : Carries(t)' <=> Carries(t),
           \A w \in Workers : pc'[w] = "body" <=> pc[w] = "body"
    PROVE  PlaceInv' /\ KeptInv'
<1>1. PlaceInv'
  BY DEF PlaceInv
<1>2. KeptInv'
  BY Zenon DEF KeptInv
<1> QED
  BY <1>1, <1>2, Zenon

\* Threads are not mistaken for each other.
LEMMA Names ==
    /\ 0 \in Workers /\ 0 \in 0 .. WorkerCount /\ Workers \subseteq Nat
    /\ Workers \subseteq Pushers /\ Clients \subseteq Pushers
    /\ \A c \in Clients : c \notin Workers
    /\ None \notin Pushers /\ Destroyer \notin Pushers /\ None # Destroyer
    /\ None \notin Tasks
<1>1. Workers \subseteq Nat /\ Tasks \subseteq Nat
  BY CountsAssumption DEF Workers, Tasks
<1>2. 0 \in Workers /\ 0 \in 0 .. WorkerCount
  BY CountsAssumption DEF Workers
<1>3. \A c \in Clients : c \notin Workers
  BY ThreadsDistinct, Zenon DEF Workers
<1> QED
  BY <1>1, <1>2, <1>3, ThreadsDistinct, Zenon DEF Pushers

\* A worker counts modulo the number of queues.
LEMMA Modulo ==
    ASSUME NEW n \in Nat
    PROVE  n % WorkerCount \in Workers
BY CountsAssumption DEF Workers

\* try_to_pop is called for a queue of the pool.
LEMMA VictimIsWorker ==
    ASSUME WorkerType, NEW w \in Workers
    PROVE  Victim(w) \in Workers
<1>1. w + i[w] \in Nat
  BY Names, CountsAssumption DEF WorkerType
<1> QED
  BY <1>1, Modulo, Zenon DEF Victim

\* What a notification of the worker of q does.
LEMMA Notified ==
    ASSUME WorkerType, NEW q \in Workers, Notify(q)
    PROVE  /\ pc' \in [Workers -> Pcs]
           /\ \A w \in Workers :
                 pc'[w] = IF w = q /\ pc[q] = "asleep" THEN "block" ELSE pc[w]
BY Zenon DEF Notify, WorkerType, Pcs

\* Whoever passes the latch is alone with what is left.
LEMMA Latched ==
    ASSUME IInv, done
    PROVE  /\ \A w \in Workers : Arrived(w)
           /\ pool \in {"join", "destroyed"}
           /\ \A t \in Pushers : push[t] = "idle"
<1>1. Cardinality(Coming) = 0 /\ pool \in {"join", "destroyed"}
  BY ComingFinite, SMT DEF IInv, LatchInv
<1>2. Coming = {}
  BY <1>1, ComingFinite, FS_EmptySet, Zenon
<1>3. \A w \in Workers : Arrived(w)
  BY <1>2, Zenon DEF Coming
<1>4. \A w \in Workers : push[w] = "idle"
  BY <1>3, Zenon DEF IInv, PushersInv, Arrived
<1>5. \A c \in Clients : push[c] = "idle"
  BY <1>1, Zenon DEF IInv, PushersInv
<1> QED
  BY <1>1, <1>3, <1>4, <1>5, Zenon DEF Pushers

\* The mutex of its queue is free for a worker that has passed the latch.
LEMMA MutexOfDrained ==
    ASSUME IInv, NEW w \in Workers, pc[w] \in {"drain", "drain_try", "exited"}
    PROVE  mutex[w] = None \/ (mutex[w] = w /\ pc[w] = "drain_try")
<1>1. done
  BY Zenon DEF IInv, LatchInv
<1>2. /\ \A v \in Workers : Arrived(v)
      /\ pool \in {"join", "destroyed"}
      /\ \A t \in Pushers : push[t] = "idle"
  BY <1>1, Latched, Zenon
<1> QED
  BY <1>2, Zenon DEF IInv, MutexInv, Arrived

\* What taking the head of a queue does to all of them.
LEMMA Taken ==
    ASSUME QueueType, PlaceInv, NEW q \in Workers, queue[q] # <<>>,
           queue' = [queue EXCEPT ![q] = Tail(@)],
           NEW k, k = Head(queue[q])
    PROVE  /\ k \in Tasks /\ In(queue[q], k) /\ state[k] = "pending"
           /\ queue' \in [Workers -> Seq(Tasks)]
           /\ \A p \in Workers : p # q => queue'[p] = queue[p]
           /\ \A p \in Workers : Distinct(queue'[p])
           /\ \A p \in Workers, j \in Tasks :
                 In(queue'[p], j) <=> In(queue[p], j) /\ j # k
<1>1. queue[q] \in Seq(Tasks) /\ Distinct(queue[q])
  BY Zenon DEF QueueType, PlaceInv
<1>2. /\ k \in Tasks /\ Tail(queue[q]) \in Seq(Tasks)
      /\ Distinct(Tail(queue[q])) /\ In(queue[q], k)
      /\ \A j : In(Tail(queue[q]), j) <=> In(queue[q], j) /\ j # k
  BY <1>1, TailIn, Zenon
<1>3. /\ queue' \in [Workers -> Seq(Tasks)]
      /\ queue'[q] = Tail(queue[q])
      /\ \A p \in Workers : p # q => queue'[p] = queue[p]
  BY <1>2, Zenon DEF QueueType
<1>4. state[k] = "pending" /\ \A p \in Workers : In(queue[p], k) => p = q
  BY <1>2, Zenon DEF PlaceInv
<1>5. \A p \in Workers : Distinct(queue'[p])
  BY <1>2, <1>3, Zenon DEF PlaceInv
<1>6. ASSUME NEW p \in Workers, NEW j \in Tasks
      PROVE  In(queue'[p], j) <=> In(queue[p], j) /\ j # k
  BY <1>2, <1>3, <1>4, Zenon
<1> QED
  BY <1>2, <1>3, <1>4, <1>5, <1>6, Zenon

\* A task that a worker takes is where it runs, and nowhere else.
LEMMA StartPlace ==
    ASSUME IInv, NEW w \in Workers, pc[w] # "body",
           NEW q \in Workers, queue[q] # <<>>,
           queue' = [queue EXCEPT ![q] = Tail(@)],
           start(w, Head(queue[q])), UNCHANGED push_vars
    PROVE  PlaceInv' /\ KeptInv'
<1>k. PICK k : k = Head(queue[q])
  BY Zenon
<1>1. /\ k \in Tasks /\ In(queue[q], k) /\ state[k] = "pending"
      /\ \A p \in Workers : Distinct(queue'[p])
      /\ \A p \in Workers, j \in Tasks :
            In(queue'[p], j) <=> In(queue[p], j) /\ j # k
  <2>1. QueueType /\ PlaceInv
    BY Zenon DEF IInv
  <2> QED
    BY <1>k, <2>1, Taken, ZenonT(60)
<1>2. /\ \A v \in Workers : pc'[v] = "body" <=> pc[v] = "body" \/ v = w
      /\ \A v \in Workers : task'[v] = IF v = w THEN k ELSE task[v]
      /\ \A j \in Tasks : state'[j] = IF j = k THEN "running" ELSE state[j]
  BY <1>k, Zenon DEF start, Goto, IInv, WorkerType, StateType
<1>3. UNCHANGED item /\ \A t : Carries(t)' <=> Carries(t)
  BY Zenon DEF push_vars, Carries
<1>4. \A t \in Pushers : Carries(t) => item[t] # k
  BY <1>1, Zenon DEF IInv, PlaceInv
<1>5. PlaceInv'
  BY <1>1, <1>2, <1>3, <1>4, SMT DEF IInv, PlaceInv
<1>6. KeptInv'
  BY <1>1, <1>2, <1>3, <1>4, SMT DEF IInv, KeptInv
<1> QED
  BY <1>5, <1>6, Zenon


\* A mutex that is released keeps its type.
LEMMA Unlocked ==
    ASSUME QueueType, NEW q \in Workers, Unlock(q)
    PROVE  mutex' \in [Workers -> Pushers \cup {Destroyer, None}]
<1> DEFINE S == Pushers \cup {Destroyer, None}
<1>1. None \in S /\ mutex \in [Workers -> S]
  BY Zenon DEF QueueType
<1>2. mutex' = [mutex EXCEPT ![q] = None]
  BY Zenon DEF Unlock
<1> HIDE DEF S
<1>3. mutex' \in [Workers -> S]
  BY <1>1, <1>2, Zenon
<1> QED
  BY <1>3, Zenon DEF S

\* A worker that moves between two points outside its task's body.
LEMMA StaysOutside ==
    ASSUME WorkerType, NEW w \in Workers, pc[w] # "body",
           NEW s, s # "body", Goto(w, s)
    PROVE  \A v \in Workers : pc'[v] = "body" <=> pc[v] = "body"
BY Zenon DEF WorkerType, Goto
\* The pool starts empty, and nobody is in it.
LEMMA InitIInv == Init => IInv
<1> SUFFICES ASSUME Init PROVE IInv
  BY Zenon
<1> USE DEF Init
<1>1. 0 \in Workers /\ 0 \in 0 .. WorkerCount /\ <<>> \in Seq(Tasks)
  BY CountsAssumption DEF Workers
<1>2. QueueType /\ PushType
  BY <1>1, Zenon DEF QueueType, PushType
<1>9. WorkerType
  BY <1>1, Zenon DEF WorkerType, Pcs
<1>10. PoolType /\ StateType
  BY Zenon DEF PoolType, StateType, Clearing
<1>3. NoLostWakeUp
  BY Zenon DEF NoLostWakeUp
<1>4. MutexInv
  BY Zenon DEF MutexInv
<1>5. PushersInv
  BY Zenon DEF PushersInv, Pushers
<1>6. LatchInv
  <2>1. Coming = Workers
    BY Zenon DEF Coming, Arrived
  <2>2. Cardinality(0 .. WorkerCount - 1) = WorkerCount
    BY FS_Interval, CountsAssumption
  <2>3. count = Cardinality(Coming) + 1
    BY <2>1, <2>2, Zenon DEF Workers
  <2>4. count # 0 /\ ~done
    BY CountsAssumption
  <2> HIDE DEF Coming
  <2>5. pool \notin {"join", "destroyed"}
    BY Zenon
  <2>6. \A w \in Workers : pc[w] \notin {"drain", "drain_try", "exited"}
    BY Zenon
  <2> QED
    BY <2>3, <2>4, <2>5, <2>6, Zenon DEF LatchInv
<1>7. LeftInv
  BY Zenon DEF LeftInv
<1>8. PlaceInv /\ KeptInv
  <2>1. \A k : ~In(<<>>, k)
    BY DEF In
  <2>2. Distinct(<<>>)
    BY DEF Distinct
  <2>3. /\ \A q \in Workers : queue[q] = <<>>
        /\ \A t \in Pushers : ~Carries(t)
        /\ \A w \in Workers : pc[w] # "body"
        /\ \A k \in Tasks : state[k] = "new"
    BY Zenon DEF Carries
  <2> QED
    BY <2>1, <2>2, <2>3, Zenon DEF PlaceInv, KeptInv
<1> QED
  BY <1>2, <1>3, <1>4, <1>5, <1>6, <1>7, <1>8, <1>9, <1>10, Zenon DEF IInv

\* A task is pushed that was in no queue before.
LEMMA choose_queue_IInv ==
    ASSUME IInv, NEW t \in Pushers, NEW k \in Tasks, choose_queue(t, k)
    PROVE  IInv'
<1> USE DEF IInv, choose_queue, InUserCode, queue_vars, latch_vars,
            worker_vars, push_vars, pool_vars
<1>f. First' = First
  BY FirstUnchanged, Zenon
<1>1. QueueType'
  BY Zenon DEF QueueType
<1>2. WorkerType'
  BY Zenon DEF WorkerType
<1>3. PushType'
  <2>1. push_index + 1 \in Nat
    BY Names, SMT DEF PushType
  <2>2. push_index' \in Workers
    BY <2>1, Modulo, Zenon
  <2> QED
    BY <2>2, Zenon DEF PushType
<1>4. (PoolType /\ StateType)'
  BY Zenon DEF PoolType, StateType
<1>5. NoLostWakeUp'
  BY <1>f, Zenon DEF NoLostWakeUp, WorkerType, PushType, QueueType
<1>6. MutexInv'
  BY <1>f, SMT DEF MutexInv, Victim
<1>7. PushersInv'
  BY Names, Zenon DEF PushersInv, PushType
<1>8. LatchInv'
  BY LatchSame, Zenon DEF Arrived, WorkerType
<1>9. LeftInv'
  BY Zenon DEF LeftInv
<1>10. (PlaceInv /\ KeptInv)'
  <2>1. /\ \A u \in Pushers : Carries(u)' <=> Carries(u) \/ u = t
        /\ \A u \in Pushers : item'[u] = IF u = t THEN k ELSE item[u]
        /\ \A j \in Tasks : state'[j] = IF j = k THEN "pending" ELSE state[j]
        /\ ~Carries(t)
    BY Zenon DEF Carries, PushType, StateType
  <2>2. PlaceInv'
    BY <2>1, SMT DEF PlaceInv
  <2>3. KeptInv'
    BY <2>1, SMT DEF KeptInv
  <2> QED
    BY <2>2, <2>3, Zenon
<1> QED
  BY <1>1, <1>2, <1>3, <1>4, <1>5, <1>6, <1>7, <1>8, <1>9, <1>10, Zenon

\* push() takes the mutex of the queue it has chosen.
LEMMA push_lock_IInv ==
    ASSUME IInv, NEW t \in Pushers, push_lock(t)
    PROVE  IInv'
<1> USE DEF IInv, push_lock, Lock, queue_vars, latch_vars, worker_vars,
            push_vars, pool_vars
<1>f. First' = First
  BY FirstUnchanged, Zenon
<1>1. QueueType'
  BY Zenon DEF QueueType
<1>2. WorkerType'
  BY Zenon DEF WorkerType
<1>3. PushType'
  BY Zenon DEF PushType
<1>4. (PoolType /\ StateType)'
  BY Zenon DEF PoolType, StateType
<1>5. NoLostWakeUp'
  BY <1>f, Zenon DEF NoLostWakeUp, WorkerType, PushType, QueueType
<1>6. MutexInv'
  BY <1>f, Zenon DEF MutexInv, Victim, WorkerType, PushType, QueueType
<1>7. PushersInv'
  BY SMT DEF PushersInv, WorkerType, PushType
<1>8. LatchInv'
  BY LatchSame, Zenon DEF Arrived, WorkerType
<1>9. LeftInv'
  BY Zenon DEF LeftInv
<1>10. (PlaceInv /\ KeptInv)'
  BY PlaceSame, Zenon DEF Carries, WorkerType, PushType
<1> QED
  BY <1>1, <1>2, <1>3, <1>4, <1>5, <1>6, <1>7, <1>8, <1>9, <1>10, Zenon

\* The task that is carried is in the queue, and its worker is owed a
\* notification if the queue was empty.
LEMMA push_back_IInv ==
    ASSUME IInv, NEW t \in Pushers, push_back(t)
    PROVE  IInv'
<1> USE DEF IInv, push_back, Unlock, queue_vars, latch_vars, worker_vars,
            push_vars, pool_vars
<1>f. First' = First
  BY FirstUnchanged, Zenon
<1>q. target[t] \in Workers /\ item[t] \in Tasks /\ state[item[t]] = "pending"
  BY Zenon DEF PushType, PlaceInv, Carries
<1>i. ~In(queue[target[t]], item[t]) /\ Distinct(queue[target[t]])
  BY <1>q, Zenon DEF PlaceInv, Carries
<1>a. /\ Append(queue[target[t]], item[t]) \in Seq(Tasks)
      /\ Append(queue[target[t]], item[t]) # <<>>
      /\ Distinct(Append(queue[target[t]], item[t]))
      /\ \A k : In(Append(queue[target[t]], item[t]), k)
                <=> In(queue[target[t]], k) \/ k = item[t]
  <2>1. queue[target[t]] \in Seq(Tasks)
    BY <1>q, Zenon DEF QueueType
  <2> QED
    BY <1>q, <1>i, <2>1, AppendIn
<1>b. /\ queue'[target[t]] = Append(queue[target[t]], item[t])
      /\ \A p \in Workers : p # target[t] => queue'[p] = queue[p]
  BY <1>q, Zenon DEF QueueType
<1>1. QueueType'
  <2>1. queue' \in [Workers -> Seq(Tasks)]
    BY <1>q, <1>a, Zenon DEF QueueType
  <2>2. mutex' \in [Workers -> Pushers \cup {Destroyer, None}]
    BY <1>q, Unlocked, Zenon
  <2> QED
    BY <2>1, <2>2, Zenon DEF QueueType
<1>2. WorkerType'
  BY Zenon DEF WorkerType
<1>3. PushType'
  BY <1>q, Names, Zenon DEF PushType
<1>4. (PoolType /\ StateType)'
  BY Zenon DEF PoolType, StateType
<1>5. NoLostWakeUp'
  BY <1>f, SMT DEF NoLostWakeUp, WorkerType, PushType, QueueType
<1>6. MutexInv'
  BY <1>f, Zenon DEF MutexInv, Victim, WorkerType, PushType, QueueType
<1>7. PushersInv'
  BY SMT DEF PushersInv, WorkerType, PushType
<1>8. LatchInv'
  BY LatchSame, Zenon DEF Arrived, WorkerType
<1>9. LeftInv'
  <2>1. \A w \in Workers : pc[w] # "exited"
    BY Latched, Zenon DEF LatchInv
  <2>2. pool # "destroyed"
    BY <1>q, <2>1, Zenon DEF LeftInv
  <2> QED
    BY <2>1, <2>2, Zenon DEF LeftInv
<1>10. (PlaceInv /\ KeptInv)'
  <2>1. /\ \A u \in Pushers : Carries(u)' <=> Carries(u) /\ u # t
        /\ \A u \in Pushers : u # t => item'[u] = item[u]
        /\ Carries(t)
    BY Zenon DEF Carries, PushType
  <2>2. /\ \A p \in Workers : Distinct(queue'[p])
        /\ \A p \in Workers, k \in Tasks : In(queue'[p], k) <=>
              In(queue[p], k) \/ (p = target[t] /\ k = item[t])
    <3>1. \A p \in Workers : p # target[t] => Distinct(queue'[p])
      BY <1>b, Zenon DEF PlaceInv
    <3>2. Distinct(queue'[target[t]])
      BY <1>a, <1>b, Zenon
    <3>3. \A k : In(queue'[target[t]], k)
                  <=> In(queue[target[t]], k) \/ k = item[t]
      BY <1>a, <1>b, Zenon
    <3>4. \A p \in Workers, k \in Tasks : p # target[t] =>
             (In(queue'[p], k) <=> In(queue[p], k))
      BY <1>b, Zenon
    <3> QED
      BY <3>1, <3>2, <3>3, <3>4, Zenon
  <2>3. PlaceInv'
    BY <1>q, <2>1, <2>2, SMT DEF PlaceInv
  <2>4. KeptInv'
    BY <1>q, <2>1, <2>2, SMT DEF KeptInv
  <2> QED
    BY <2>3, <2>4, Zenon
<1> QED
  BY <1>1, <1>2, <1>3, <1>4, <1>5, <1>6, <1>7, <1>8, <1>9, <1>10, Zenon

\* The worker that is notified does not sleep any more.
LEMMA push_notify_IInv ==
    ASSUME IInv, NEW t \in Pushers, push_notify(t)
    PROVE  IInv'
<1> USE DEF IInv, push_notify, Notify, queue_vars, latch_vars, worker_vars,
            push_vars, pool_vars
<1>f. First' = First
  BY FirstUnchanged, Zenon
<1>n. /\ target[t] \in Workers
      /\ pc' \in [Workers -> Pcs]
      /\ \A w \in Workers : pc'[w] =
            IF w = target[t] /\ pc[target[t]] = "asleep" THEN "block" ELSE pc[w]
  <2>1. target[t] \in Workers
    BY Zenon DEF PushType
  <2>2. Notify(target[t])
    BY Zenon
  <2> QED
    BY <2>1, <2>2, Notified, Zenon
<1>1. QueueType'
  BY Zenon DEF QueueType
<1>2. WorkerType'
  BY <1>n, Zenon DEF WorkerType
<1>3. PushType'
  BY Names, Zenon DEF PushType
<1>4. (PoolType /\ StateType)'
  BY Zenon DEF PoolType, StateType
<1>5. NoLostWakeUp'
  BY <1>f, Zenon DEF NoLostWakeUp, WorkerType, PushType, QueueType
<1>6. MutexInv'
  BY <1>f, SMT DEF MutexInv, Victim
<1>7. PushersInv'
  BY SMT DEF PushersInv, WorkerType, PushType
<1>8. LatchInv'
  BY LatchSame, Zenon DEF Arrived, WorkerType
<1>9. LeftInv'
  BY Zenon DEF LeftInv, WorkerType, QueueType
<1>10. (PlaceInv /\ KeptInv)'
  BY PlaceSame, Zenon DEF Carries, WorkerType, PushType
<1> QED
  BY <1>1, <1>2, <1>3, <1>4, <1>5, <1>6, <1>7, <1>8, <1>9, <1>10, Zenon

\* A worker that was asked to stop leaves its loop.
LEMMA loop_IInv ==
    ASSUME IInv, NEW w \in Workers, loop(w)
    PROVE  IInv'
<1> USE DEF IInv, loop, Goto, queue_vars, latch_vars, worker_vars, push_vars,
            pool_vars
<1>f. First' = First
  BY FirstUnchanged, Zenon
<1>1. QueueType'
  BY Zenon DEF QueueType
<1>2. WorkerType'
  BY CountsAssumption, SMT DEF WorkerType, Pcs
<1>3. PushType'
  BY Zenon DEF PushType
<1>4. (PoolType /\ StateType)'
  BY Zenon DEF PoolType, StateType
<1>5. NoLostWakeUp'
  BY <1>f, Zenon DEF NoLostWakeUp, WorkerType, PushType, QueueType
<1>6. MutexInv'
  BY <1>f, SMT DEF MutexInv, Victim
<1>7. PushersInv'
  BY Zenon DEF PushersInv, WorkerType, PushType
<1>8. LatchInv'
  BY LatchSame, Zenon DEF Arrived, WorkerType
<1>9. LeftInv'
  BY Zenon DEF LeftInv, WorkerType, QueueType
<1>10. (PlaceInv /\ KeptInv)'
  BY PlaceSame, Zenon DEF Carries, WorkerType, PushType
<1> QED
  BY <1>1, <1>2, <1>3, <1>4, <1>5, <1>6, <1>7, <1>8, <1>9, <1>10, Zenon

\* A worker tries the mutex of one queue.
LEMMA try_to_pop_IInv ==
    ASSUME IInv, NEW w \in Workers, try_to_pop(w)
    PROVE  IInv'
<1> USE DEF IInv, try_to_pop, Goto, Lock, TryNext, queue_vars, latch_vars,
            worker_vars, push_vars, pool_vars
<1>f. First' = First
  BY FirstUnchanged, Zenon
<1>1. QueueType'
  <2>1. UNCHANGED mutex \/ mutex' = [mutex EXCEPT ![Victim(w)] = w]
    BY Zenon
  <2> QED
    BY <2>1, Names, Zenon DEF QueueType
<1>2. WorkerType'
  BY CountsAssumption, SMT DEF WorkerType, Pcs
<1>3. PushType'
  BY Zenon DEF PushType
<1>4. (PoolType /\ StateType)'
  BY Zenon DEF PoolType, StateType
<1>5. NoLostWakeUp'
  BY <1>f, SMT DEF NoLostWakeUp, WorkerType, PushType, QueueType
<1>6. MutexInv'
  <2>1. CASE UNCHANGED mutex
    <3>1. \A v \in Workers : v # w => pc'[v] = pc[v] /\ i'[v] = i[v]
      BY Zenon DEF WorkerType
    <3>2. pc[w] \notin {"try", "pop", "drain_try"}
      BY Zenon
    <3> QED
      BY <1>f, <2>1, <3>1, <3>2, SMT DEF MutexInv, Victim
  <2>2. CASE mutex' = [mutex EXCEPT ![Victim(w)] = w] /\ Goto(w, "try")
             /\ UNCHANGED i
    <3>1. Victim(w) \in Workers /\ \A v : Victim(v)' = Victim(v)
      BY <2>2, VictimIsWorker, Zenon DEF Victim
    <3>2. /\ \A v \in Workers : v # w => pc'[v] = pc[v]
          /\ pc'[w] = "try" /\ mutex'[Victim(w)] = w
          /\ \A q \in Workers : q # Victim(w) => mutex'[q] = mutex[q]
      BY <2>2, <3>1, Zenon DEF WorkerType, QueueType
    <3> QED
      BY <1>f, <3>1, <3>2, SMT DEF MutexInv
  <2> QED
    BY <2>1, <2>2, Zenon
<1>7. PushersInv'
  BY Zenon DEF PushersInv, WorkerType, PushType
<1>8. LatchInv'
  BY LatchSame, Zenon DEF Arrived, WorkerType
<1>9. LeftInv'
  BY Zenon DEF LeftInv, WorkerType, QueueType
<1>10. (PlaceInv /\ KeptInv)'
  BY PlaceSame, Zenon DEF Carries, WorkerType, PushType
<1> QED
  BY <1>1, <1>2, <1>3, <1>4, <1>5, <1>6, <1>7, <1>8, <1>9, <1>10, Zenon

\* A worker takes a task from its own or from another queue.
LEMMA try_to_pop_locked_IInv ==
    ASSUME IInv, NEW w \in Workers, try_to_pop_locked(w)
    PROVE  IInv'
<1> USE DEF IInv, try_to_pop_locked, Goto, Unlock, TryNext, start, queue_vars,
            latch_vars, worker_vars, push_vars, pool_vars
<1>f. First' = First
  BY FirstUnchanged, Zenon
<1>q. Victim(w) \in Workers
  BY VictimIsWorker, Zenon
<1>t. ASSUME queue[Victim(w)] # <<>>, queue' = [queue EXCEPT ![Victim(w)] = Tail(@)]
      PROVE  /\ Head(queue[Victim(w)]) \in Tasks
             /\ queue' \in [Workers -> Seq(Tasks)]
             /\ \A p \in Workers : p # Victim(w) => queue'[p] = queue[p]
  BY <1>q, <1>t, Taken, Zenon
<1>1. QueueType'
  <2>1. UNCHANGED queue \/ queue' \in [Workers -> Seq(Tasks)]
    BY <1>t, Zenon
  <2>2. mutex' \in [Workers -> Pushers \cup {Destroyer, None}] /\ UNCHANGED abort
    BY <1>q, Unlocked, Zenon
  <2> QED
    BY <2>1, <2>2, Zenon DEF QueueType
<1>2. WorkerType'
  <2>1. \/ \E k \in Tasks : start(w, k)
        \/ TryNext(w) /\ UNCHANGED task
    BY <1>t, Zenon
  <2>2. pc[w] = "try"
    BY Zenon
  <2> HIDE DEF try_to_pop_locked
  <2>3. CASE \E k \in Tasks : start(w, k)
    BY <2>3, Names, CountsAssumption, SMT DEF WorkerType, Pcs
  <2>4. CASE TryNext(w) /\ UNCHANGED task
    <3>1. i[w] + 1 \in 0 .. WorkerCount
      BY <2>2, CountsAssumption, SMT DEF WorkerType
    <3> QED
      BY <2>4, <3>1, CountsAssumption, SMT DEF WorkerType, Pcs
  <2> QED
    BY <2>1, <2>3, <2>4, Zenon
<1>3. PushType'
  BY Zenon DEF PushType
<1>4. (PoolType /\ StateType)'
  BY Zenon DEF PoolType, StateType
<1>5. NoLostWakeUp'
  BY <1>f, SMTT(30) DEF NoLostWakeUp, WorkerType, PushType, QueueType
<1>6. MutexInv'
  BY <1>f, SMT DEF MutexInv, Victim, WorkerType, PushType, QueueType
<1>7. PushersInv'
  BY Zenon DEF PushersInv, WorkerType, PushType
<1>8. LatchInv'
  BY LatchSame, Zenon DEF Arrived, WorkerType
<1>9. LeftInv'
  BY Zenon DEF LeftInv, WorkerType, QueueType
<1>10. (PlaceInv /\ KeptInv)'
  <2>1. CASE TryNext(w) /\ UNCHANGED <<queue, task, state>>
    <3>1. \A v \in Workers : pc'[v] = "body" <=> pc[v] = "body"
      <4>1. pc[w] # "body" /\ (Goto(w, "block") \/ Goto(w, "steal"))
        BY <2>1, Zenon
      <4>2. "block" # "body" /\ "steal" # "body"
        BY Zenon
      <4> HIDE DEF try_to_pop_locked, Goto
      <4> QED
        BY <4>1, <4>2, StaysOutside, Zenon
    <3>2. UNCHANGED item /\ \A t \in Pushers : Carries(t)' <=> Carries(t)
      BY Zenon DEF Carries
    <3> QED
      BY <2>1, <3>1, <3>2, PlaceSame, Zenon
  <2>2. CASE /\ queue[Victim(w)] # <<>>
             /\ queue' = [queue EXCEPT ![Victim(w)] = Tail(@)]
             /\ start(w, Head(queue[Victim(w)]))
    <3>1. pc[w] # "body" /\ UNCHANGED push_vars
      BY Zenon
    <3> HIDE DEF try_to_pop_locked, start
    <3> QED
      BY <1>q, <2>2, <3>1, StartPlace, Zenon
  <2> QED
    BY <2>1, <2>2, Zenon
<1> QED
  BY <1>1, <1>2, <1>3, <1>4, <1>5, <1>6, <1>7, <1>8, <1>9, <1>10, Zenon

\* A worker takes the mutex of its own queue.
LEMMA pop_lock_IInv ==
    ASSUME IInv, NEW w \in Workers, pop_lock(w)
    PROVE  IInv'
<1> USE DEF IInv, pop_lock, Goto, Lock, queue_vars, latch_vars, worker_vars,
            push_vars, pool_vars
<1>f. First' = First
  BY FirstUnchanged, Zenon
<1>1. QueueType'
  BY Names, Zenon DEF QueueType
<1>2. WorkerType'
  BY Zenon DEF WorkerType, Pcs
<1>3. PushType'
  BY Zenon DEF PushType
<1>4. (PoolType /\ StateType)'
  BY Zenon DEF PoolType, StateType
<1>5. NoLostWakeUp'
  BY <1>f, SMT DEF NoLostWakeUp, WorkerType, PushType, QueueType
<1>6. MutexInv'
  BY <1>f, Zenon DEF MutexInv, Victim, WorkerType, PushType, QueueType
<1>7. PushersInv'
  BY Zenon DEF PushersInv, WorkerType, PushType
<1>8. LatchInv'
  BY LatchSame, Zenon DEF Arrived, WorkerType
<1>9. LeftInv'
  BY Zenon DEF LeftInv, WorkerType, QueueType
<1>10. (PlaceInv /\ KeptInv)'
  BY PlaceSame, Zenon DEF Carries, WorkerType, PushType
<1> QED
  BY <1>1, <1>2, <1>3, <1>4, <1>5, <1>6, <1>7, <1>8, <1>9, <1>10, Zenon

\* A worker sleeps only if its queue is empty and was not aborted.
LEMMA pop_IInv ==
    ASSUME IInv, NEW w \in Workers, pop(w)
    PROVE  IInv'
<1> USE DEF IInv, pop, Goto, Unlock, start, queue_vars, latch_vars,
            worker_vars, push_vars, pool_vars
<1>f. First' = First
  BY FirstUnchanged, Zenon
<1>q. w \in Workers
  BY Zenon
<1>t. ASSUME queue[w] # <<>>, queue' = [queue EXCEPT ![w] = Tail(@)]
      PROVE  /\ Head(queue[w]) \in Tasks
             /\ queue' \in [Workers -> Seq(Tasks)]
             /\ \A p \in Workers : p # w => queue'[p] = queue[p]
  BY <1>q, <1>t, Taken, Zenon
<1>1. QueueType'
  <2>1. UNCHANGED queue \/ queue' \in [Workers -> Seq(Tasks)]
    BY <1>t, Zenon
  <2>2. mutex' \in [Workers -> Pushers \cup {Destroyer, None}] /\ UNCHANGED abort
    BY <1>q, Unlocked, Zenon
  <2> QED
    BY <2>1, <2>2, Zenon DEF QueueType
<1>2. WorkerType'
  <2>1. \/ \E k \in Tasks : start(w, k)
        \/ /\ UNCHANGED <<i, task>>
           /\ Goto(w, "loop") \/ Goto(w, "asleep")
    BY <1>t, Zenon
  <2> HIDE DEF pop
  <2> QED
    BY <2>1, Names, CountsAssumption, SMT DEF WorkerType, Pcs
<1>3. PushType'
  BY Zenon DEF PushType
<1>4. (PoolType /\ StateType)'
  BY Zenon DEF PoolType, StateType
<1>5. NoLostWakeUp'
  BY <1>f, SMT DEF NoLostWakeUp, WorkerType, PushType, QueueType
<1>6. MutexInv'
  BY <1>f, SMT DEF MutexInv, Victim, WorkerType, PushType, QueueType
<1>7. PushersInv'
  BY Zenon DEF PushersInv, WorkerType, PushType
<1>8. LatchInv'
  BY LatchSame, Zenon DEF Arrived, WorkerType
<1>9. LeftInv'
  BY SMT DEF LeftInv, WorkerType, QueueType
<1>10. (PlaceInv /\ KeptInv)'
  <2>1. CASE (Goto(w, "loop") \/ Goto(w, "asleep")) /\ UNCHANGED <<queue, task, state>>
    <3>1. \A v \in Workers : pc'[v] = "body" <=> pc[v] = "body"
      <4>1. pc[w] # "body" /\ (Goto(w, "loop") \/ Goto(w, "asleep"))
        BY <2>1, Zenon
      <4>2. "loop" # "body" /\ "asleep" # "body"
        BY Zenon
      <4> HIDE DEF pop, Goto
      <4> QED
        BY <4>1, <4>2, StaysOutside, Zenon
    <3>2. UNCHANGED item /\ \A t \in Pushers : Carries(t)' <=> Carries(t)
      BY Zenon DEF Carries
    <3> QED
      BY <2>1, <3>1, <3>2, PlaceSame, Zenon
  <2>2. CASE /\ queue[w] # <<>>
             /\ queue' = [queue EXCEPT ![w] = Tail(@)]
             /\ start(w, Head(queue[w]))
    <3>1. pc[w] # "body" /\ UNCHANGED push_vars
      BY Zenon
    <3> HIDE DEF pop, start
    <3> QED
      BY <1>q, <2>2, <3>1, StartPlace, Zenon
  <2> QED
    BY <2>1, <2>2, Zenon
<1> QED
  BY <1>1, <1>2, <1>3, <1>4, <1>5, <1>6, <1>7, <1>8, <1>9, <1>10, Zenon

\* A wait ends without a notification.
LEMMA spurious_wakeup_IInv ==
    ASSUME IInv, NEW w \in Workers, spurious_wakeup(w)
    PROVE  IInv'
<1> USE DEF IInv, spurious_wakeup, Goto, queue_vars, latch_vars, worker_vars,
            push_vars, pool_vars
<1>f. First' = First
  BY FirstUnchanged, Zenon
<1>1. QueueType'
  BY Zenon DEF QueueType
<1>2. WorkerType'
  BY Zenon DEF WorkerType, Pcs
<1>3. PushType'
  BY Zenon DEF PushType
<1>4. (PoolType /\ StateType)'
  BY Zenon DEF PoolType, StateType
<1>5. NoLostWakeUp'
  BY <1>f, Zenon DEF NoLostWakeUp, WorkerType, PushType, QueueType
<1>6. MutexInv'
  BY <1>f, SMT DEF MutexInv, Victim
<1>7. PushersInv'
  BY Zenon DEF PushersInv, WorkerType, PushType
<1>8. LatchInv'
  BY LatchSame, Zenon DEF Arrived, WorkerType
<1>9. LeftInv'
  BY Zenon DEF LeftInv, WorkerType, QueueType
<1>10. (PlaceInv /\ KeptInv)'
  BY PlaceSame, Zenon DEF Carries, WorkerType, PushType
<1> QED
  BY <1>1, <1>2, <1>3, <1>4, <1>5, <1>6, <1>7, <1>8, <1>9, <1>10, Zenon

\* The task is over.
LEMMA start_returns_IInv ==
    ASSUME IInv, NEW w \in Workers, start_returns(w)
    PROVE  IInv'
<1> USE DEF IInv, start_returns, Goto, queue_vars, latch_vars, worker_vars,
            push_vars, pool_vars
<1>f. First' = First
  BY FirstUnchanged, Zenon
<1>1. QueueType'
  BY Zenon DEF QueueType
<1>2. WorkerType'
  BY Zenon DEF WorkerType, Pcs
<1>3. PushType'
  BY Zenon DEF PushType
<1>4. (PoolType /\ StateType)'
  BY Zenon DEF PoolType, StateType
<1>5. NoLostWakeUp'
  BY <1>f, Zenon DEF NoLostWakeUp, WorkerType, PushType, QueueType
<1>6. MutexInv'
  BY <1>f, SMT DEF MutexInv, Victim
<1>7. PushersInv'
  BY Zenon DEF PushersInv, WorkerType, PushType
<1>8. LatchInv'
  BY LatchSame, Zenon DEF Arrived, WorkerType
<1>9. LeftInv'
  BY Zenon DEF LeftInv, WorkerType, QueueType
<1>10. (PlaceInv /\ KeptInv)'
  <2>1. PICK k \in Tasks : k = task[w] /\ state[k] = "running"
    BY Zenon DEF PlaceInv
  <2>2. /\ \A j \in Tasks : state'[j] = IF j = k THEN "done" ELSE state[j]
        /\ \A v \in Workers : pc'[v] = "body" <=> pc[v] = "body" /\ v # w
        /\ \A v \in Workers : v # w => task'[v] = task[v]
    BY <2>1, Zenon DEF WorkerType, StateType
  <2>3. UNCHANGED <<queue, item>> /\ \A t : Carries(t)' <=> Carries(t)
    BY Zenon DEF Carries
  <2>4. pc[w] = "body"
    BY Zenon
  <2> HIDE DEF start_returns
  <2>5. PlaceInv'
    BY <2>1, <2>2, <2>3, <2>4, SMT DEF PlaceInv
  <2>6. KeptInv'
    BY <2>1, <2>2, <2>3, <2>4, SMT DEF KeptInv
  <2> QED
    BY <2>5, <2>6, Zenon
<1> QED
  BY <1>1, <1>2, <1>3, <1>4, <1>5, <1>6, <1>7, <1>8, <1>9, <1>10, Zenon

\* One worker less is to come.
LEMMA arrive_and_wait_IInv ==
    ASSUME IInv, NEW w \in Workers, arrive_and_wait(w)
    PROVE  IInv'
<1> USE DEF IInv, arrive_and_wait, Goto, CountDown, queue_vars, latch_vars,
            worker_vars, push_vars, pool_vars
<1>f. First' = First
  BY FirstUnchanged, Zenon
<1>1. QueueType'
  BY Zenon DEF QueueType
<1>2. WorkerType'
  BY Zenon DEF WorkerType, Pcs
<1>3. PushType'
  BY Zenon DEF PushType
<1>4. (PoolType /\ StateType)'
  BY Zenon DEF PoolType, StateType
<1>5. NoLostWakeUp'
  BY <1>f, Zenon DEF NoLostWakeUp, WorkerType, PushType, QueueType
<1>6. MutexInv'
  BY <1>f, SMT DEF MutexInv, Victim
<1>7. PushersInv'
  BY Zenon DEF PushersInv, WorkerType, PushType
<1>8. LatchInv'
  <2>1. w \in Coming /\ Coming' = Coming \ {w}
    BY Zenon DEF Coming, Arrived, WorkerType
  <2>2. /\ Cardinality(Coming) \in Nat \ {0}
        /\ Cardinality(Coming') = Cardinality(Coming) - 1
    <3>1. /\ IsFiniteSet(Coming \ {w})
          /\ Cardinality(Coming \ {w}) = Cardinality(Coming) - 1
      BY <2>1, ComingFinite, FS_RemoveElement, Zenon
    <3>2. Cardinality(Coming \ {w}) \in Nat
      BY <3>1, FS_CardinalityType, Zenon
    <3> QED
      BY <2>1, <3>1, <3>2, ComingFinite
  <2>3. /\ count' = count - 1 /\ (done' <=> count = 1) /\ done' \in BOOLEAN
        /\ UNCHANGED pool
    BY Zenon
  <2>4. ASSUME NEW v \in Workers, pc'[v] \in {"drain", "drain_try", "exited"}
        PROVE  FALSE
    <3>1. pc[v] = pc'[v] /\ done
      BY <2>4, Zenon DEF WorkerType, LatchInv
    <3>2. Arrived(w)
      BY <3>1, Latched, Zenon
    <3> QED
      BY <2>1, <3>2, Zenon DEF Coming
  <2> HIDE DEF Coming, arrive_and_wait, CountDown
  <2>5. count' = Cardinality(Coming')
                   + (IF pool' \in {"join", "destroyed"} THEN 0 ELSE 1)
    BY <2>2, <2>3, SMT DEF LatchInv
  <2>6. done' <=> count' = 0
    BY <2>2, <2>3, SMT DEF LatchInv
  <2> QED
    BY <2>3, <2>4, <2>5, <2>6, Zenon DEF LatchInv
<1>9. LeftInv'
  BY Zenon DEF LeftInv, WorkerType, QueueType
<1>10. (PlaceInv /\ KeptInv)'
  BY PlaceSame, Zenon DEF Carries, WorkerType, PushType
<1> QED
  BY <1>1, <1>2, <1>3, <1>4, <1>5, <1>6, <1>7, <1>8, <1>9, <1>10, Zenon

\* Nobody passes before all have come.
LEMMA pass_latch_IInv ==
    ASSUME IInv, NEW w \in Workers, pass_latch(w)
    PROVE  IInv'
<1> USE DEF IInv, pass_latch, Goto, queue_vars, latch_vars, worker_vars,
            push_vars, pool_vars
<1>f. First' = First
  BY FirstUnchanged, Zenon
<1>1. QueueType'
  BY Zenon DEF QueueType
<1>2. WorkerType'
  BY Zenon DEF WorkerType, Pcs
<1>3. PushType'
  BY Zenon DEF PushType
<1>4. (PoolType /\ StateType)'
  BY Zenon DEF PoolType, StateType
<1>5. NoLostWakeUp'
  BY <1>f, Zenon DEF NoLostWakeUp, WorkerType, PushType, QueueType
<1>6. MutexInv'
  BY <1>f, SMT DEF MutexInv, Victim
<1>7. PushersInv'
  BY Zenon DEF PushersInv, WorkerType, PushType
<1>8. LatchInv'
  <2>1. Coming' = Coming
    BY Zenon DEF Coming, Arrived, WorkerType
  <2>2. UNCHANGED <<count, done, pool>> /\ done
    BY Zenon
  <2> HIDE DEF Coming
  <2> QED
    BY <2>1, <2>2, SMT DEF LatchInv
<1>9. LeftInv'
  BY Zenon DEF LeftInv, WorkerType, QueueType
<1>10. (PlaceInv /\ KeptInv)'
  BY PlaceSame, Zenon DEF Carries, WorkerType, PushType
<1> QED
  BY <1>1, <1>2, <1>3, <1>4, <1>5, <1>6, <1>7, <1>8, <1>9, <1>10, Zenon

\* At the latch nobody has a mutex, so that none is found taken.
LEMMA drain_IInv ==
    ASSUME IInv, NEW w \in Workers, drain(w)
    PROVE  IInv'
<1> USE DEF IInv, drain, Goto, Lock, queue_vars, latch_vars, worker_vars,
            push_vars, pool_vars
<1>f. First' = First
  BY FirstUnchanged, Zenon
<1>m. /\ mutex' = [mutex EXCEPT ![w] = w]
      /\ pc' = [pc EXCEPT ![w] = "drain_try"]
  <2>1. mutex[w] = None
    BY MutexOfDrained, Zenon
  <2> QED
    BY <2>1, Zenon
<1>1. QueueType'
  BY <1>m, Names, Zenon DEF QueueType
<1>2. WorkerType'
  BY <1>m, Zenon DEF WorkerType, Pcs
<1>3. PushType'
  BY Zenon DEF PushType
<1>4. (PoolType /\ StateType)'
  BY Zenon DEF PoolType, StateType
<1>5. NoLostWakeUp'
  <2>1. \A v \in Workers : pc'[v] = "asleep" => pc[v] = "asleep"
    BY <1>m, Zenon DEF WorkerType
  <2> QED
    BY <1>f, <2>1, Zenon DEF NoLostWakeUp
<1>6. MutexInv'
  BY <1>f, <1>m, Zenon DEF MutexInv, Victim, WorkerType, QueueType
<1>7. PushersInv'
  BY Zenon DEF PushersInv, WorkerType, PushType
<1>8. LatchInv'
  <2>1. \A v \in Workers : v # w => pc'[v] = pc[v]
    BY <1>m, Zenon DEF WorkerType
  <2>2. pc'[w] = "drain_try"
    BY <1>m, Zenon DEF WorkerType
  <2> QED
    BY <2>1, <2>2, LatchSame, Zenon DEF Arrived
<1>9. LeftInv'
  BY <1>m, Zenon DEF LeftInv, WorkerType
<1>10. (PlaceInv /\ KeptInv)'
  BY PlaceSame, Zenon DEF Carries, WorkerType, PushType
<1> QED
  BY <1>1, <1>2, <1>3, <1>4, <1>5, <1>6, <1>7, <1>8, <1>9, <1>10, Zenon

\* A worker leaves when its queue is empty.
LEMMA drain_locked_IInv ==
    ASSUME IInv, NEW w \in Workers, drain_locked(w)
    PROVE  IInv'
<1> USE DEF IInv, drain_locked, Goto, Unlock, disable, queue_vars, latch_vars,
            worker_vars, push_vars, pool_vars
<1>f. First' = First
  BY FirstUnchanged, Zenon
<1>t. ASSUME queue[w] # <<>>
      PROVE  /\ queue' \in [Workers -> Seq(Tasks)]
             /\ \A p \in Workers : p # w => queue'[p] = queue[p]
  BY <1>t, Taken, Zenon
<1>p. /\ pc'[w] = IF queue[w] = <<>> THEN "exited" ELSE "drain"
      /\ \A v \in Workers : v # w => pc'[v] = pc[v]
  BY Zenon DEF WorkerType
<1>1. QueueType'
  <2>1. UNCHANGED queue \/ queue' \in [Workers -> Seq(Tasks)]
    BY <1>t, Zenon
  <2>2. mutex' \in [Workers -> Pushers \cup {Destroyer, None}] /\ UNCHANGED abort
    BY Unlocked, Zenon
  <2> QED
    BY <2>1, <2>2, Zenon DEF QueueType
<1>2. WorkerType'
  BY Zenon DEF WorkerType, Pcs
<1>3. PushType'
  BY Zenon DEF PushType
<1>4. (PoolType /\ StateType)'
  BY Zenon DEF PoolType, StateType
<1>5. NoLostWakeUp'
  BY <1>f, SMT DEF NoLostWakeUp, WorkerType, PushType, QueueType
<1>6. MutexInv'
  BY <1>f, SMT DEF MutexInv, Victim, WorkerType, PushType, QueueType
<1>7. PushersInv'
  BY Zenon DEF PushersInv, WorkerType, PushType
<1>8. LatchInv'
  BY LatchSame, Zenon DEF Arrived, WorkerType
<1>9. LeftInv'
  <2>1. pc[w] # "exited" /\ (queue[w] = <<>> => UNCHANGED queue)
    BY Zenon
  <2>2. UNCHANGED pool
    BY Zenon
  <2> HIDE DEF drain_locked
  <2> QED
    BY <1>t, <1>p, <2>1, <2>2, Zenon DEF LeftInv
<1>10. (PlaceInv /\ KeptInv)'
  <2>1. /\ UNCHANGED <<item, task>> /\ \A t : Carries(t)' <=> Carries(t)
        /\ \A v \in Workers : pc'[v] = "body" <=> pc[v] = "body"
    BY <1>p, Zenon DEF Carries
  <2>2. CASE queue[w] = <<>>
    <3>1. UNCHANGED <<queue, state>>
      BY <2>2, Zenon
    <3> QED
      BY <2>1, <3>1, PlaceSame, Zenon
  <2>3. CASE queue[w] # <<>>
    <3>1. PICK k : k = Head(queue[w])
      BY Zenon
    <3>2. queue' = [queue EXCEPT ![w] = Tail(@)] /\ disable(k)
      BY <2>3, <3>1, Zenon
    <3> HIDE DEF drain_locked
    <3>3. /\ k \in Tasks /\ In(queue[w], k) /\ state[k] = "pending"
          /\ \A p \in Workers : Distinct(queue'[p])
          /\ \A p \in Workers, j \in Tasks :
                In(queue'[p], j) <=> In(queue[p], j) /\ j # k
      BY <2>3, <3>1, <3>2, Taken, ZenonT(60)
    <3>4. \A j \in Tasks : state'[j] = IF j = k THEN "dropped" ELSE state[j]
      BY <3>2, <3>3, Zenon DEF StateType
    <3>5. \A t \in Pushers : Carries(t) => item[t] # k
      BY <3>3, Zenon DEF PlaceInv
    <3>6. PlaceInv'
      BY <2>1, <3>3, <3>4, <3>5, SMTT(30) DEF PlaceInv
    <3>7. KeptInv'
      BY <2>1, <3>3, <3>4, <3>5, SMT DEF KeptInv
    <3> QED
      BY <3>6, <3>7, Zenon
  <2> QED
    BY <2>2, <2>3, Zenon
<1> QED
  BY <1>1, <1>2, <1>3, <1>4, <1>5, <1>6, <1>7, <1>8, <1>9, <1>10, Zenon

\* No client is inside when the destructor begins.
LEMMA destroy_IInv ==
    ASSUME IInv, destroy
    PROVE  IInv'
<1> USE DEF IInv, destroy, queue_vars, latch_vars, worker_vars, push_vars,
            pool_vars
<1>1. QueueType'
  BY Zenon DEF QueueType
<1>2. WorkerType'
  BY Zenon DEF WorkerType
<1>3. PushType'
  BY Zenon DEF PushType
<1>4. (PoolType /\ StateType)'
  BY Names, Zenon DEF PoolType, StateType, Clearing
<1>5. NoLostWakeUp'
  BY Zenon DEF NoLostWakeUp
<1>6. MutexInv'
  BY Zenon DEF MutexInv, Victim
<1>7. PushersInv'
  BY Zenon DEF PushersInv
<1>8. LatchInv'
  BY LatchSame, Zenon DEF Arrived, WorkerType
<1>9. LeftInv'
  BY Zenon DEF LeftInv
<1>10. (PlaceInv /\ KeptInv)'
  BY PlaceSame, Zenon DEF Carries, WorkerType, PushType
<1> QED
  BY <1>1, <1>2, <1>3, <1>4, <1>5, <1>6, <1>7, <1>8, <1>9, <1>10, Zenon

\* The workers are asked to stop, one after the other.
LEMMA request_stop_IInv ==
    ASSUME IInv, request_stop
    PROVE  IInv'
<1> USE DEF IInv, request_stop, queue_vars, latch_vars, worker_vars, push_vars,
            pool_vars
<1>l. First \in left /\ First \in Workers
  BY FirstInLeft, Zenon DEF PoolType, Clearing
<1>1. QueueType'
  BY Zenon DEF QueueType
<1>2. WorkerType'
  BY Zenon DEF WorkerType
<1>3. PushType'
  BY Zenon DEF PushType
<1>4. (PoolType /\ StateType)'
  <2>1. left' \subseteq Workers /\ left' # {} /\ stop' \subseteq Workers
    BY <1>l, Names, Zenon DEF PoolType
  <2> QED
    BY <2>1, Zenon DEF PoolType, StateType, Clearing
<1>5. NoLostWakeUp'
  BY Zenon DEF NoLostWakeUp
<1>6. MutexInv'
  BY Zenon DEF MutexInv, Victim
<1>7. PushersInv'
  BY Zenon DEF PushersInv
<1>8. LatchInv'
  BY LatchSame, Zenon DEF Arrived, WorkerType
<1>9. LeftInv'
  BY Zenon DEF LeftInv
<1>10. (PlaceInv /\ KeptInv)'
  BY PlaceSame, Zenon DEF Carries, WorkerType, PushType
<1> QED
  BY <1>1, <1>2, <1>3, <1>4, <1>5, <1>6, <1>7, <1>8, <1>9, <1>10, Zenon

\* The destructor takes the mutex of a queue.
LEMMA abort_lock_IInv ==
    ASSUME IInv, abort_lock
    PROVE  IInv'
<1> USE DEF IInv, abort_lock, Lock, queue_vars, latch_vars, worker_vars,
            push_vars, pool_vars
<1>f. First' = First
  BY FirstUnchanged, Zenon
<1>1. QueueType'
  BY Zenon DEF QueueType
<1>2. WorkerType'
  BY Zenon DEF WorkerType
<1>3. PushType'
  BY Zenon DEF PushType
<1>4. (PoolType /\ StateType)'
  BY Zenon DEF PoolType, StateType, Clearing
<1>5. NoLostWakeUp'
  BY <1>f, Zenon DEF NoLostWakeUp
<1>6. MutexInv'
  BY <1>f, SMT DEF MutexInv, Victim
<1>7. PushersInv'
  BY Zenon DEF PushersInv
<1>8. LatchInv'
  BY LatchSame, Zenon DEF Arrived, WorkerType
<1>9. LeftInv'
  BY Zenon DEF LeftInv
<1>10. (PlaceInv /\ KeptInv)'
  BY PlaceSame, Zenon DEF Carries, WorkerType, PushType
<1> QED
  BY <1>1, <1>2, <1>3, <1>4, <1>5, <1>6, <1>7, <1>8, <1>9, <1>10, Zenon

\* It owes a notification to the worker whose queue it has aborted.
LEMMA abort_set_IInv ==
    ASSUME IInv, abort_set
    PROVE  IInv'
<1> USE DEF IInv, abort_set, Unlock, queue_vars, latch_vars, worker_vars,
            push_vars, pool_vars
<1>f. First' = First
  BY FirstUnchanged, Zenon
<1>1. QueueType'
  <2>1. First \in Workers
    BY FirstInLeft, Zenon DEF PoolType, Clearing
  <2> QED
    BY <2>1, Zenon DEF QueueType
<1>2. WorkerType'
  BY Zenon DEF WorkerType
<1>3. PushType'
  BY Zenon DEF PushType
<1>4. (PoolType /\ StateType)'
  BY Zenon DEF PoolType, StateType, Clearing
<1>5. NoLostWakeUp'
  BY <1>f, Zenon DEF NoLostWakeUp
<1>6. MutexInv'
  BY <1>f, Zenon DEF MutexInv, Victim, WorkerType, PushType, QueueType
<1>7. PushersInv'
  BY Zenon DEF PushersInv
<1>8. LatchInv'
  BY LatchSame, Zenon DEF Arrived, WorkerType
<1>9. LeftInv'
  BY Zenon DEF LeftInv
<1>10. (PlaceInv /\ KeptInv)'
  BY PlaceSame, Zenon DEF Carries, WorkerType, PushType
<1> QED
  BY <1>1, <1>2, <1>3, <1>4, <1>5, <1>6, <1>7, <1>8, <1>9, <1>10, Zenon

\* It notifies that worker.
LEMMA abort_notify_IInv ==
    ASSUME IInv, abort_notify
    PROVE  IInv'
<1> USE DEF IInv, abort_notify, Notify, queue_vars, latch_vars, worker_vars,
            push_vars, pool_vars
<1>l. First \in left /\ First \in Workers
  BY FirstInLeft, Zenon DEF PoolType, Clearing
<1>n. /\ pc' \in [Workers -> Pcs]
      /\ \A w \in Workers : pc'[w] =
            IF w = First /\ pc[First] = "asleep" THEN "block" ELSE pc[w]
  <2>2. Notify(First)
    BY Zenon
  <2> QED
    BY <1>l, <2>2, Notified, Zenon
<1>1. QueueType'
  BY Zenon DEF QueueType
<1>2. WorkerType'
  BY <1>n, Zenon DEF WorkerType
<1>3. PushType'
  BY Zenon DEF PushType
<1>4. (PoolType /\ StateType)'
  BY Zenon DEF PoolType, StateType, Clearing
<1>5. NoLostWakeUp'
  BY Zenon DEF NoLostWakeUp, WorkerType
<1>6. MutexInv'
  BY Zenon DEF MutexInv, Victim, WorkerType
<1>7. PushersInv'
  BY Zenon DEF PushersInv, WorkerType, PushType
<1>8. LatchInv'
  BY LatchSame, Zenon DEF Arrived, WorkerType
<1>9. LeftInv'
  BY Zenon DEF LeftInv, WorkerType, QueueType
<1>10. (PlaceInv /\ KeptInv)'
  BY PlaceSame, Zenon DEF Carries, WorkerType, PushType
<1> QED
  BY <1>1, <1>2, <1>3, <1>4, <1>5, <1>6, <1>7, <1>8, <1>9, <1>10, Zenon

\* The destructor arrives at the latch.
LEMMA count_down_IInv ==
    ASSUME IInv, count_down
    PROVE  IInv'
<1> USE DEF IInv, count_down, CountDown, queue_vars, latch_vars, worker_vars,
            push_vars, pool_vars
<1>f. First' = First
  BY FirstUnchanged, Zenon
<1>1. QueueType'
  BY Zenon DEF QueueType
<1>2. WorkerType'
  BY Zenon DEF WorkerType
<1>3. PushType'
  BY Zenon DEF PushType
<1>4. (PoolType /\ StateType)'
  BY Zenon DEF PoolType, StateType, Clearing
<1>5. NoLostWakeUp'
  BY <1>f, Zenon DEF NoLostWakeUp
<1>6. MutexInv'
  BY <1>f, Zenon DEF MutexInv, Victim
<1>7. PushersInv'
  BY Zenon DEF PushersInv
<1>8. LatchInv'
  <2>1. Coming' = Coming
    BY Zenon DEF Coming, Arrived
  <2>2. /\ count' = count - 1 /\ (done' <=> count = 1) /\ done' \in BOOLEAN
        /\ pool = "count_down" /\ pool' = "join" /\ UNCHANGED pc
    BY Zenon
  <2>3. ASSUME NEW v \in Workers, pc[v] \in {"drain", "drain_try", "exited"}
        PROVE  FALSE
    <3>1. done
      BY <2>3, Zenon DEF LatchInv
    <3> QED
      BY <2>2, <3>1, Latched, Zenon
  <2> HIDE DEF Coming, count_down, CountDown
  <2>4. /\ count' = Cardinality(Coming')
                      + (IF pool' \in {"join", "destroyed"} THEN 0 ELSE 1)
        /\ done' <=> count' = 0
    BY <2>1, <2>2, ComingFinite, SMT DEF LatchInv
  <2> QED
    BY <2>2, <2>3, <2>4, Zenon DEF LatchInv
<1>9. LeftInv'
  BY Zenon DEF LeftInv
<1>10. (PlaceInv /\ KeptInv)'
  BY PlaceSame, Zenon DEF Carries, WorkerType, PushType
<1> QED
  BY <1>1, <1>2, <1>3, <1>4, <1>5, <1>6, <1>7, <1>8, <1>9, <1>10, Zenon

\* The destructor waits for the workers to leave.
LEMMA joined_IInv ==
    ASSUME IInv, joined
    PROVE  IInv'
<1> USE DEF IInv, joined, queue_vars, latch_vars, worker_vars, push_vars,
            pool_vars
<1>f. First' = First
  BY FirstUnchanged, Zenon
<1>1. QueueType'
  BY Zenon DEF QueueType
<1>2. WorkerType'
  BY Zenon DEF WorkerType
<1>3. PushType'
  BY Zenon DEF PushType
<1>4. (PoolType /\ StateType)'
  BY Zenon DEF PoolType, StateType, Clearing
<1>5. NoLostWakeUp'
  BY <1>f, Zenon DEF NoLostWakeUp
<1>6. MutexInv'
  BY <1>f, Zenon DEF MutexInv, Victim
<1>7. PushersInv'
  BY Zenon DEF PushersInv
<1>8. LatchInv'
  BY LatchSame, Zenon DEF Arrived, WorkerType
<1>9. LeftInv'
  BY Zenon DEF LeftInv
<1>10. (PlaceInv /\ KeptInv)'
  BY PlaceSame, Zenon DEF Carries, WorkerType, PushType
<1> QED
  BY <1>1, <1>2, <1>3, <1>4, <1>5, <1>6, <1>7, <1>8, <1>9, <1>10, Zenon


-----------------------------------------------------------------------------
\* Every step of the workers, the pushers and the destructor preserves IInv.
LEMMA NextIInv == IInv /\ [Next]_vars => IInv'
<1> SUFFICES ASSUME IInv, [Next]_vars
             PROVE  IInv'
  BY Zenon
<1>1. CASE \E w \in Workers : Proceed(w)
  BY <1>1, loop_IInv, try_to_pop_IInv, try_to_pop_locked_IInv, pop_lock_IInv,
     pop_IInv, start_returns_IInv, arrive_and_wait_IInv, pass_latch_IInv,
     drain_IInv, drain_locked_IInv, Zenon DEF Proceed
<1>2. CASE \E w \in Workers : spurious_wakeup(w)
  BY <1>2, spurious_wakeup_IInv, Zenon
<1>3. CASE \E t \in Pushers : Push(t)
  BY <1>3, push_lock_IInv, push_back_IInv, push_notify_IInv, Zenon DEF Push
<1>4. CASE \E t \in Pushers, k \in Tasks : choose_queue(t, k)
  BY <1>4, choose_queue_IInv, Zenon
<1>5. CASE destroy
  BY <1>5, destroy_IInv, Zenon
<1>6. CASE Destructor
  BY <1>6, request_stop_IInv, abort_lock_IInv, abort_set_IInv,
     abort_notify_IInv, count_down_IInv, joined_IInv, Zenon DEF Destructor
<1>7. CASE UNCHANGED vars
  <2> USE <1>7 DEF vars, queue_vars, latch_vars, worker_vars, push_vars,
                   pool_vars
  <2>1. First' = First
    BY FirstUnchanged, Zenon
  <2>2. QueueType' /\ WorkerType' /\ PushType' /\ PoolType' /\ StateType'
    BY Zenon DEF IInv, QueueType, WorkerType, PushType, PoolType, StateType
  <2>3. NoLostWakeUp' /\ PushersInv' /\ LeftInv'
    <3>1. PushersInv' /\ LeftInv'
      BY Zenon DEF IInv, PushersInv, LeftInv
    <3>2. NoLostWakeUp'
      BY <2>1, Zenon DEF IInv, NoLostWakeUp
    <3> QED
      BY <3>1, <3>2, Zenon
  <2>4. MutexInv'
    BY <2>1, Zenon DEF IInv, MutexInv, Victim
  <2>5. LatchInv'
    BY LatchSame, Zenon DEF IInv, Arrived
  <2>6. PlaceInv' /\ KeptInv'
    BY PlaceSame, Zenon DEF IInv, Carries
  <2> QED
    BY <2>2, <2>3, <2>4, <2>5, <2>6, Zenon DEF IInv
<1> QED
  BY <1>1, <1>2, <1>3, <1>4, <1>5, <1>6, <1>7, Zenon DEF Next

\* IInv holds in every state that the pool reaches.
LEMMA Invariance == Spec => []IInv
BY InitIInv, NextIInv, PTL DEF Spec

\* All variables keep their types: in particular the latch is not counted
\* below zero, and no worker tries more queues than there are.
THEOREM TypeCorrect == Spec => []TypeOK
<1>1. IInv => TypeOK
  <2> SUFFICES ASSUME IInv
               PROVE  TypeOK
    BY Zenon
  <2>1. Cardinality(Coming) \in 0 .. WorkerCount
    <3>1. IsFiniteSet(Workers) /\ Cardinality(Workers) = WorkerCount
      BY FS_Interval, CountsAssumption DEF Workers
    <3>2. Cardinality(Coming) <= Cardinality(Workers)
      BY <3>1, FS_Subset, Zenon DEF Coming
    <3> QED
      BY <3>1, <3>2, ComingFinite, CountsAssumption
  <2>2. count \in 0 .. WorkerCount + 1
    BY <2>1, CountsAssumption, SMT DEF IInv, LatchInv
  <2> QED
    BY <2>2, Zenon DEF TypeOK, IInv, QueueType, WorkerType, PushType, PoolType,
                       LatchInv
<1> QED
  BY <1>1, Invariance, PTL

\* A worker that sleeps in pop() has an empty queue that is not aborted,
\* unless the notify of whoever changed that is still to come.
THEOREM WakeUpsArrive == Spec => []NoLostWakeUp
<1>1. IInv => NoLostWakeUp
  BY Zenon DEF IInv
<1> QED
  BY <1>1, Invariance, PTL

\* After the latch a worker has its queue to itself, and the destructor leaves
\* no task in a queue and none that was pushed but neither executed nor
\* disabled.
THEOREM QueuesDrained == Spec => []DrainedAlone
<1>1. IInv => DrainedAlone
  <2> SUFFICES ASSUME IInv
               PROVE  DrainedAlone
    BY Zenon
  <2>1. ASSUME NEW w \in Workers, pc[w] \in {"drain", "drain_try", "exited"}
        PROVE  /\ \A v \in Workers : pc[v] \notin {"loop", "steal", "try",
                                          "block", "pop", "asleep", "body"}
               /\ \A t \in Pushers : push[t] = "idle"
               /\ mutex[w] \in {w, None}
    <3>1. done
      BY <2>1, Zenon DEF IInv, LatchInv
    <3>2. /\ \A v \in Workers : Arrived(v)
          /\ \A t \in Pushers : push[t] = "idle"
      BY <3>1, Latched, Zenon
    <3>3. mutex[w] \in {w, None}
      BY <2>1, MutexOfDrained, Zenon
    <3>4. \A v \in Workers : pc[v] \notin {"loop", "steal", "try", "block",
                                           "pop", "asleep", "body"}
      BY <3>2, Zenon DEF Arrived
    <3> QED
      BY <3>2, <3>3, <3>4, Zenon
  <2>2. ASSUME pool = "destroyed"
        PROVE  /\ \A q \in Workers : queue[q] = <<>>
               /\ \A k \in Tasks : state[k] \in {"new", "done", "dropped"}
    <3>1. \A w \in Workers : pc[w] = "exited" /\ queue[w] = <<>>
      BY <2>2, Zenon DEF IInv, LeftInv
    <3>2. \A t \in Pushers : ~Carries(t)
      <4>1. \A t \in Pushers : push[t] = "idle"
        BY <2>1, <3>1, Names, Zenon
      <4> QED
        BY <4>1, Zenon DEF Carries
    <3>3. \A k \in Tasks, q \in Workers : ~In(queue[q], k)
      BY <3>1, SMT DEF In
    <3>4. \A w \in Workers : pc[w] # "body"
      BY <3>1, Zenon
    <3>5. \A k \in Tasks : state[k] # "pending" /\ state[k] # "running"
      BY <3>2, <3>3, <3>4, Zenon DEF IInv, KeptInv
    <3> QED
      BY <3>1, <3>5, Zenon DEF IInv, StateType
  <2> QED
    BY <2>1, <2>2, Zenon DEF DrainedAlone
<1> QED
  BY <1>1, Invariance, PTL

-----------------------------------------------------------------------------
\* What a step does to the tasks, at most: one of them is pushed, started,
\* returns, or is disabled by a pool that is being destroyed.
Moves(k, from, to) ==
    state[k] = from /\ state' = [state EXCEPT ![k] = to]
LifeStep ==
    \/ UNCHANGED state
    \/ \E k \in Tasks :
          \/ Moves(k, "new", "pending")
          \/ Moves(k, "pending", "running")
          \/ Moves(k, "running", "done")
          \/ Moves(k, "pending", "dropped") /\ pool' # "alive"

\* A worker starts only what it took from a queue, and that is pending.
LEMMA StartMoves ==
    ASSUME IInv, NEW w \in Workers, NEW q \in Workers, queue[q] # <<>>,
           queue' = [queue EXCEPT ![q] = Tail(@)], start(w, Head(queue[q]))
    PROVE  LifeStep
<1>1. PICK k : k = Head(queue[q])
  BY Zenon
<1>2. k \in Tasks /\ state[k] = "pending"
  BY <1>1, Taken, Zenon DEF IInv
<1> QED
  BY <1>1, <1>2, Zenon DEF LifeStep, Moves, start

\* A worker disables only what is pending in its queue, after the latch.
LEMMA DrainMoves ==
    ASSUME IInv, NEW w \in Workers, drain_locked(w)
    PROVE  LifeStep
<1>1. CASE queue[w] = <<>>
  BY <1>1, Zenon DEF drain_locked, LifeStep
<1>2. CASE queue[w] # <<>>
  <2>1. PICK k : k = Head(queue[w])
    BY Zenon
  <2>2. queue' = [queue EXCEPT ![w] = Tail(@)] /\ disable(k)
    BY <1>2, <2>1, Zenon DEF drain_locked
  <2>3. k \in Tasks /\ state[k] = "pending"
    BY <1>2, <2>1, <2>2, Taken, Zenon DEF IInv
  <2>4. done /\ UNCHANGED pool
    BY Zenon DEF drain_locked, pool_vars, IInv, LatchInv
  <2>5. pool' # "alive"
    BY <2>4, Latched, Zenon
  <2> QED
    BY <2>2, <2>3, <2>5, Zenon DEF LifeStep, Moves, disable
<1> QED
  BY <1>1, <1>2, Zenon

\* No step does more to the tasks, and a pool is not alive again.
LEMMA NextLifeStep ==
    ASSUME IInv, [Next]_vars
    PROVE  LifeStep /\ (pool # "alive" => pool' # "alive")
<1>1. ASSUME pool # "alive" PROVE pool' # "alive"
  BY <1>1, Zenon
  DEF Next, Proceed, Push, Destructor, vars, pool_vars, push_vars,
      loop, try_to_pop, try_to_pop_locked, pop_lock, pop, start_returns,
      arrive_and_wait, pass_latch, drain, drain_locked, spurious_wakeup,
      push_lock, push_back, push_notify, choose_queue, destroy, request_stop,
      abort_lock, abort_set, abort_notify, count_down, joined
<1>2. ASSUME NEW w \in Workers, try_to_pop_locked(w) PROVE LifeStep
  <2>1. Victim(w) \in Workers
    BY VictimIsWorker, Zenon DEF IInv
  <2> QED
    BY <1>2, <2>1, StartMoves, Zenon DEF try_to_pop_locked, LifeStep
<1>3. ASSUME NEW w \in Workers, pop(w) PROVE LifeStep
  BY <1>3, StartMoves, Zenon DEF pop, LifeStep
<1>4. ASSUME NEW w \in Workers, start_returns(w) PROVE LifeStep
  BY <1>4, Zenon DEF start_returns, LifeStep, Moves, IInv, PlaceInv
<1>5. ASSUME NEW t \in Pushers, NEW k \in Tasks, choose_queue(t, k)
      PROVE  LifeStep
  BY <1>5, Zenon DEF choose_queue, LifeStep, Moves
<1>6. ASSUME UNCHANGED state PROVE LifeStep
  BY <1>6, Zenon DEF LifeStep
<1> QED
  BY <1>1, <1>2, <1>3, <1>4, <1>5, <1>6, DrainMoves, Zenon
  DEF Next, Proceed, Push, Destructor, vars,
      loop, try_to_pop, pop_lock, arrive_and_wait, pass_latch, drain,
      spurious_wakeup, push_lock, push_back, push_notify, destroy,
      request_stop, abort_lock, abort_set, abort_notify, count_down, joined

\* Two functions that differ in one place.
LEMMA OnlyAt ==
    ASSUME NEW S, NEW f, NEW g, f = [j \in S |-> f[j]], g = [j \in S |-> g[j]],
           NEW k \in S, NEW e, \A j \in S : g[j] = IF j = k THEN e ELSE f[j]
    PROVE  /\ g = [f EXCEPT ![k] = e]
           /\ g = [j \in S |-> IF j \in {k} THEN e ELSE f[j]]
<1>1. g = [f EXCEPT ![k] = e]
  BY Zenon
<1>2. g = [j \in S |-> IF j \in {k} THEN e ELSE f[j]]
  BY Zenon
<1> QED
  BY <1>1, <1>2, Zenon

\* The pool implements the abstract executor: of a task that was pushed start()
\* or disable() is called at most once and never both, and disable() only once
\* ~thread_pool has begun.  (That one of them is called is liveness.)
THEOREM PoolImplementsExecutor == Spec => Abstract!Spec
<1> DEFINE over(k) == IF state[k] \in {"done", "dropped"} THEN "over"
                                                         ELSE state[k]
           mapped == [k \in Tasks |-> over(k)]
<1>1. Init => Abstract!Init
  BY Zenon DEF Init, Abstract!Init
<1>2. IInv /\ [Next]_vars => [Abstract!Next]_(Abstract!vars)
  <2> SUFFICES ASSUME IInv, [Next]_vars
               PROVE  [Abstract!Next]_(Abstract!vars)
    BY Zenon
  <2>1. LifeStep /\ Abstract!Requests
    BY NextLifeStep, Zenon DEF Abstract!Requests
  <2>2. CASE UNCHANGED state
    BY <2>1, <2>2, Zenon DEF Abstract!Next
  <2>3. ASSUME NEW k \in Tasks, NEW from, NEW to, Moves(k, from, to),
               from \in {"new", "pending", "running"}
        PROVE  /\ mapped[k] = from
               /\ mapped' = [mapped EXCEPT ![k] =
                               IF to \in {"done", "dropped"} THEN "over" ELSE to]
               /\ mapped' = [j \in Tasks |-> IF j \in {k}
                               THEN IF to \in {"done", "dropped"} THEN "over" ELSE to
                               ELSE mapped[j]]
    <3> DEFINE last == IF to \in {"done", "dropped"} THEN "over" ELSE to
    <3>1. mapped[k] = from
      BY <2>3, Zenon DEF Moves
    <3>2. \A j \in Tasks : over(j)' = IF j = k THEN last ELSE over(j)
      BY <2>3, Zenon DEF Moves, IInv, StateType
    <3>3. \A j \in Tasks : mapped'[j] = IF j = k THEN last ELSE mapped[j]
      BY <3>2, Zenon
    <3>4. /\ mapped' = [mapped EXCEPT ![k] = last]
          /\ mapped' = [j \in Tasks |-> IF j \in {k} THEN last ELSE mapped[j]]
      <4>1. /\ mapped = [j \in Tasks |-> mapped[j]]
            /\ mapped' = [j \in Tasks |-> mapped'[j]]
        BY Zenon
      <4> HIDE DEF mapped, last
      <4>2. PICK f, g : f = mapped /\ g = mapped'
        BY Zenon
      <4>3. /\ f = [j \in Tasks |-> f[j]] /\ g = [j \in Tasks |-> g[j]]
            /\ \A j \in Tasks : g[j] = IF j = k THEN last ELSE f[j]
        BY <3>3, <4>1, <4>2, Zenon
      <4>4. /\ g = [f EXCEPT ![k] = last]
            /\ g = [j \in Tasks |-> IF j \in {k} THEN last ELSE f[j]]
        BY <4>3, OnlyAt
      <4> QED
        BY <4>2, <4>4, Zenon
    <3> QED
      BY <3>1, <3>4, Zenon DEF last
  <2>4. ASSUME NEW k \in Tasks, Moves(k, "new", "pending")
        PROVE  Abstract!Post(k)
    BY <2>3, <2>4, Zenon DEF Abstract!Post, Abstract!Step
  <2>5. ASSUME NEW k \in Tasks, Moves(k, "pending", "running")
        PROVE  Abstract!Start(k)
    BY <2>3, <2>5, Zenon DEF Abstract!Start, Abstract!Step
  <2>6. ASSUME NEW k \in Tasks, Moves(k, "running", "done")
        PROVE  Abstract!Return(k)
    BY <2>3, <2>6, Zenon DEF Abstract!Return, Abstract!Step
  <2>7. ASSUME NEW k \in Tasks, Moves(k, "pending", "dropped"), pool' # "alive"
        PROVE  Abstract!Drop({k})
    <3>1. /\ mapped[k] = "pending"
          /\ mapped' = [j \in Tasks |-> IF j \in {k} THEN "over" ELSE mapped[j]]
      <4>1. "pending" \in {"new", "pending", "running"}
        BY Zenon
      <4>2. /\ mapped[k] = "pending"
            /\ mapped' = [j \in Tasks |-> IF j \in {k}
                             THEN IF "dropped" \in {"done", "dropped"}
                                  THEN "over" ELSE "dropped"
                             ELSE mapped[j]]
        <5> HIDE DEF mapped
        <5> QED
          BY <2>3, <2>7, <4>1, Zenon
      <4> HIDE DEF mapped
      <4> QED
        BY <4>2, Zenon
    <3> HIDE DEF mapped
    <3>3. \A j \in {k} : mapped[j] = "pending" /\ (pool' # "alive") /\ TRUE
      BY <3>1, <2>7, Zenon
    <3> USE DEF mapped
    <3> QED
      BY <3>1, <3>3, Zenon DEF Abstract!Drop
  <2> QED
    BY <2>1, <2>2, <2>4, <2>5, <2>6, <2>7, Zenon DEF LifeStep, Abstract!Next
<1> QED
  BY <1>1, <1>2, Invariance, PTL DEF Spec, Abstract!Spec
=============================================================================
