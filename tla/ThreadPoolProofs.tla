--------------------------- MODULE ThreadPoolProofs --------------------------
(***************************************************************************)
(* Proofs about ThreadPool, for any number of workers, clients and tasks.  *)
(***************************************************************************)
EXTENDS ThreadPool, TLAPS

\* Nothing is stopped before the flag is set, and only a stopped worker leaves.
FlagFirst ==
    /\ worker_stop # {} => shutdown_requested
    /\ shutting # {} => shutdown_requested
    /\ pool # "alive" => shutdown_requested
    /\ shutdown_done => shutdown_requested
    /\ exited \subseteq worker_stop

\* Before a shutdown only workers execute tasks, the one they show.
ShownBeforeShutdown ==
    ~shutdown_requested =>
        \A t \in Threads :
            stack[t] # <<>> => t \in Workers /\ stack[t] = <<active[t]>>

\* A task that runs has its stop requested or is shown by its worker, so that a
\* shutdown finds it.
ShownOrStopped ==
    \A task \in begun \ done :
        \/ task \in stop_requested
        \/ \E w \in Workers : active[w] = task /\ Executes(w, task)

\* A task that was begun is still somewhere, and no thread executes one twice.
BegunSomewhere ==
    \A task \in begun : task \in done \/ \E t \in Threads : Executes(t, task)

StackDistinct ==
    \A t \in Threads : \A i, j \in 1 .. Len(stack[t]) :
        stack[t][i] = stack[t][j] => i = j

ShutdownInv ==
    /\ TypeOK /\ FlagFirst /\ NoTaskStranded
    /\ ShownBeforeShutdown /\ ShownOrStopped /\ ShutdownStopsTasks

PlaceInv == TypeOK /\ OnePlace /\ BegunSomewhere /\ StackDistinct

-----------------------------------------------------------------------------
\* What Tail does to a sequence that is not empty.
LEMMA TailElements ==
    ASSUME NEW S, NEW s \in Seq(S), s # <<>>
    PROVE  /\ Tail(s) \in Seq(S) /\ Head(s) \in S /\ Head(s) = s[1]
           /\ Len(s) \in Nat /\ Len(s) > 0 /\ Len(Tail(s)) = Len(s) - 1
           /\ \A i \in 1 .. Len(Tail(s)) : Tail(s)[i] = s[i + 1]
  OBVIOUS

\* What Append does.
LEMMA AppendElements ==
    ASSUME NEW S, NEW s \in Seq(S), NEW e \in S
    PROVE  /\ Append(s, e) \in Seq(S) /\ Append(s, e) # <<>>
           /\ Len(s) \in Nat /\ Len(Append(s, e)) = Len(s) + 1
           /\ \A i \in 1 .. Len(s) : Append(s, e)[i] = s[i]
           /\ Append(s, e)[Len(s) + 1] = e
  OBVIOUS

\* What pushing an element in front does.
LEMMA PushElements ==
    ASSUME NEW S, NEW s \in Seq(S), NEW e \in S
    PROVE  /\ <<e>> \o s \in Seq(S) /\ <<e>> \o s # <<>>
           /\ Len(s) \in Nat /\ Len(<<e>> \o s) = Len(s) + 1
           /\ (<<e>> \o s)[1] = e
           /\ Head(<<e>> \o s) = e
           /\ \A i \in 1 .. Len(s) : (<<e>> \o s)[i + 1] = s[i]
  OBVIOUS

\* What a sequence of one element is.
LEMMA SingletonElements ==
    ASSUME NEW S, NEW e \in S
    PROVE  /\ <<e>> \in Seq(S) /\ <<e>> # <<>> /\ Len(<<e>>) = 1 /\ <<e>>[1] = e
           /\ Tail(<<e>>) = <<>> /\ Head(<<e>>) = e
  OBVIOUS

\* The elements of a sequence, and that no two of them are the same.
In(s, e) == \E i \in 1 .. Len(s) : s[i] = e
Distinct(s) == \A i, j \in 1 .. Len(s) : s[i] = s[j] => i = j

\* Tail removes the head, of which a sequence without repetition has only one.
LEMMA TailIn ==
    ASSUME NEW S, NEW s \in Seq(S), s # <<>>, Distinct(s)
    PROVE  /\ Distinct(Tail(s))
           /\ In(s, Head(s))
           /\ \A e : In(Tail(s), e) <=> In(s, e) /\ e # Head(s)
  <1>t. /\ Head(s) = s[1] /\ Len(s) \in Nat /\ Len(s) > 0
        /\ Len(Tail(s)) = Len(s) - 1
        /\ \A i \in 1 .. Len(Tail(s)) : Tail(s)[i] = s[i + 1]
    BY TailElements, Zenon
  <1>1. Distinct(Tail(s))
    <2> SUFFICES ASSUME NEW i \in 1 .. Len(Tail(s)), NEW j \in 1 .. Len(Tail(s)),
                        Tail(s)[i] = Tail(s)[j]
                 PROVE  i = j
      BY Zenon DEF Distinct
    <2>1. i + 1 \in 1 .. Len(s) /\ j + 1 \in 1 .. Len(s) /\ s[i + 1] = s[j + 1]
      BY <1>t
    <2>2. i + 1 = j + 1
      BY <2>1, Zenon DEF Distinct
    <2> QED BY <2>2, <1>t
  <1>2. In(s, Head(s))
    BY <1>t DEF In
  <1>3. ASSUME NEW e, In(Tail(s), e)
        PROVE  In(s, e) /\ e # Head(s)
    <2>1. PICK i \in 1 .. Len(Tail(s)) : Tail(s)[i] = e
      BY <1>3, Zenon DEF In
    <2>2. i + 1 \in 1 .. Len(s) /\ 1 \in 1 .. Len(s) /\ s[i + 1] = e /\ i + 1 # 1
      BY <2>1, <1>t
    <2> QED BY <2>2, <1>t DEF In, Distinct
  <1>4. ASSUME NEW e, In(s, e), e # Head(s)
        PROVE  In(Tail(s), e)
    <2>1. PICK i \in 1 .. Len(s) : s[i] = e
      BY <1>4, Zenon DEF In
    <2>2. i - 1 \in 1 .. Len(Tail(s)) /\ Tail(s)[i - 1] = e
      BY <2>1, <1>4, <1>t
    <2> QED BY <2>2 DEF In
  <1> QED BY <1>1, <1>2, <1>3, <1>4

\* Appending an element that a sequence does not have.
LEMMA AppendIn ==
    ASSUME NEW S, NEW s \in Seq(S), NEW e \in S, Distinct(s), ~In(s, e)
    PROVE  /\ Distinct(Append(s, e))
           /\ \A x : In(Append(s, e), x) <=> In(s, x) \/ x = e
  <1>t. /\ Len(s) \in Nat /\ Len(Append(s, e)) = Len(s) + 1
        /\ \A i \in 1 .. Len(s) : Append(s, e)[i] = s[i]
        /\ Append(s, e)[Len(s) + 1] = e
    BY AppendElements
  <1> DEFINE r == Append(s, e)
  <1> HIDE DEF r
  <1>1. \A i \in 1 .. Len(r) : i \in 1 .. Len(s) \/ i = Len(s) + 1
    BY <1>t DEF r
  <1>2. Distinct(r)
    BY <1>1, <1>t, Zenon DEF Distinct, In, r
  <1>3. \A x : In(r, x) <=> In(s, x) \/ x = e
    BY <1>1, <1>t DEF In, r
  <1> QED BY <1>2, <1>3 DEF r

\* Pushing an element that a sequence does not have.
LEMMA PushIn ==
    ASSUME NEW S, NEW s \in Seq(S), NEW e \in S, Distinct(s), ~In(s, e)
    PROVE  /\ Distinct(<<e>> \o s)
           /\ \A x : In(<<e>> \o s, x) <=> In(s, x) \/ x = e
  <1>t. /\ Len(s) \in Nat /\ Len(<<e>> \o s) = Len(s) + 1
        /\ (<<e>> \o s)[1] = e
        /\ \A i \in 1 .. Len(s) : (<<e>> \o s)[i + 1] = s[i]
    BY PushElements
  <1> DEFINE r == <<e>> \o s
  <1> HIDE DEF r
  <1>1. \A i \in 1 .. Len(r) : i = 1 \/ (i - 1 \in 1 .. Len(s) /\ r[i] = s[i - 1])
    BY <1>t DEF r
  <1>2. Distinct(r)
    <2> SUFFICES ASSUME NEW i \in 1 .. Len(r), NEW j \in 1 .. Len(r), r[i] = r[j]
                 PROVE  i = j
      BY Zenon DEF Distinct
    <2>1. CASE i = 1 /\ j # 1
      BY <2>1, <1>1, <1>t, Zenon DEF In, r
    <2>2. CASE i # 1 /\ j = 1
      BY <2>2, <1>1, <1>t, Zenon DEF In, r
    <2>3. CASE i # 1 /\ j # 1
      <3>1. i - 1 = j - 1
        BY <2>3, <1>1, Zenon DEF Distinct
      <3> QED BY <3>1, <1>t DEF r
    <2> QED BY <2>1, <2>2, <2>3
  <1>3. ASSUME NEW x, In(s, x) PROVE In(r, x)
    <2>1. PICK i \in 1 .. Len(s) : s[i] = x
      BY <1>3, Zenon DEF In
    <2>2. i + 1 \in 1 .. Len(r) /\ r[i + 1] = x
      BY <2>1, <1>t DEF r
    <2> QED BY <2>2 DEF In
  <1>4. In(r, e)
    BY <1>t DEF In, r
  <1>5. ASSUME NEW x, In(r, x), x # e PROVE In(s, x)
    BY <1>5, <1>1, <1>t DEF In, r
  <1> QED BY <1>2, <1>3, <1>4, <1>5 DEF r

-----------------------------------------------------------------------------
(* Shutdown: ShutdownInv is inductive                                      *)

\* The pool starts without tasks and without a stop.
LEMMA ShutdownInit == Init => ShutdownInv
  <1> SUFFICES ASSUME Init PROVE ShutdownInv
    BY Zenon
  <1>1. <<>> \in Seq(Tasks)
    OBVIOUS
  <1>2. TypeOK
    BY <1>1, Zenon DEF Init, TypeOK
  <1>3. FlagFirst /\ NoTaskStranded /\ ShutdownStopsTasks
    BY Zenon DEF Init, FlagFirst, NoTaskStranded, ShutdownStopsTasks
  <1>4. ShownBeforeShutdown /\ ShownOrStopped
    BY Zenon DEF Init, ShownBeforeShutdown, ShownOrStopped
  <1> QED BY <1>2, <1>3, <1>4 DEF ShutdownInv

\* A worker that leaves, sleeps or takes a task: it executes none before, so
\* the one it has shown has returned.
LEMMA ShutdownWork ==
    ASSUME ShutdownInv, NEW w \in Workers, Work(w)
    PROVE  ShutdownInv'
  <1> USE DEF ShutdownInv
  <1>w. w \in Threads /\ stack[w] = <<>> /\ stack[w] \in Seq(Tasks)
    BY Zenon DEF Work, Threads, TypeOK
  <1>n. \A task : ~Executes(w, task)
    BY <1>w DEF Executes
  <1>u. UNCHANGED <<shutdown_requested, worker_stop, begun, done,
                    stop_requested, shutting, shutdown_done, pool>>
    BY Zenon DEF Work
  <1>s. ShutdownStopsTasks'
    BY <1>u, Zenon DEF ShutdownStopsTasks
  <1>o. ASSUME NEW v \in Workers, v # w
        PROVE  active'[v] = active[v] /\ stack'[v] = stack[v]
    BY <1>o, Zenon DEF Work, Work_exit, Work_wait, Work_take, TypeOK, Threads
  <1>r. ShownOrStopped'
    <2> SUFFICES ASSUME NEW k \in begun \ done, k \notin stop_requested
                 PROVE  \E v \in Workers : active'[v] = k /\ Executes(v, k)'
      BY <1>u, Zenon DEF ShownOrStopped
    <2>1. PICK v \in Workers : active[v] = k /\ Executes(v, k)
      BY Zenon DEF ShownOrStopped
    <2>2. active'[v] = active[v] /\ stack'[v] = stack[v]
      BY <2>1, <1>n, <1>o, Zenon
    <2> QED BY <2>1, <2>2 DEF Executes
  <1>1. CASE Work_exit(w)
    <2>1. TypeOK'
      BY <1>1, <1>u, Zenon DEF Work_exit, TypeOK
    <2>2. FlagFirst' /\ NoTaskStranded'
      BY <1>1, <1>u, Zenon DEF Work_exit, FlagFirst, NoTaskStranded
    <2>3. ShownBeforeShutdown'
      BY <1>1, <1>u, <1>w, Zenon DEF Work_exit, ShownBeforeShutdown, TypeOK
    <2> QED BY <2>1, <2>2, <2>3, <1>r, <1>s
  <1>2. CASE Work_wait(w)
    <2>1. TypeOK'
      BY <1>2, <1>u, Zenon DEF Work_wait, TypeOK
    <2>2. FlagFirst' /\ NoTaskStranded'
      BY <1>2, <1>u, Zenon DEF Work_wait, FlagFirst, NoTaskStranded
    <2>3. ShownBeforeShutdown'
      BY <1>2, <1>u, <1>w, Zenon DEF Work_wait, ShownBeforeShutdown, TypeOK
    <2> QED BY <2>1, <2>2, <2>3, <1>r, <1>s
  <1>3. CASE Work_take(w)
    <2>q. Tail(queue) \in Seq(Tasks) /\ Head(queue) \in Tasks
      BY <1>3, TailElements, Zenon DEF Work_take, TypeOK
    <2>h. <<Head(queue)>> \in Seq(Tasks)
      BY <2>q, SingletonElements, Zenon
    <2>1. TypeOK'
      BY <1>3, <1>u, <2>q, <2>h, Zenon DEF Work_take, TypeOK
    <2>2. FlagFirst' /\ NoTaskStranded'
      BY <1>3, <1>u, Zenon DEF Work_take, FlagFirst, NoTaskStranded
    <2>3. ShownBeforeShutdown'
      BY <1>3, <1>u, <1>w, Zenon DEF Work_take, ShownBeforeShutdown, TypeOK
    <2> QED BY <2>1, <2>2, <2>3, <1>r, <1>s
  <1> QED BY <1>1, <1>2, <1>3 DEF Work

\* A task begins: stopped after the flag was set, shown before.
LEMMA ShutdownExecute ==
    ASSUME ShutdownInv, NEW t \in Threads, Execute(t)
    PROVE  ShutdownInv'
  <1> USE DEF ShutdownInv
  <1> DEFINE task == Head(stack[t])
  <1>t. /\ stack[t] \in Seq(Tasks) /\ stack[t] # <<>> /\ task \in Tasks
        /\ task = stack[t][1] /\ Len(stack[t]) \in Nat /\ Len(stack[t]) > 0
    BY TailElements, Zenon DEF Execute, TypeOK
  <1>b. /\ begun' = begun \cup {task}
        /\ stop_requested' = IF shutdown_requested
                               THEN stop_requested \cup {task}
                               ELSE stop_requested
        /\ UNCHANGED <<queue, active, shutdown_requested, worker_stop, asleep,
                       exited, stack, done, shutting, shutdown_done, pool>>
    BY Zenon DEF Execute
  <1> HIDE DEF task
  <1>1. TypeOK'
    BY <1>t, <1>b, Zenon DEF TypeOK
  <1>2. FlagFirst' /\ NoTaskStranded' /\ ShownBeforeShutdown'
    BY <1>b, Zenon DEF FlagFirst, NoTaskStranded, ShownBeforeShutdown
  <1>3. ShownOrStopped'
    <2>1. CASE shutdown_requested
      BY <2>1, <1>b DEF ShownOrStopped, Executes
    <2>2. CASE ~shutdown_requested
      <3>1. t \in Workers /\ stack[t] = <<active[t]>>
        BY <2>2, <1>t, Zenon DEF ShownBeforeShutdown
      <3>2. active[t] = task /\ Executes(t, task)
        BY <3>1, <1>t DEF Executes
      <3> QED BY <3>1, <3>2, <2>2, <1>b DEF ShownOrStopped, Executes
    <2> QED BY <2>1, <2>2
  <1>4. ShutdownStopsTasks'
    BY <1>b, Zenon DEF ShutdownStopsTasks, FlagFirst
  <1> QED BY <1>1, <1>2, <1>3, <1>4

\* A task returns: the ones below it are still executed.
LEMMA ShutdownExecuteReturn ==
    ASSUME ShutdownInv, NEW t \in Threads, Execute_return(t)
    PROVE  ShutdownInv'
  <1> USE DEF ShutdownInv
  <1> DEFINE task == Head(stack[t])
  <1>t. /\ stack[t] \in Seq(Tasks) /\ stack[t] # <<>> /\ task \in Tasks
        /\ task = stack[t][1] /\ Len(stack[t]) \in Nat /\ Len(stack[t]) > 0
        /\ Tail(stack[t]) \in Seq(Tasks)
        /\ Len(Tail(stack[t])) = Len(stack[t]) - 1
        /\ \A i \in 1 .. Len(Tail(stack[t])) : Tail(stack[t])[i] = stack[t][i + 1]
    BY TailElements, Zenon DEF Execute_return, TypeOK
  <1>b. /\ done' = done \cup {task}
        /\ stack' = [stack EXCEPT ![t] = Tail(stack[t])]
        /\ UNCHANGED <<queue, active, shutdown_requested, worker_stop, asleep,
                       exited, begun, stop_requested, shutting, shutdown_done,
                       pool>>
    BY Zenon DEF Execute_return
  <1> HIDE DEF task
  <1>1. TypeOK'
    BY <1>t, <1>b, Zenon DEF TypeOK
  <1>2. FlagFirst' /\ NoTaskStranded' /\ ShutdownStopsTasks'
    BY <1>b, Zenon DEF FlagFirst, NoTaskStranded, ShutdownStopsTasks
  <1>3. ShownBeforeShutdown'
    <2> SUFFICES ASSUME ~shutdown_requested, NEW u \in Threads, stack'[u] # <<>>
                 PROVE  u \in Workers /\ stack'[u] = <<active[u]>>
      BY <1>b, Zenon DEF ShownBeforeShutdown
    <2>1. t \in Workers /\ stack[t] = <<active[t]>>
      BY <1>t, Zenon DEF ShownBeforeShutdown
    <2>2. Tail(stack[t]) = <<>>
      BY <2>1
    <2>3. u # t
      BY <2>2, <1>b, Zenon DEF TypeOK
    <2>4. stack'[u] = stack[u]
      BY <2>3, <1>b, Zenon DEF TypeOK
    <2> QED BY <2>4 DEF ShownBeforeShutdown
  <1>4. ShownOrStopped'
    <2> SUFFICES ASSUME NEW k \in begun \ done, k # task, k \notin stop_requested
                 PROVE  \E w \in Workers : active[w] = k /\ Executes(w, k)'
      BY <1>b, Zenon DEF ShownOrStopped
    <2>1. PICK w \in Workers : active[w] = k /\ Executes(w, k)
      BY Zenon DEF ShownOrStopped
    <2>2. Executes(w, k)'
      <3>1. CASE w # t
        BY <3>1, <2>1, <1>b, Zenon DEF Executes, TypeOK, Threads
      <3>2. CASE w = t
        <4>1. PICK i \in 1 .. Len(stack[t]) : stack[t][i] = k
          BY <3>2, <2>1, Zenon DEF Executes
        <4>2. i - 1 \in 1 .. Len(Tail(stack[t])) /\ Tail(stack[t])[i - 1] = k
          BY <4>1, <1>t
        <4>3. stack'[t] = Tail(stack[t])
          BY <1>b, Zenon DEF TypeOK
        <4> QED BY <4>2, <4>3, <3>2, Zenon DEF Executes
      <3> QED BY <3>1, <3>2
    <2> QED BY <2>1, <2>2
  <1> QED BY <1>1, <1>2, <1>3, <1>4

\* A task is posted: queued before the flag is set, when no worker has left,
\* and executed by the caller after.
LEMMA ShutdownEnqueue ==
    ASSUME ShutdownInv, NEW t \in Threads, NEW task \in Tasks, Enqueue(t, task)
    PROVE  ShutdownInv'
  <1> USE DEF ShutdownInv
  <1>u. UNCHANGED <<active, shutdown_requested, worker_stop, exited, begun,
                    done, stop_requested, shutting, shutdown_done, pool>>
    BY Zenon DEF Enqueue
  <1>f. FlagFirst' /\ ShutdownStopsTasks'
    BY <1>u, Zenon DEF FlagFirst, ShutdownStopsTasks
  <1>1. CASE Enqueue_queue(t, task)
    <2>1. queue' \in Seq(Tasks)
      BY <1>1, AppendElements, Zenon DEF Enqueue_queue, TypeOK
    <2>2. asleep' \subseteq Workers
      BY <1>1, Zenon DEF Enqueue_queue, NotifyOne, TypeOK
    <2>3. TypeOK'
      BY <1>1, <1>u, <2>1, <2>2, Zenon DEF Enqueue_queue, TypeOK
    <2>4. NoTaskStranded'
      BY <1>1, <1>u, Zenon DEF Enqueue_queue, NoTaskStranded, FlagFirst
    <2>5. ShownBeforeShutdown' /\ ShownOrStopped'
      BY <1>1, <1>u DEF Enqueue_queue, ShownBeforeShutdown, ShownOrStopped,
         Executes
    <2> QED BY <2>3, <2>4, <2>5, <1>f
  <1>2. CASE Enqueue_inline(t, task)
    <2>s. /\ stack[t] \in Seq(Tasks)
          /\ stack' = [stack EXCEPT ![t] = <<task>> \o stack[t]]
          /\ UNCHANGED <<queue, asleep>>
          /\ shutdown_requested
      BY <1>2, Zenon DEF Enqueue_inline, TypeOK
    <2>p. /\ <<task>> \o stack[t] \in Seq(Tasks)
          /\ Len(stack[t]) \in Nat
          /\ Len(<<task>> \o stack[t]) = Len(stack[t]) + 1
          /\ \A i \in 1 .. Len(stack[t]) :
                (<<task>> \o stack[t])[i + 1] = stack[t][i]
      BY <2>s, PushElements
    <2>1. TypeOK'
      BY <2>s, <2>p, <1>u, Zenon DEF TypeOK
    <2>2. NoTaskStranded' /\ ShownBeforeShutdown'
      BY <2>s, <1>u, Zenon DEF NoTaskStranded, ShownBeforeShutdown
    <2>3. ASSUME NEW v \in Threads, NEW k, Executes(v, k)
          PROVE  Executes(v, k)'
      <3>1. CASE v # t
        BY <3>1, <2>3, <2>s, Zenon DEF Executes, TypeOK
      <3>2. CASE v = t
        <4>1. PICK i \in 1 .. Len(stack[t]) : stack[t][i] = k
          BY <3>2, <2>3, Zenon DEF Executes
        <4>2. stack'[t] = <<task>> \o stack[t]
          BY <2>s, Zenon DEF TypeOK
        <4>3. i + 1 \in 1 .. Len(stack'[t]) /\ stack'[t][i + 1] = k
          BY <4>1, <4>2, <2>p
        <4> QED BY <4>3, <3>2 DEF Executes
      <3> QED BY <3>1, <3>2
    <2>4. ShownOrStopped'
      BY <2>3, <1>u, Zenon DEF ShownOrStopped, Threads
    <2> QED BY <2>1, <2>2, <2>4, <1>f
  <1> QED BY <1>1, <1>2 DEF Enqueue

\* The second step of a shutdown stops every task that is shown.
LEMMA StopsRequested ==
    ASSUME ShutdownInv, RequestStops,
           UNCHANGED <<active, stack, begun, done>>
    PROVE  /\ \A task \in begun \ done : task \in stop_requested'
           /\ stop_requested' \subseteq Tasks
           /\ worker_stop' = Workers /\ asleep' = {}
           /\ ShownOrStopped'
  <1>1. stop_requested \ {NoTask} \subseteq stop_requested'
    BY Zenon DEF RequestStops
  <1>2. begun \subseteq Tasks /\ NoTask \notin Tasks
    BY TasksAssumption, Zenon DEF ShutdownInv, TypeOK
  <1>3. \A task \in begun \ done : task \in stop_requested'
    BY <1>2, Zenon DEF ShutdownInv, ShownOrStopped, RequestStops
  <1>4. stop_requested' \subseteq Tasks
    BY Zenon DEF ShutdownInv, TypeOK, RequestStops
  <1> QED BY <1>3, <1>4 DEF RequestStops, ShownOrStopped

\* The steps of Shutdown, the destructor and a spurious wake-up.
LEMMA ShutdownOthers ==
    ASSUME ShutdownInv,
           \/ \E w \in Workers : spurious_wakeup(w)
           \/ \E t \in Threads : Shutdown(t) \/ InternalShutdown(t)
           \/ destroy \/ destroy_shutdown \/ destroy_join \/ destroy_joined
    PROVE  ShutdownInv'
  <1> USE DEF ShutdownInv
  <1>1. CASE \E w \in Workers : spurious_wakeup(w)
    <2>1. TypeOK'
      BY <1>1, Zenon DEF spurious_wakeup, TypeOK
    <2>2. FlagFirst' /\ NoTaskStranded' /\ ShutdownStopsTasks'
      BY <1>1 DEF spurious_wakeup, FlagFirst, NoTaskStranded, ShutdownStopsTasks
    <2>3. ShownBeforeShutdown' /\ ShownOrStopped'
      BY <1>1 DEF spurious_wakeup, ShownBeforeShutdown, ShownOrStopped, Executes
    <2> QED BY <2>1, <2>2, <2>3
  <1>2. ASSUME NEW t \in Threads, Shutdown(t)
        PROVE  ShutdownInv'
    <2>1. TypeOK'
      BY <1>2, Zenon DEF Shutdown, TypeOK
    <2>2. FlagFirst' /\ NoTaskStranded' /\ ShutdownStopsTasks'
      BY <1>2, Zenon DEF Shutdown, FlagFirst, NoTaskStranded, ShutdownStopsTasks
    <2>3. ShownBeforeShutdown' /\ ShownOrStopped'
      BY <1>2 DEF Shutdown, ShownBeforeShutdown, ShownOrStopped, Executes
    <2> QED BY <2>1, <2>2, <2>3
  <1>3. ASSUME NEW t \in Threads, InternalShutdown(t)
        PROVE  ShutdownInv'
    <2>r. /\ \A task \in begun \ done : task \in stop_requested'
          /\ stop_requested' \subseteq Tasks
          /\ worker_stop' = Workers /\ asleep' = {}
          /\ ShownOrStopped'
      BY <1>3, StopsRequested, Zenon DEF InternalShutdown
    <2>f. shutdown_requested
      BY <1>3, Zenon DEF InternalShutdown, FlagFirst
    <2>1. TypeOK'
      BY <1>3, <2>r, Zenon DEF InternalShutdown, TypeOK
    <2>2. FlagFirst' /\ NoTaskStranded' /\ ShutdownStopsTasks'
      BY <1>3, <2>r, <2>f, Zenon DEF InternalShutdown, FlagFirst, NoTaskStranded,
         ShutdownStopsTasks, TypeOK
    <2>3. ShownBeforeShutdown'
      BY <1>3, <2>f, Zenon DEF InternalShutdown, ShownBeforeShutdown
    <2> QED BY <2>1, <2>2, <2>3, <2>r
  <1>4. CASE destroy
    <2>1. TypeOK'
      BY <1>4, Zenon DEF destroy, TypeOK
    <2>2. FlagFirst' /\ NoTaskStranded' /\ ShutdownStopsTasks'
      BY <1>4, Zenon DEF destroy, FlagFirst, NoTaskStranded, ShutdownStopsTasks
    <2>3. ShownBeforeShutdown' /\ ShownOrStopped'
      BY <1>4 DEF destroy, ShownBeforeShutdown, ShownOrStopped, Executes
    <2> QED BY <2>1, <2>2, <2>3
  <1>5. CASE destroy_shutdown
    <2>r. /\ \A task \in begun \ done : task \in stop_requested'
          /\ stop_requested' \subseteq Tasks
          /\ worker_stop' = Workers /\ asleep' = {}
          /\ ShownOrStopped'
      BY <1>5, StopsRequested, Zenon DEF destroy_shutdown
    <2>f. shutdown_requested
      BY <1>5, Zenon DEF destroy_shutdown, FlagFirst
    <2>1. TypeOK'
      BY <1>5, <2>r, Zenon DEF destroy_shutdown, TypeOK
    <2>2. FlagFirst' /\ NoTaskStranded' /\ ShutdownStopsTasks'
      BY <1>5, <2>r, <2>f, Zenon DEF destroy_shutdown, FlagFirst, NoTaskStranded,
         ShutdownStopsTasks, TypeOK
    <2>3. ShownBeforeShutdown'
      BY <1>5, <2>f, Zenon DEF destroy_shutdown, ShownBeforeShutdown
    <2> QED BY <2>1, <2>2, <2>3, <2>r
  <1>6. CASE destroy_joined
    <2>1. TypeOK'
      BY <1>6, Zenon DEF destroy_joined, TypeOK
    <2>2. FlagFirst' /\ NoTaskStranded' /\ ShutdownStopsTasks'
      BY <1>6, Zenon DEF destroy_joined, FlagFirst, NoTaskStranded, ShutdownStopsTasks
    <2>3. ShownBeforeShutdown' /\ ShownOrStopped'
      BY <1>6 DEF destroy_joined, ShownBeforeShutdown, ShownOrStopped, Executes
    <2> QED BY <2>1, <2>2, <2>3
  <1>7. CASE destroy_join
    <2>1. TypeOK'
      BY <1>7, Zenon DEF destroy_join, TypeOK
    <2>2. FlagFirst' /\ NoTaskStranded' /\ ShutdownStopsTasks'
      BY <1>7, Zenon DEF destroy_join, TypeOK, FlagFirst, NoTaskStranded,
         ShutdownStopsTasks
    <2>3. ShownBeforeShutdown' /\ ShownOrStopped'
      BY <1>7 DEF destroy_join, ShownBeforeShutdown, ShownOrStopped, Executes
    <2> QED BY <2>1, <2>2, <2>3
  <1> QED BY <1>1, <1>2, <1>3, <1>4, <1>5, <1>6, <1>7

\* ShutdownInv holds in every reachable state.
THEOREM ShutdownInvariance == Spec => []ShutdownInv
  <1>1. ShutdownInv /\ [Next]_vars => ShutdownInv'
    <2> SUFFICES ASSUME ShutdownInv, [Next]_vars PROVE ShutdownInv'
      BY Zenon
    <2>1. CASE UNCHANGED vars
      BY <2>1 DEF vars, ShutdownInv, TypeOK, FlagFirst, NoTaskStranded,
         ShownBeforeShutdown, ShownOrStopped, ShutdownStopsTasks, Executes
    <2>2. CASE Next
      BY <2>2, ShutdownWork, ShutdownExecute, ShutdownExecuteReturn,
         ShutdownEnqueue, ShutdownOthers, Zenon DEF Next
    <2> QED BY <2>1, <2>2
  <1> QED BY ShutdownInit, <1>1, PTL DEF Spec

\* The variables of the pool keep their types.
THEOREM TypeCorrect == Spec => []TypeOK
  BY ShutdownInvariance, PTL DEF ShutdownInv

\* No task is left in the queue by workers that have gone: the shutdown flag is
\* set before queue_mutex_ is taken, and Enqueue reads it with the mutex.
THEOREM NoneStranded == Spec => []NoTaskStranded
  BY ShutdownInvariance, PTL DEF ShutdownInv

\* After InternalShutdown has returned, no task runs without its stop requested.
THEOREM AllStopped == Spec => []ShutdownStopsTasks
  BY ShutdownInvariance, PTL DEF ShutdownInv

-----------------------------------------------------------------------------
(* Each task in one place: PlaceInv is inductive                           *)

\* PlaceInv in terms of In and Distinct.
PlaceFacts ==
    /\ Distinct(queue)
    /\ \A t \in Threads : Distinct(stack[t])
    /\ \A k \in Tasks : In(queue, k) => k \notin begun
    /\ \A k \in Tasks, t \in Threads :
          In(stack[t], k) =>
              /\ ~In(queue, k) /\ k \notin done
              /\ \A u \in Threads : In(stack[u], k) => u = t
    /\ done \subseteq begun
    /\ \A k \in begun : k \in done \/ \E t \in Threads : In(stack[t], k)

\* The two say the same.
LEMMA PlaceRestated == TypeOK => (PlaceInv <=> PlaceFacts)
  <1> SUFFICES ASSUME TypeOK PROVE PlaceInv <=> PlaceFacts
    BY Zenon
  <1>1. \A k : Queued(k) <=> In(queue, k)
    BY Zenon DEF Queued, In
  <1>2. \A t, k : Executes(t, k) <=> In(stack[t], k)
    BY Zenon DEF Executes, In
  <1>3. (\A i, j \in 1 .. Len(queue) : queue[i] = queue[j] => i = j)
            <=> Distinct(queue)
    BY Zenon DEF Distinct
  <1>4. StackDistinct <=> \A t \in Threads : Distinct(stack[t])
    BY Zenon DEF StackDistinct, Distinct
  <1>5. BegunSomewhere <=>
            \A k \in begun : k \in done \/ \E t \in Threads : In(stack[t], k)
    BY <1>2, Zenon DEF BegunSomewhere
  <1>6. OnePlace <=>
            /\ Distinct(queue)
            /\ \A k \in Tasks : In(queue, k) => k \notin begun
            /\ \A k \in Tasks, t \in Threads :
                  In(stack[t], k) =>
                      /\ ~In(queue, k) /\ k \notin done
                      /\ \A u \in Threads : In(stack[u], k) => u = t
            /\ done \subseteq begun
    BY <1>1, <1>2, <1>3, Zenon DEF OnePlace
  <1> QED BY <1>4, <1>5, <1>6 DEF PlaceInv, PlaceFacts

\* A worker moves the first task from the queue to itself.
LEMMA PlaceWork ==
    ASSUME TypeOK, PlaceFacts, NEW w \in Workers, Work(w)
    PROVE  PlaceFacts'
  <1>w. w \in Threads /\ stack[w] = <<>> /\ UNCHANGED <<begun, done>>
    BY Zenon DEF Work, Threads
  <1>1. CASE Work_exit(w) \/ Work_wait(w)
    BY <1>1, <1>w DEF Work_exit, Work_wait, PlaceFacts
  <1>2. CASE Work_take(w)
    <2> DEFINE task == Head(queue)
    <2>q. /\ queue \in Seq(Tasks) /\ queue # <<>> /\ task \in Tasks
          /\ queue' = Tail(queue)
          /\ stack' = [stack EXCEPT ![w] = <<task>>]
      BY <1>2, TailElements, Zenon DEF Work_take, TypeOK
    <2>1. /\ Distinct(Tail(queue)) /\ In(queue, task)
          /\ \A k : In(Tail(queue), k) <=> In(queue, k) /\ k # task
      BY <2>q, TailIn, Zenon DEF PlaceFacts
    <2>2. /\ Distinct(<<task>>) /\ \A k : In(<<task>>, k) <=> k = task
      BY <2>q, SingletonElements DEF Distinct, In
    <2>3. /\ stack'[w] = <<task>>
          /\ \A u \in Threads : u # w => stack'[u] = stack[u]
      BY <2>q, <1>w, Zenon DEF TypeOK
    <2>4. \A k : ~In(stack[w], k)
      BY <1>w DEF In
    <2> HIDE DEF task
    <2> QED BY <2>q, <2>1, <2>2, <2>3, <2>4, <1>w DEF PlaceFacts
  <1> QED BY <1>1, <1>2 DEF Work

\* A task begins where it is.
LEMMA PlaceExecute ==
    ASSUME TypeOK, PlaceFacts, NEW t \in Threads, Execute(t)
    PROVE  PlaceFacts'
  <1> DEFINE task == Head(stack[t])
  <1>1. /\ stack[t] \in Seq(Tasks) /\ stack[t] # <<>> /\ task \in Tasks
    BY TailElements, Zenon DEF Execute, TypeOK
  <1>2. In(stack[t], task)
    BY <1>1, TailIn, Zenon DEF PlaceFacts
  <1>3. begun' = begun \cup {task} /\ UNCHANGED <<queue, stack, done>>
    BY Zenon DEF Execute
  <1> HIDE DEF task
  <1> QED BY <1>1, <1>2, <1>3 DEF PlaceFacts

\* A task leaves its thread when it is done.
LEMMA PlaceExecuteReturn ==
    ASSUME TypeOK, PlaceFacts, NEW t \in Threads, Execute_return(t)
    PROVE  PlaceFacts'
  <1> DEFINE task == Head(stack[t])
  <1>1. /\ stack[t] \in Seq(Tasks) /\ stack[t] # <<>> /\ task \in Tasks
        /\ Tail(stack[t]) \in Seq(Tasks)
    BY TailElements, Zenon DEF Execute_return, TypeOK
  <1>2. task \in begun
    BY <1>1, Zenon DEF Execute_return, InUserCode
  <1>3. /\ Distinct(Tail(stack[t])) /\ In(stack[t], task)
        /\ \A k : In(Tail(stack[t]), k) <=> In(stack[t], k) /\ k # task
    BY <1>1, TailIn, Zenon DEF PlaceFacts
  <1>4. /\ done' = done \cup {task} /\ UNCHANGED <<queue, begun>>
        /\ stack'[t] = Tail(stack[t])
        /\ \A u \in Threads : u # t => stack'[u] = stack[u]
    BY Zenon DEF Execute_return, TypeOK
  <1> HIDE DEF task
  <1>5. \A u \in Threads : Distinct(stack'[u])
    BY <1>3, <1>4, Zenon DEF PlaceFacts
  <1> QED BY <1>1, <1>2, <1>3, <1>4, <1>5 DEF PlaceFacts

\* A task that is nowhere is posted.
LEMMA PlaceEnqueue ==
    ASSUME TypeOK, PlaceFacts, NEW t \in Threads, NEW task \in Tasks,
           Enqueue(t, task)
    PROVE  PlaceFacts'
  <1>n. /\ ~In(queue, task) /\ task \notin done
        /\ \A u \in Threads : ~In(stack[u], task)
    BY Zenon DEF Enqueue, Posted, Queued, Executes, In
  <1>b. task \notin begun
    BY <1>n, Zenon DEF PlaceFacts
  <1>u. UNCHANGED <<begun, done>>
    BY Zenon DEF Enqueue
  <1>1. CASE Enqueue_queue(t, task)
    <2>1. queue' = Append(queue, task) /\ UNCHANGED stack
      BY <1>1, Zenon DEF Enqueue_queue
    <2>2. /\ Distinct(Append(queue, task))
          /\ \A k : In(Append(queue, task), k) <=> In(queue, k) \/ k = task
      BY <1>n, AppendIn, Zenon DEF PlaceFacts, TypeOK
    <2> QED BY <2>1, <2>2, <1>n, <1>b, <1>u DEF PlaceFacts
  <1>2. CASE Enqueue_inline(t, task)
    <2>1. /\ UNCHANGED queue
          /\ stack'[t] = <<task>> \o stack[t]
          /\ \A u \in Threads : u # t => stack'[u] = stack[u]
      BY <1>2, Zenon DEF Enqueue_inline, TypeOK
    <2>2. /\ Distinct(<<task>> \o stack[t])
          /\ \A k : In(<<task>> \o stack[t], k) <=> In(stack[t], k) \/ k = task
      BY <1>n, PushIn DEF PlaceFacts, TypeOK
    <2>3. \A u \in Threads : Distinct(stack'[u])
      BY <2>1, <2>2, Zenon DEF PlaceFacts
    <2>4. \A u \in Threads : \A k :
              In(stack'[u], k) <=> In(stack[u], k) \/ (u = t /\ k = task)
      BY <2>1, <2>2, Zenon
    <2>5. UNCHANGED <<queue, begun, done>>
      BY <2>1, <1>u, Zenon
    <2> QED BY <2>3, <2>4, <2>5, <1>n, <1>b DEF PlaceFacts
  <1> QED BY <1>1, <1>2 DEF Enqueue

\* PlaceInv holds in every reachable state.
THEOREM PlaceInvariance == Spec => []PlaceInv
  <1>1. Init => PlaceFacts
    BY DEF Init, PlaceFacts, Distinct, In, Threads
  <1>2. TypeOK /\ PlaceFacts /\ [Next]_vars => PlaceFacts'
    <2> SUFFICES ASSUME TypeOK, PlaceFacts, [Next]_vars PROVE PlaceFacts'
      BY Zenon
    <2>1. CASE UNCHANGED <<queue, stack, begun, done>>
      BY <2>1, Zenon DEF PlaceFacts
    <2>2. CASE Next
      BY <2>1, <2>2, PlaceWork, PlaceExecute, PlaceExecuteReturn, PlaceEnqueue, Zenon
         DEF Next, spurious_wakeup, Shutdown, InternalShutdown, destroy,
         destroy_shutdown, destroy_join, destroy_joined
    <2> QED BY <2>1, <2>2 DEF vars
  <1>3. TypeOK /\ PlaceFacts => PlaceInv
    BY PlaceRestated, Zenon
  <1> QED BY <1>1, <1>2, <1>3, TypeCorrect, PTL DEF Spec

\* No task is executed twice, dropped, or in two places at once.
THEOREM TaskInOnePlace == Spec => []OnePlace
  BY PlaceInvariance, PTL DEF PlaceInv

-----------------------------------------------------------------------------
(* The pool implements Executor                                            *)

\* Where a task is, given that it is in one place.
Place(k) ==
    IF k \in done THEN "over"
    ELSE IF k \in begun THEN "running"
    ELSE IF In(queue, k) \/ \E t \in Threads : In(stack[t], k) THEN "pending"
    ELSE "new"

Mapped ==
    /\ TypeOK /\ PlaceFacts
    /\ \A k \in Tasks : TaskState(k) = Place(k)

\* The refinement mapping, simplified: no task is executed again.
LEMMA MappedInvariance == Spec => []Mapped
  <1>1. TypeOK /\ PlaceInv => Mapped
    <2> SUFFICES ASSUME TypeOK, PlaceFacts, NEW k \in Tasks
                 PROVE  TaskState(k) = Place(k)
      BY PlaceRestated, Zenon DEF Mapped
    <2>1. /\ Queued(k) <=> In(queue, k)
          /\ \A t : Executes(t, k) <=> In(stack[t], k)
      BY Zenon DEF Queued, Executes, In
    <2>2. ~Again(k)
      BY <2>1, Zenon DEF Again, PlaceFacts
    <2> QED BY <2>1, <2>2 DEF TaskState, Place, Posted
  <1> QED BY <1>1, TypeCorrect, PlaceInvariance, PTL

\* Taking a task from the queue is not seen from outside.
LEMMA MappedWork ==
    ASSUME Mapped, Mapped', NEW w \in Workers, Work(w)
    PROVE  \A k \in Tasks : Place(k)' = Place(k)
  <1>w. w \in Threads /\ stack[w] = <<>> /\ UNCHANGED <<begun, done>>
    BY Zenon DEF Work, Threads
  <1>1. CASE Work_exit(w) \/ Work_wait(w)
    BY <1>1, <1>w, Zenon DEF Work_exit, Work_wait, Place
  <1>2. CASE Work_take(w)
    <2> DEFINE task == Head(queue)
    <2>q. /\ queue \in Seq(Tasks) /\ queue # <<>> /\ task \in Tasks
          /\ queue' = Tail(queue)
          /\ stack' = [stack EXCEPT ![w] = <<task>>]
      BY <1>2, TailElements, Zenon DEF Work_take, TypeOK, Mapped
    <2>1. /\ In(queue, task)
          /\ \A k : In(Tail(queue), k) <=> In(queue, k) /\ k # task
      BY <2>q, TailIn, Zenon DEF PlaceFacts, Mapped
    <2>2. \A k : In(<<task>>, k) <=> k = task
      BY <2>q, SingletonElements DEF In
    <2>3. /\ stack'[w] = <<task>>
          /\ \A u \in Threads : u # w => stack'[u] = stack[u]
      BY <2>q, <1>w, Zenon DEF TypeOK, Mapped
    <2>4. \A k : ~In(stack[w], k)
      BY <1>w DEF In
    <2> HIDE DEF task
    <2>5. \A k : (In(queue, k) \/ \E t \in Threads : In(stack[t], k))
                 <=> (In(queue', k) \/ \E t \in Threads : In(stack'[t], k))
      BY <2>q, <2>1, <2>2, <2>3, <2>4, <1>w, Zenon
    <2> QED BY <2>5, <1>w DEF Place
  <1> QED BY <1>1, <1>2 DEF Work

\* Execute() starts a task that was pending.
LEMMA MappedExecute ==
    ASSUME Mapped, Mapped', NEW t \in Threads, Execute(t)
    PROVE  \E k \in Tasks :
              /\ Place(k) = "pending" /\ Place(k)' = "running"
              /\ \A other \in Tasks \ {k} : Place(other)' = Place(other)
  <1> DEFINE task == Head(stack[t])
  <1>1. /\ stack[t] \in Seq(Tasks) /\ stack[t] # <<>> /\ task \in Tasks
    BY TailElements, Zenon DEF Execute, TypeOK, Mapped
  <1>2. In(stack[t], task)
    BY <1>1, TailIn, Zenon DEF PlaceFacts, Mapped
  <1>3. /\ task \notin begun
        /\ begun' = begun \cup {task} /\ UNCHANGED <<queue, stack, done>>
    BY Zenon DEF Execute
  <1> HIDE DEF task
  <1>4. task \notin done
    BY <1>1, <1>2, Zenon DEF PlaceFacts, Mapped
  <1> QED BY <1>1, <1>2, <1>3, <1>4 DEF Place

\* A task that returns is over.
LEMMA MappedExecuteReturn ==
    ASSUME Mapped, Mapped', NEW t \in Threads, Execute_return(t)
    PROVE  \E k \in Tasks :
              /\ Place(k) = "running" /\ Place(k)' = "over"
              /\ \A other \in Tasks \ {k} : Place(other)' = Place(other)
  <1>0. stack[t] \in Seq(Tasks) /\ stack[t] # <<>> /\ Head(stack[t]) \in Tasks
    BY TailElements, Zenon DEF Execute_return, TypeOK, Mapped
  <1>1. PICK task \in Tasks : task = Head(stack[t])
    BY <1>0, Zenon
  <1>2. task \in begun
    BY <1>0, <1>1, Zenon DEF Execute_return, InUserCode
  <1>3. /\ In(stack[t], task)
        /\ \A k : In(Tail(stack[t]), k) <=> In(stack[t], k) /\ k # task
    BY <1>0, <1>1, TailIn DEF PlaceFacts, Mapped
  <1>4. /\ done' = done \cup {task} /\ UNCHANGED <<queue, begun>>
        /\ stack'[t] = Tail(stack[t])
        /\ \A u \in Threads : u # t => stack'[u] = stack[u]
    BY <1>1, Zenon DEF Execute_return, TypeOK, Mapped
  <1>5. task \notin done
    BY <1>3, Zenon DEF PlaceFacts, Mapped
  <1>6. ASSUME NEW other \in Tasks \ {task} PROVE Place(other)' = Place(other)
    <2>1. (\E u \in Threads : In(stack'[u], other))
             <=> \E u \in Threads : In(stack[u], other)
      BY <1>3, <1>4, Zenon
    <2> QED BY <2>1, <1>4 DEF Place
  <1>7. Place(task) = "running" /\ Place(task)' = "over"
    BY <1>2, <1>4, <1>5, Zenon DEF Place
  <1> QED BY <1>6, <1>7

\* Enqueue makes a new task pending, in the queue or on the poster's stack.
LEMMA MappedEnqueue ==
    ASSUME Mapped, Mapped', NEW t \in Threads, NEW task \in Tasks,
           Enqueue(t, task)
    PROVE  /\ Place(task) = "new" /\ Place(task)' = "pending"
           /\ \A other \in Tasks \ {task} : Place(other)' = Place(other)
  <1>n. /\ ~In(queue, task) /\ task \notin done
        /\ \A u \in Threads : ~In(stack[u], task)
    BY Zenon DEF Enqueue, Posted, Queued, Executes, In
  <1>b. task \notin begun
    BY <1>n, Zenon DEF PlaceFacts, Mapped
  <1>u. UNCHANGED <<begun, done>>
    BY Zenon DEF Enqueue
  <1>1. CASE Enqueue_queue(t, task)
    <2>1. queue' = Append(queue, task) /\ UNCHANGED stack
      BY <1>1, Zenon DEF Enqueue_queue
    <2>2. \A k : In(Append(queue, task), k) <=> In(queue, k) \/ k = task
      BY <1>n, AppendIn DEF PlaceFacts, TypeOK, Mapped
    <2> QED BY <2>1, <2>2, <1>n, <1>b, <1>u DEF Place
  <1>2. CASE Enqueue_inline(t, task)
    <2>1. /\ UNCHANGED queue
          /\ stack'[t] = <<task>> \o stack[t]
          /\ \A u \in Threads : u # t => stack'[u] = stack[u]
      BY <1>2, Zenon DEF Enqueue_inline, TypeOK, Mapped
    <2>2. \A k : In(<<task>> \o stack[t], k) <=> In(stack[t], k) \/ k = task
      BY <1>n, PushIn DEF PlaceFacts, TypeOK, Mapped
    <2>3. \A u \in Threads : \A k :
              In(stack'[u], k) <=> In(stack[u], k) \/ (u = t /\ k = task)
      BY <2>1, <2>2, Zenon
    <2>4. \A k : (\E u \in Threads : In(stack'[u], k))
                 <=> (\E u \in Threads : In(stack[u], k)) \/ k = task
      BY <2>3, Zenon
    <2> QED BY <2>1, <2>4, <1>n, <1>b, <1>u, Zenon DEF Place
  <1> QED BY <1>1, <1>2 DEF Enqueue

\* The detailed pool implements the abstract executor, step by step.
THEOREM PoolImplementsExecutor == Spec => ImplementsExecutor
  <1> DEFINE state == [task \in Tasks |-> TaskState(task)]
  <1>1. Init => Abstract!Init
    <2> SUFFICES ASSUME Init PROVE Abstract!Init
      BY Zenon
    <2>1. ASSUME NEW k \in Tasks PROVE TaskState(k) = "new"
      BY DEF Init, TaskState, Again, Posted, Queued, Executes, Threads
    <2> QED BY <2>1 DEF Init, Abstract!Init
  <1>2. Mapped /\ Mapped' /\ [Next]_vars => [Abstract!Next]_(Abstract!vars)
    <2> SUFFICES ASSUME Mapped, Mapped', [Next]_vars
                 PROVE  [Abstract!Next]_(Abstract!vars)
      BY Zenon
    <2>s. \A k \in Tasks : state[k] = Place(k) /\ state'[k] = Place(k)'
      BY Zenon DEF Mapped
    <2>r. shutdown_requested => shutdown_requested'
      BY Zenon DEF Next, vars, Work, spurious_wakeup, Execute, Execute_return,
         Enqueue, Shutdown, InternalShutdown, destroy, destroy_shutdown,
         destroy_join, destroy_joined
    <2>1. ASSUME \A k \in Tasks : Place(k)' = Place(k)
          PROVE  [Abstract!Next]_(Abstract!vars)
      <3>1. state' = state
        BY <2>1, Zenon DEF Mapped
      <3> QED BY <3>1, <2>r DEF Abstract!Next, Abstract!Requests
    <2>2. ASSUME NEW k \in Tasks, NEW from, NEW to,
                 Place(k) = from, Place(k)' = to,
                 \A other \in Tasks \ {k} : Place(other)' = Place(other)
          PROVE  Abstract!Requests /\ Abstract!Step(k, from, to)
      <3>1. state[k] = from /\ state' = [state EXCEPT ![k] = to]
        BY <2>2, Zenon DEF Mapped
      <3> QED BY <3>1, <2>r DEF Abstract!Requests, Abstract!Step
    <2>3. CASE UNCHANGED <<queue, stack, begun, done>>
      BY <2>1, <2>3, Zenon DEF Place
    <2>4. CASE \E w \in Workers : Work(w)
      BY <2>1, <2>4, MappedWork, Zenon
    <2>5. CASE \E t \in Threads : Execute(t)
      BY <2>2, <2>5, MappedExecute, Zenon DEF Abstract!Next, Abstract!Start
    <2>6. CASE \E t \in Threads : Execute_return(t)
      BY <2>2, <2>6, MappedExecuteReturn, Zenon DEF Abstract!Next, Abstract!Return
    <2>7. CASE \E t \in Threads, task \in Tasks : Enqueue(t, task)
      BY <2>2, <2>7, MappedEnqueue, Zenon DEF Abstract!Next, Abstract!Post
    <2> QED
      BY <2>3, <2>4, <2>5, <2>6, <2>7, Zenon
      DEF Next, vars, spurious_wakeup, Shutdown, InternalShutdown, destroy,
          destroy_shutdown, destroy_join, destroy_joined
  <1> QED BY <1>1, <1>2, MappedInvariance, PTL
          DEF Spec, ImplementsExecutor, Abstract!Spec
=============================================================================
