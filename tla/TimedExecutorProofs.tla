------------------------- MODULE TimedExecutorProofs -------------------------
(***************************************************************************)
(* Proofs about TimedExecutor, for any number of workers, any tasks and    *)
(* any bound on the clock.                                                 *)
(***************************************************************************)
EXTENDS TimedExecutor, WellFoundedInduction, TLAPS

Points == 0 .. MaxTime + Interval
Entries == [time_point : Points, task : Tasks]

\* What ScheduleAtInternal keeps: the queue is sorted and has no task twice.
Sorted(q) ==
    \A i, j \in DOMAIN q : i <= j => q[i].time_point <= q[j].time_point
Distinct(q) ==
    \A i, j \in DOMAIN q : q[i].task = q[j].task => i = j
In(q, task) == \E i \in DOMAIN q : q[i].task = task

QueueInv ==
    /\ Sorted(queue) /\ Distinct(queue)
    /\ \A i \in DOMAIN queue : queue[i].time_point = point[queue[i].task]
    /\ \A task \in Tasks : In(queue, task) => result[task] = "pending"

Holds(w) ==
    pc[w] \in {"timed", "timed_woken", "run", "body", "after", "reschedule"}

\* A worker's task is nobody else's, and its promise is unresolved until the
\* task is about to be dropped.
HeldInv ==
    /\ \A w \in Workers :
          /\ Holds(w) <=> held[w] # NoTask
          /\ Holds(w) =>
                /\ ~In(queue, held[w])
                /\ \/ result[held[w]] = "pending"
                   \/ /\ result[held[w]] = "value"
                      /\ pc[w] = "after" /\ held[w] \in stop_requested
    /\ \A v, w \in Workers : Holds(w) /\ held[v] = held[w] => v = w
    /\ \A task \in Tasks : result[task] = "pending" =>
          In(queue, task) \/ \E w \in Workers : held[w] = task

\* free_ and waiting_ have every worker that sleeps, nobody is in free_ while
\* it waits for an execution point, and waiting_ has nobody else.
SleepInv ==
    /\ \A w \in Workers :
          /\ pc[w] = "free" => w \in free
          /\ pc[w] \in {"timed", "timed_woken"} => w \notin free
          /\ pc[w] = "timed" => <<point[held[w]], w>> \in waiting
    /\ \A pair \in waiting : /\ pc[pair[2]] \in {"timed", "timed_woken"}
                            /\ pair[1] = point[held[pair[2]]]

\* The inductive invariant.
IInv ==
    /\ TypeOK /\ QueueInv /\ HeldInv /\ SleepInv
    /\ QueueNotForgotten /\ StopForwarded
    /\ destroying => shutdown

-----------------------------------------------------------------------------
\* A set of naturals that is not empty has a first element.
LEMMA NatMin ==
    ASSUME NEW S, S \subseteq Nat, S # {}
    PROVE  \E m \in S : \A n \in S : m <= n
<1> DEFINE R == OpToRel(<, Nat)
<1>1. PICK m \in S : \A n \in S : <<n, m>> \notin R
  <2>1. IsWellFoundedOn(R, Nat)
    BY NatLessThanWellFounded, Zenon
  <2> HIDE DEF R
  <2> QED
    BY <2>1, WFMin, Zenon
<1>2. ASSUME NEW n \in S PROVE m <= n
  <2>1. <<n, m>> \in Nat \X Nat /\ <<n, m>>[1] = n /\ <<n, m>>[2] = m
    BY Zenon
  <2>2. ~(n < m)
    BY <1>1, <2>1, Zenon DEF OpToRel
  <2> QED
    BY <2>2
<1> QED
  BY <1>2, Zenon

\* Without its head, the queue keeps its order, and exactly the task of the
\* head is not in it any more.
LEMMA TailOfQueue ==
    ASSUME NEW q \in Seq(Entries), q # <<>>, Sorted(q), Distinct(q)
    PROVE  /\ Head(q) \in Entries /\ Tail(q) \in Seq(Entries)
           /\ Sorted(Tail(q)) /\ Distinct(Tail(q))
           /\ \A i \in DOMAIN Tail(q) : \E j \in DOMAIN q : Tail(q)[i] = q[j]
           /\ \A i \in DOMAIN Tail(q) :
                 Head(q).time_point <= Tail(q)[i].time_point
           /\ In(q, Head(q).task)
           /\ \A task : In(Tail(q), task) <=> In(q, task) /\ task # Head(q).task
<1>1. /\ Head(q) \in Entries /\ Tail(q) \in Seq(Entries)
      /\ Len(q) \in Nat \ {0} /\ DOMAIN q = 1 .. Len(q)
      /\ DOMAIN Tail(q) = 1 .. Len(q) - 1
      /\ Head(q) = q[1]
      /\ \A i \in 1 .. Len(q) - 1 : Tail(q)[i] = q[i + 1]
  OBVIOUS
<1>2. \A i \in 1 .. Len(q) - 1 : i + 1 \in 1 .. Len(q) /\ i + 1 # 1
  BY <1>1
<1>3. \A j \in 1 .. Len(q) : j # 1 => j - 1 \in 1 .. Len(q) - 1 /\ (j - 1) + 1 = j
  BY <1>1
<1>4. Sorted(Tail(q))
  BY <1>1, <1>2 DEF Sorted
<1>5. Distinct(Tail(q))
  BY <1>1, <1>2 DEF Distinct
<1>6. \A i \in DOMAIN Tail(q) : Head(q).time_point <= Tail(q)[i].time_point
  BY <1>1, <1>2 DEF Sorted
<1>7. ASSUME NEW task
      PROVE  In(Tail(q), task) <=> In(q, task) /\ task # Head(q).task
  <2>1. ASSUME In(Tail(q), task) PROVE In(q, task) /\ task # Head(q).task
    <3>1. PICK i \in 1 .. Len(q) - 1 : Tail(q)[i].task = task
      BY <2>1, <1>1, Zenon DEF In
    <3>2. /\ i + 1 \in DOMAIN q /\ 1 \in DOMAIN q /\ i + 1 # 1
          /\ q[i + 1].task = task
      BY <3>1, <1>1, <1>2
    <3>3. q[1].task # task
      BY <3>2, Zenon DEF Distinct
    <3> QED
      BY <1>1, <3>2, <3>3, Zenon DEF In
  <2>2. ASSUME In(q, task), task # Head(q).task PROVE In(Tail(q), task)
    <3>1. PICK j \in 1 .. Len(q) : q[j].task = task
      BY <2>2, <1>1, Zenon DEF In
    <3>2. j - 1 \in DOMAIN Tail(q) /\ Tail(q)[j - 1] = q[j]
      BY <2>2, <3>1, <1>1, <1>3, Zenon
    <3> QED
      BY <3>1, <3>2, Zenon DEF In
  <2> QED
    BY <2>1, <2>2, Zenon
<1> QED
  BY <1>1, <1>2, <1>4, <1>5, <1>6, <1>7 DEF In

\* The two parts of a sequence, and the concatenation of two sequences.
LEMMA SubSeqs ==
    ASSUME NEW S, NEW q \in Seq(S), NEW k \in 0 .. Len(q)
    PROVE  /\ SubSeq(q, 1, k) \in Seq(S) /\ Len(SubSeq(q, 1, k)) = k
           /\ \A i \in 1 .. k : SubSeq(q, 1, k)[i] = q[i]
           /\ SubSeq(q, k + 1, Len(q)) \in Seq(S)
           /\ Len(SubSeq(q, k + 1, Len(q))) = Len(q) - k
           /\ \A i \in 1 .. Len(q) - k : SubSeq(q, k + 1, Len(q))[i] = q[k + i]
<1>1. SubSeq(q, 1, k) \in Seq(S) /\ Len(SubSeq(q, 1, k)) = k
  OBVIOUS
<1>2. ASSUME NEW i \in 1 .. k PROVE SubSeq(q, 1, k)[i] = q[i]
  OBVIOUS
<1>3. /\ SubSeq(q, k + 1, Len(q)) \in Seq(S)
      /\ Len(SubSeq(q, k + 1, Len(q))) = Len(q) - k
  OBVIOUS
<1>4. ASSUME NEW i \in 1 .. Len(q) - k
      PROVE  SubSeq(q, k + 1, Len(q))[i] = q[k + i]
  OBVIOUS
<1> QED
  BY <1>1, <1>2, <1>3, <1>4, Zenon

LEMMA Concatenation ==
    ASSUME NEW S, NEW q \in Seq(S), NEW r \in Seq(S)
    PROVE  /\ q \o r \in Seq(S) /\ Len(q \o r) = Len(q) + Len(r)
           /\ \A i \in 1 .. Len(q) + Len(r) :
                 (q \o r)[i] = IF i <= Len(q) THEN q[i] ELSE r[i - Len(q)]
<1>1. q \o r \in Seq(S) /\ Len(q \o r) = Len(q) + Len(r)
  OBVIOUS
<1>2. ASSUME NEW i \in 1 .. Len(q) + Len(r)
      PROVE  (q \o r)[i] = IF i <= Len(q) THEN q[i] ELSE r[i - Len(q)]
  OBVIOUS
<1> QED
  BY <1>1, <1>2, Zenon

\* lower_bound: there is a first entry that is not earlier, or the end.
LEMMA LowerBound ==
    ASSUME NEW q \in Seq(Entries), NEW t
    PROVE  \E k \in 0 .. Len(q) :
              /\ \A i \in 1 .. k : q[i].time_point < t
              /\ k < Len(q) => ~(q[k + 1].time_point < t)
<1> DEFINE others == {i \in 1 .. Len(q) + 1 :
                        ~(i <= Len(q) /\ q[i].time_point < t)}
<1>1. Len(q) \in Nat /\ Len(q) + 1 \in others /\ others \subseteq Nat
  OBVIOUS
<1>2. PICK m \in others : \A n \in others : m <= n
  BY <1>1, NatMin, Zenon
<1>3. m - 1 \in 0 .. Len(q) /\ (m - 1) + 1 = m
  BY <1>1
<1>4. \A i \in 1 .. m - 1 : q[i].time_point < t
  BY <1>1, <1>2
<1>5. m - 1 < Len(q) => ~(q[m].time_point < t)
  BY <1>1
<1> QED
  BY <1>3, <1>4, <1>5, Zenon


\* ScheduleAtInternal keeps the order, adds exactly the new task, and has
\* either its entry or the former head at the head.
LEMMA InsertedQueue ==
    ASSUME queue \in Seq(Entries), Sorted(queue), Distinct(queue),
           NEW t \in Points, NEW task \in Tasks, ~In(queue, task),
           NEW q, q = Inserted(t, task)
    PROVE  /\ q \in Seq(Entries) /\ q # <<>> /\ Sorted(q) /\ Distinct(q)
           /\ \A i \in DOMAIN q :
                 q[i] = Entry(t, task) \/ \E j \in DOMAIN queue : q[i] = queue[j]
           /\ \A k : In(q, k) <=> In(queue, k) \/ k = task
           /\ \/ Head(q) = Entry(t, task)
              \/ queue # <<>> /\ Head(q) = Head(queue)
<1> DEFINE n == Len(queue)
           e == Entry(t, task)
<1>1. /\ n \in Nat /\ DOMAIN queue = 1 .. n
      /\ \A i \in 1 .. n : queue[i] \in Entries
  OBVIOUS
<1>2. PICK k \in 0 .. n :
         /\ \A i \in 1 .. k : queue[i].time_point < t
         /\ k < n => ~(queue[k + 1].time_point < t)
         /\ q = (SubSeq(queue, 1, k) \o <<e>>) \o SubSeq(queue, k + 1, n)
  BY LowerBound, Zenon DEF Inserted
<1> DEFINE s1 == SubSeq(queue, 1, k)
           s2 == SubSeq(queue, k + 1, n)
<1>3. q = (s1 \o <<e>>) \o s2
  BY <1>2, Zenon
<1>4. e \in Entries /\ e.time_point = t /\ e.task = task
  BY Zenon DEF Entry, Entries
<1>5. /\ s1 \in Seq(Entries) /\ Len(s1) = k
      /\ \A i \in 1 .. k : s1[i] = queue[i]
  BY <1>1
<1>6. /\ s2 \in Seq(Entries) /\ Len(s2) = n - k
      /\ \A i \in 1 .. n - k : s2[i] = queue[k + i]
  BY SubSeqs
<1> HIDE DEF e, s1, s2
<1>7. <<e>> \in Seq(Entries) /\ Len(<<e>>) = 1 /\ <<e>>[1] = e
  BY <1>4
<1>8. /\ s1 \o <<e>> \in Seq(Entries) /\ Len(s1 \o <<e>>) = k + 1
      /\ \A i \in 1 .. k : (s1 \o <<e>>)[i] = queue[i]
      /\ (s1 \o <<e>>)[k + 1] = e
  <2>1. /\ s1 \o <<e>> \in Seq(Entries) /\ Len(s1 \o <<e>>) = k + 1
        /\ \A i \in 1 .. k + 1 : (s1 \o <<e>>)[i] =
              IF i <= k THEN s1[i] ELSE <<e>>[i - k]
    BY <1>5, <1>7
  <2>2. /\ \A i \in 1 .. k : i \in 1 .. k + 1 /\ i <= k
        /\ k + 1 \in 1 .. k + 1 /\ ~(k + 1 <= k) /\ (k + 1) - k = 1
    BY <1>1
  <2> QED
    BY <1>5, <1>7, <2>1, <2>2, Zenon
<1>9. /\ q \in Seq(Entries) /\ Len(q) = n + 1
      /\ \A i \in 1 .. k : q[i] = queue[i]
      /\ q[k + 1] = e
      /\ \A i \in k + 2 .. n + 1 : q[i] = queue[i - 1]
  <2>1. /\ q \in Seq(Entries) /\ Len(q) = (k + 1) + (n - k)
        /\ \A i \in 1 .. (k + 1) + (n - k) : q[i] =
              IF i <= k + 1 THEN (s1 \o <<e>>)[i] ELSE s2[i - (k + 1)]
    <3> DEFINE s3 == s1 \o <<e>>
    <3>1. s3 \in Seq(Entries) /\ s2 \in Seq(Entries)
      BY <1>6, <1>8, Zenon
    <3>2. Len(s3) = k + 1 /\ Len(s2) = n - k /\ q = s3 \o s2
      BY <1>3, <1>6, <1>8, Zenon
    <3> HIDE DEF s3
    <3>3. /\ s3 \o s2 \in Seq(Entries) /\ Len(s3 \o s2) = Len(s3) + Len(s2)
          /\ \A i \in 1 .. Len(s3) + Len(s2) : (s3 \o s2)[i] =
                IF i <= Len(s3) THEN s3[i] ELSE s2[i - Len(s3)]
      BY <3>1, Concatenation, Zenon
    <3>4. /\ q \in Seq(Entries) /\ Len(q) = (k + 1) + (n - k)
          /\ \A i \in 1 .. (k + 1) + (n - k) : q[i] =
                IF i <= k + 1 THEN s3[i] ELSE s2[i - (k + 1)]
      BY <3>2, <3>3, Zenon
    <3> QED
      BY <3>4, Zenon DEF s3
  <2>2. \A i \in k + 2 .. n + 1 : /\ i \in 1 .. (k + 1) + (n - k)
                                  /\ i - (k + 1) \in 1 .. n - k
                                  /\ k + (i - (k + 1)) = i - 1
                                  /\ ~(i <= k + 1)
    BY <1>1
  <2>3. \A i \in k + 2 .. n + 1 : q[i] = queue[i - 1]
    BY <1>6, <2>1, <2>2, Zenon
  <2>4. /\ \A i \in 1 .. k : i \in 1 .. (k + 1) + (n - k) /\ i <= k + 1
        /\ k + 1 \in 1 .. (k + 1) + (n - k) /\ k + 1 <= k + 1
    BY <1>1
  <2>5. q[k + 1] = e /\ \A i \in 1 .. k : q[i] = queue[i]
    BY <1>8, <2>1, <2>4, Zenon
  <2>6. (k + 1) + (n - k) = n + 1
    BY <1>1
  <2> QED
    BY <2>1, <2>3, <2>5, <2>6, Zenon
<1>10. DOMAIN q = 1 .. n + 1
  BY <1>9
<1>11. /\ \A i \in 1 .. k : queue[i].time_point < t
       /\ \A i \in k + 1 .. n : t <= queue[i].time_point
  <2>1. \A i \in 1 .. n : queue[i].time_point \in Int /\ t \in Int
    BY <1>1, MaxTimeAssumption DEF Entries, Points, Interval
  <2>2. ASSUME NEW i \in k + 1 .. n PROVE t <= queue[i].time_point
    <3>1. k + 1 \in 1 .. n /\ i \in 1 .. n /\ k + 1 <= i /\ k < n
      BY <1>1
    <3>2. queue[k + 1].time_point <= queue[i].time_point
      BY <1>1, <3>1, Zenon DEF Sorted
    <3> QED
      BY <1>2, <2>1, <3>1, <3>2
  <2> QED
    BY <1>2, <2>2, Zenon
<1>12. Sorted(q)
  <2> SUFFICES ASSUME NEW i \in 1 .. n + 1, NEW j \in 1 .. n + 1, i <= j
               PROVE  q[i].time_point <= q[j].time_point
    BY <1>10, Zenon DEF Sorted
  <2>1. \A a, b \in 1 .. n : a <= b => queue[a].time_point <= queue[b].time_point
    BY <1>1, Zenon DEF Sorted
  <2>2. \A a \in 1 .. n : queue[a].time_point \in Int /\ t \in Int
    BY <1>1, MaxTimeAssumption DEF Entries, Points, Interval
  <2>3. CASE j \in 1 .. k
    BY <1>1, <1>9, <2>1, <2>3
  <2>4. CASE j = k + 1
    <3>1. CASE i \in 1 .. k
      <4>1. q[i] = queue[i] /\ queue[i].time_point < t /\ q[j].time_point = t
        BY <1>4, <1>9, <1>11, <2>4, <3>1, Zenon
      <4>2. queue[i].time_point \in Int /\ t \in Int
        BY <1>1, <2>2, <3>1
      <4> QED
        BY <4>1, <4>2
    <3>2. CASE i = k + 1
      BY <1>4, <1>9, <2>4, <3>2, MaxTimeAssumption DEF Points, Interval
    <3> QED
      BY <1>1, <2>4, <3>1, <3>2
  <2>5. CASE j \in k + 2 .. n + 1
    <3>1. j - 1 \in k + 1 .. n /\ q[j] = queue[j - 1]
      BY <1>1, <1>9, <2>5
    <3>2. CASE i \in 1 .. k
      BY <1>1, <1>9, <2>1, <3>1, <3>2
    <3>3. CASE i = k + 1
      BY <1>4, <1>9, <1>11, <3>1, <3>3, Zenon
    <3>4. CASE i \in k + 2 .. n + 1
      BY <1>1, <1>9, <2>1, <3>1, <3>4
    <3> QED
      BY <1>1, <3>2, <3>3, <3>4
  <2> QED
    BY <1>1, <2>3, <2>4, <2>5
\* Where an entry of q comes from.
<1> DEFINE from(i) == IF i <= k THEN i ELSE i - 1
<1>13. \A i \in 1 .. n + 1 :
          i # k + 1 => from(i) \in 1 .. n /\ q[i] = queue[from(i)]
  <2> SUFFICES ASSUME NEW i \in 1 .. n + 1, i # k + 1
               PROVE  from(i) \in 1 .. n /\ q[i] = queue[from(i)]
    BY Zenon
  <2>1. CASE i <= k
    BY <1>1, <1>9, <2>1
  <2>2. CASE ~(i <= k)
    BY <1>1, <1>9, <2>2
  <2> QED
    BY <2>1, <2>2, Zenon
<1>14. \A i, j \in 1 .. n + 1 :
          i # k + 1 /\ j # k + 1 /\ from(i) = from(j) => i = j
  BY <1>1
<1>15. \A j \in 1 .. n : \E i \in 1 .. n + 1 : i # k + 1 /\ q[i] = queue[j]
  <2> SUFFICES ASSUME NEW j \in 1 .. n
               PROVE  \E i \in 1 .. n + 1 : i # k + 1 /\ q[i] = queue[j]
    BY Zenon
  <2>1. CASE j <= k
    BY <1>1, <1>9, <2>1
  <2>2. CASE ~(j <= k)
    <3>1. /\ j + 1 \in k + 2 .. n + 1 /\ j + 1 \in 1 .. n + 1
          /\ (j + 1) - 1 = j /\ j + 1 # k + 1
      BY <1>1, <2>2
    <3>2. q[j + 1] = queue[j]
      BY <1>9, <3>1, Zenon
    <3> QED
      BY <3>1, <3>2, Zenon
  <2> QED
    BY <2>1, <2>2, Zenon
<1> HIDE DEF from
<1>16. \A j \in 1 .. n : queue[j].task # task
  BY <1>1, Zenon DEF In
<1>17. Distinct(q)
  <2> SUFFICES ASSUME NEW i \in 1 .. n + 1, NEW j \in 1 .. n + 1,
                      q[i].task = q[j].task
               PROVE  i = j
    BY <1>10, Zenon DEF Distinct
  <2>1. CASE i # k + 1 /\ j # k + 1
    BY <1>1, <1>13, <1>14, <2>1 DEF Distinct
  <2>2. CASE i = k + 1 \/ j = k + 1
    BY <1>4, <1>9, <1>13, <1>16, <2>2, SMTT(30)
  <2> QED
    BY <2>1, <2>2, Zenon
<1>18. \A i \in DOMAIN q : q[i] = e \/ \E j \in DOMAIN queue : q[i] = queue[j]
  BY <1>1, <1>9, <1>10, <1>13, Zenon
<1>19. k + 1 \in DOMAIN q /\ q[k + 1].task = task
  BY <1>1, <1>4, <1>9, <1>10
<1>20. ASSUME NEW other PROVE In(q, other) <=> In(queue, other) \/ other = task
  <2>1. ASSUME In(q, other) PROVE In(queue, other) \/ other = task
    BY <1>4, <1>18, <2>1 DEF In
  <2>2. ASSUME In(queue, other) PROVE In(q, other)
    BY <1>1, <1>10, <1>15, <2>2, Zenon DEF In
  <2> QED
    BY <1>19, <2>1, <2>2, Zenon DEF In
<1>21. q # <<>> /\ Head(q) = q[1]
  BY <1>1, <1>9
<1>22. Head(q) = e \/ (queue # <<>> /\ Head(q) = Head(queue))
  <2>1. CASE k = 0
    BY <1>9, <1>21, <2>1
  <2>2. CASE k # 0
    <3>1. 1 \in 1 .. k /\ n # 0
      BY <1>1, <2>2
    <3>2. q[1] = queue[1] /\ queue # <<>> /\ Head(queue) = queue[1]
      BY <1>9, <3>1
    <3> QED
      BY <1>21, <3>2, Zenon
  <2> QED
    BY <2>1, <2>2, Zenon
<1> QED
  BY <1>9, <1>12, <1>17, <1>18, <1>20, <1>21, <1>22, Zenon DEF e

\* The pcs after a notification: nobody moves except from its sleep.
Woken(pcs, after) ==
    /\ after \in [Workers -> Pcs]
    /\ \A w \in Workers :
          \/ after[w] = pcs[w]
          \/ pcs[w] = "free" /\ after[w] = "free_woken"
          \/ pcs[w] = "timed" /\ after[w] = "timed_woken"

\* notify_one, on whatever condition variable.
LEMMA NotifiedWakes ==
    ASSUME NEW pcs \in [Workers -> Pcs], NEW v
    PROVE  /\ Woken(pcs, Notified(v, pcs))
           /\ v \in Workers => Notified(v, pcs)[v] \notin {"free", "timed"}
<1> DEFINE label == CASE pcs[v] = "free" -> "free_woken"
                      [] pcs[v] = "timed" -> "timed_woken"
                      [] OTHER -> pcs[v]
           after == [pcs EXCEPT ![v] = label]
<1>1. Notified(v, pcs) = after
  BY Zenon DEF Notified
<1>2. CASE v \in Workers
  <2>1. /\ pcs[v] = "free" => label = "free_woken"
        /\ pcs[v] = "timed" => label = "timed_woken"
        /\ pcs[v] \notin {"free", "timed"} => label = pcs[v]
    BY Zenon
  <2>2. label \in Pcs
    BY <1>2, <2>1, Zenon DEF Pcs
  <2> HIDE DEF label
  <2>3. after \in [Workers -> Pcs]
    BY <2>2, Zenon
  <2>4. \A w \in Workers : after[w] = IF w = v THEN label ELSE pcs[w]
    BY Zenon
  <2>5. label \notin {"free", "timed"}
    BY <2>1, Zenon
  <2> QED
    BY <1>1, <1>2, <2>1, <2>3, <2>4, <2>5, Zenon DEF Woken
<1>3. CASE v \notin Workers
  <2>1. after = pcs
    BY <1>3, Zenon
  <2> QED
    BY <1>1, <1>3, <2>1, Zenon DEF Woken
<1> QED
  BY <1>2, <1>3, Zenon

\* WakeUp wakes at most one worker, and does not touch the others.
LEMMA WakeUpWakes ==
    ASSUME NEW t, NEW idle, NEW waiters, NEW pcs \in [Workers -> Pcs]
    PROVE  Woken(pcs, WakeUp(t, idle, waiters, pcs))
<1>1. Woken(pcs, pcs)
  BY Zenon DEF Woken
<1>2. \A v : Woken(pcs, Notified(v, pcs))
  BY NotifiedWakes, Zenon
<1> DEFINE later == {pair \in waiters : pair[1] >= t}
<1>3. \/ WakeUp(t, idle, waiters, pcs) = pcs
      \/ \E v : WakeUp(t, idle, waiters, pcs) = Notified(v, pcs)
  <2>1. CASE idle # {}
    BY <2>1, Zenon DEF WakeUp
  <2>2. CASE idle = {} /\ later # {}
    BY <2>2, Zenon DEF WakeUp
  <2>3. CASE idle = {} /\ later = {}
    BY <2>3, Zenon DEF WakeUp
  <2> QED
    BY <2>1, <2>2, <2>3, Zenon
<1> QED
  BY <1>1, <1>2, <1>3, Zenon

\* The first of a set of workers is one of them.
LEMMA FirstWorker ==
    ASSUME NEW S, S \subseteq Workers, S # {}
    PROVE  First(S) \in S
<1>1. S \subseteq Nat
  BY NumWorkersAssumption DEF Workers
<1>2. \E w \in S : \A v \in S : w <= v
  BY <1>1, NatMin, Zenon
<1> QED
  BY <1>2, Zenon DEF First

\* If WakeUp leaves everyone asleep, nobody is free and whoever waits for an
\* execution point waits for an earlier one.
LEMMA WakeUpMisses ==
    ASSUME TypeOK, SleepInv, NEW t \in Points,
           \A w \in Workers : WakeUp(t, free, waiting, pc)[w] \in {"free", "timed"}
    PROVE  \A w \in Workers :
              /\ pc[w] = "timed" /\ point[held[w]] < t
              /\ WakeUp(t, free, waiting, pc)[w] = pc[w]
<1> DEFINE later == {pair \in waiting : pair[1] >= t}
           soonest == {pair \in later : \A other \in later : pair[1] <= other[1]}
<1>t. /\ pc \in [Workers -> Pcs] /\ free \subseteq Workers
      /\ waiting \subseteq Points \X Workers
  BY Zenon DEF TypeOK, Points
<1>w. Woken(pc, WakeUp(t, free, waiting, pc))
  BY <1>t, WakeUpWakes, Zenon
<1>1. \A w \in Workers : /\ pc[w] \in {"free", "timed"}
                         /\ WakeUp(t, free, waiting, pc)[w] = pc[w]
  BY <1>w, Zenon DEF Woken
<1>2. free = {}
  <2> SUFFICES ASSUME free # {} PROVE FALSE
    BY Zenon
  <2>1. WakeUp(t, free, waiting, pc) = Notified(First(free), pc)
    BY Zenon DEF WakeUp
  <2>2. First(free) \in Workers
    BY <1>t, FirstWorker, Zenon
  <2> QED
    BY <1>t, <2>1, <2>2, NotifiedWakes, Zenon
<1>3. later = {}
  <2> SUFFICES ASSUME later # {} PROVE FALSE
    BY Zenon
  <2>1. WakeUp(t, free, waiting, pc) = Notified(First({pair[2] : pair \in soonest}), pc)
    BY <1>2, Zenon DEF WakeUp
  <2>2. {pair[1] : pair \in later} \subseteq Nat /\ {pair[1] : pair \in later} # {}
    BY <1>t, MaxTimeAssumption DEF Points, Interval
  <2>3. PICK m \in {pair[1] : pair \in later} : \A n \in {pair[1] : pair \in later} : m <= n
    BY <2>2, NatMin, Zenon
  <2>4. soonest # {}
    BY <2>3
  <2>5. {pair[2] : pair \in soonest} \subseteq Workers /\ {pair[2] : pair \in soonest} # {}
    BY <1>t, <2>4, Zenon
  <2>6. First({pair[2] : pair \in soonest}) \in Workers
    BY <2>5, FirstWorker, Zenon
  <2> QED
    BY <1>t, <2>1, <2>6, NotifiedWakes, Zenon
<1>4. ASSUME NEW w \in Workers PROVE pc[w] = "timed" /\ point[held[w]] < t
  <2>1. pc[w] = "timed"
    BY <1>1, <1>2, Zenon DEF SleepInv
  <2>2. <<point[held[w]], w>> \in waiting
    BY <2>1, Zenon DEF SleepInv
  <2>3. point[held[w]] \in Points
    BY <1>t, <2>2, Zenon
  <2>4. ~(point[held[w]] >= t)
    BY <1>3, <2>2
  <2> QED
    BY <2>1, <2>3, <2>4, MaxTimeAssumption DEF Points, Interval
<1> QED
  BY <1>1, <1>4, Zenon

\* In the beginning the queue is empty and nobody has a task.
LEMMA InitIInv == Init => IInv
<1> SUFFICES ASSUME Init PROVE IInv
  BY Zenon
<1> USE NumWorkersAssumption, TasksAssumption, MaxTimeAssumption DEF Init
<1>1. TypeOK
  <2>1. <<>> \in Seq([time_point : 0 .. MaxTime + Interval, task : Tasks])
    OBVIOUS
  <2>2. now \in 0 .. MaxTime /\ point \in [Tasks -> 0 .. MaxTime + Interval]
    BY DEF Interval
  <2> QED
    BY <2>1, <2>2, Zenon DEF TypeOK, Pcs, Results
<1>2. DOMAIN queue = {}
  OBVIOUS
<1>3. QueueInv
  BY <1>2, Zenon DEF QueueInv, Sorted, Distinct, In
<1>4. HeldInv
  BY <1>2, Zenon DEF HeldInv, Holds, In, Tasks
<1>5. SleepInv /\ QueueNotForgotten /\ StopForwarded
  BY Zenon DEF SleepInv, QueueNotForgotten, StopForwarded
<1> QED
  BY <1>1, <1>3, <1>4, <1>5, Zenon DEF IInv

\* A worker that was asked to stop exits, another one enters Work.
LEMMA loop_IInv ==
    ASSUME IInv, NEW w \in Workers, loop(w)
    PROVE  IInv'
<1> USE DEF IInv, loop
<1>1. TypeOK'
  BY Zenon DEF TypeOK, Pcs
<1>2. QueueInv'
  BY Zenon DEF QueueInv
<1>3. HeldInv'
  BY SMT DEF HeldInv, Holds
<1>4. SleepInv'
  BY SMT DEF SleepInv
<1>5. QueueNotForgotten'
  <2>1. pc'[w] \notin {"free", "timed"}
    BY Zenon DEF TypeOK
  <2> QED
    BY <2>1, Zenon DEF QueueNotForgotten
<1>6. StopForwarded'
  BY SMT DEF StopForwarded
<1>7. (destroying => shutdown)'
  BY Zenon
<1> QED
  BY <1>1, <1>2, <1>3, <1>4, <1>5, <1>6, <1>7, Zenon

\* A wait ends spuriously or because the time has come.
LEMMA wake_unnotified_IInv ==
    ASSUME IInv, NEW w \in Workers, wake_unnotified(w)
    PROVE  IInv'
<1> USE DEF IInv, wake_unnotified
<1>a. Woken(pc, pc')
  BY NotifiedWakes, Zenon DEF TypeOK
<1>1. TypeOK'
  BY <1>a, Zenon DEF TypeOK, Woken, StopForwarded, HeldInv, Holds
<1>2. QueueInv'
  BY Zenon DEF QueueInv
<1>3. HeldInv'
  BY <1>a, SMT DEF Woken, HeldInv, Holds
<1>4. SleepInv'
  BY <1>a, Zenon DEF TypeOK, Woken, SleepInv
<1>5. QueueNotForgotten'
  BY <1>a, Zenon DEF Woken, QueueNotForgotten
<1>6. StopForwarded'
  BY <1>a, Zenon DEF Woken, StopForwarded
<1>7. (destroying => shutdown)'
  BY Zenon
<1> QED
  BY <1>1, <1>2, <1>3, <1>4, <1>5, <1>6, <1>7, Zenon

\* The stop of the worker is forwarded to the task it begins.
LEMMA execute_IInv ==
    ASSUME IInv, NEW w \in Workers, execute(w)
    PROVE  IInv'
<1> USE DEF IInv, execute
<1>1. TypeOK'
  <2>1. held[w] \in Tasks
    BY DEF TypeOK, HeldInv, Holds
  <2>2. pc' \in [Workers -> Pcs]
    <3>1. {"after", "body", "loop", "reschedule"} \subseteq Pcs
      BY Zenon DEF Pcs
    <3> QED
      BY <3>1, Zenon DEF TypeOK
  <2>3. result' \in [Tasks -> Results]
    BY <2>1, Zenon DEF TypeOK, Results
  <2>4. stop_requested' \subseteq Tasks
    BY <2>1, Zenon DEF TypeOK
  <2>5. held' \in [Workers -> Tasks \cup {NoTask}]
    BY <2>1, Zenon DEF TypeOK
  <2>6. point' \in [Tasks -> 0 .. MaxTime + Interval]
    BY Zenon DEF TypeOK
  <2> QED
    BY <2>2, <2>3, <2>4, <2>5, <2>6, Zenon DEF TypeOK
<1>2. QueueInv'
  BY SMT DEF TypeOK, QueueInv, HeldInv, Holds
<1>3. HeldInv'
  BY SMT DEF TypeOK, HeldInv, Holds
<1>4. SleepInv'
  <2>1. \A v \in Workers : v # w => pc'[v] = pc[v] /\ held'[v] = held[v]
    BY Zenon DEF TypeOK
  <2>2. pc'[w] \notin {"free", "timed", "timed_woken"}
    BY Zenon DEF TypeOK
  <2>3. point' = point
    BY Zenon
  <2>4. ASSUME NEW v \in Workers
        PROVE  /\ pc'[v] = "free" => v \in free'
               /\ pc'[v] \in {"timed", "timed_woken"} => v \notin free'
               /\ pc'[v] = "timed" => <<point'[held'[v]], v>> \in waiting'
    BY <2>1, <2>2, <2>3, Zenon DEF SleepInv
  <2>5. ASSUME NEW pair \in waiting'
        PROVE  /\ pc'[pair[2]] \in {"timed", "timed_woken"}
               /\ pair[1] = point'[held'[pair[2]]]
    <3>1. pair[2] \in Workers /\ pc[pair[2]] \in {"timed", "timed_woken"}
      BY <2>5, Zenon DEF SleepInv, TypeOK
    <3> QED
      BY <2>1, <2>3, <3>1, Zenon DEF SleepInv
  <2> QED
    BY <2>4, <2>5, Zenon DEF SleepInv
<1>5. QueueNotForgotten'
  <2>1. pc'[w] \notin {"free", "timed"}
    BY Zenon DEF TypeOK
  <2> QED
    BY <2>1, Zenon DEF QueueNotForgotten
<1>6. StopForwarded'
  BY Zenon DEF TypeOK, StopForwarded
<1>7. (destroying => shutdown)'
  BY Zenon
<1> QED
  BY <1>1, <1>2, <1>3, <1>4, <1>5, <1>6, <1>7, Zenon

\* The promise is set when the task is over.
LEMMA callable_returns_IInv ==
    ASSUME IInv, NEW w \in Workers, NEW again \in BOOLEAN,
           callable_returns(w, again)
    PROVE  IInv'
<1> USE DEF IInv, callable_returns
<1>1. TypeOK'
  <2>1. held[w] \in Tasks
    BY DEF TypeOK, HeldInv, Holds
  <2>2. pc' \in [Workers -> Pcs]
    <3>1. {"after", "body", "loop", "reschedule"} \subseteq Pcs
      BY Zenon DEF Pcs
    <3> QED
      BY <3>1, Zenon DEF TypeOK
  <2>3. result' \in [Tasks -> Results]
    BY <2>1, Zenon DEF TypeOK, Results
  <2>4. stop_requested' \subseteq Tasks
    BY <2>1, Zenon DEF TypeOK
  <2>5. held' \in [Workers -> Tasks \cup {NoTask}]
    BY <2>1, Zenon DEF TypeOK
  <2>6. point' \in [Tasks -> 0 .. MaxTime + Interval]
    <3>1. CASE again
      <4>1. point[held[w]] + Interval \in 0 .. MaxTime + Interval
        BY <2>1, <3>1, MaxTimeAssumption DEF TypeOK, Interval
      <4> QED
        BY <3>1, <4>1, Zenon DEF TypeOK
    <3>2. CASE ~again
      BY <3>2, Zenon DEF TypeOK
    <3> QED
      BY <3>1, <3>2, Zenon
  <2> QED
    BY <2>2, <2>3, <2>4, <2>5, <2>6, Zenon DEF TypeOK
<1>2. QueueInv'
  <2>1. held[w] \in Tasks /\ ~In(queue, held[w])
    BY DEF TypeOK, HeldInv, Holds
  <2>2. queue \in Seq(Entries)
    BY Zenon DEF TypeOK, Entries, Points
  <2>3. \A i \in DOMAIN queue : queue[i].task \in Tasks /\ queue[i].task # held[w]
    <3>1. \A i \in DOMAIN queue : queue[i] \in Entries
      BY <2>2
    <3> QED
      BY <2>1, <3>1, Zenon DEF In, Entries
  <2>4. \A k \in Tasks : k # held[w] => point'[k] = point[k] /\ result'[k] = result[k]
    BY <2>1, Zenon DEF TypeOK
  <2> QED
    BY <2>1, <2>3, <2>4, Zenon DEF QueueInv
<1>3. HeldInv'
  BY SMT DEF TypeOK, HeldInv, Holds
<1>4. SleepInv'
  <2>1. \A v \in Workers : v # w => pc'[v] = pc[v] /\ held'[v] = held[v]
    BY Zenon DEF TypeOK
  <2>2. pc'[w] \notin {"free", "timed", "timed_woken"}
    BY Zenon DEF TypeOK
  <2>3. \A v \in Workers : v # w /\ pc[v] \in {"timed", "timed_woken"} =>
              point'[held[v]] = point[held[v]]
    <3>1. \A v \in Workers : v # w /\ pc[v] \in {"timed", "timed_woken"} =>
                 held[v] \in Tasks /\ held[v] # held[w]
      BY DEF TypeOK, HeldInv, Holds
    <3> QED
      BY <3>1, Zenon DEF TypeOK
  <2>4. ASSUME NEW v \in Workers
        PROVE  /\ pc'[v] = "free" => v \in free'
               /\ pc'[v] \in {"timed", "timed_woken"} => v \notin free'
               /\ pc'[v] = "timed" => <<point'[held'[v]], v>> \in waiting'
    BY <2>1, <2>2, <2>3, Zenon DEF SleepInv
  <2>5. ASSUME NEW pair \in waiting'
        PROVE  /\ pc'[pair[2]] \in {"timed", "timed_woken"}
               /\ pair[1] = point'[held'[pair[2]]]
    <3>1. pair[2] \in Workers /\ pc[pair[2]] \in {"timed", "timed_woken"}
      BY <2>5, Zenon DEF SleepInv, TypeOK
    <3> QED
      BY <2>1, <2>3, <3>1, Zenon DEF SleepInv
  <2> QED
    BY <2>4, <2>5, Zenon DEF SleepInv
<1>5. QueueNotForgotten'
  <2>1. pc'[w] \notin {"free", "timed"}
    BY Zenon DEF TypeOK
  <2> QED
    BY <2>1, Zenon DEF QueueNotForgotten
<1>6. StopForwarded'
  BY SMT DEF StopForwarded
<1>7. (destroying => shutdown)'
  BY Zenon
<1> QED
  BY <1>1, <1>2, <1>3, <1>4, <1>5, <1>6, <1>7, Zenon

\* A task that was stopped is dropped.
LEMMA next_execution_point_IInv ==
    ASSUME IInv, NEW w \in Workers, next_execution_point(w)
    PROVE  IInv'
<1> USE DEF IInv, next_execution_point, Broken
<1>1. TypeOK'
  <2>1. held[w] \in Tasks
    BY DEF TypeOK, HeldInv, Holds
  <2>2. pc' \in [Workers -> Pcs]
    <3>1. {"after", "body", "loop", "reschedule"} \subseteq Pcs
      BY Zenon DEF Pcs
    <3> QED
      BY <3>1, Zenon DEF TypeOK
  <2>3. result' \in [Tasks -> Results]
    BY <2>1 DEF TypeOK, Results
  <2>4. stop_requested' \subseteq Tasks
    BY <2>1, Zenon DEF TypeOK
  <2>5. held' \in [Workers -> Tasks \cup {NoTask}]
    BY <2>1, Zenon DEF TypeOK
  <2>6. point' \in [Tasks -> 0 .. MaxTime + Interval]
    BY Zenon DEF TypeOK
  <2> QED
    BY <2>2, <2>3, <2>4, <2>5, <2>6, Zenon DEF TypeOK
<1>2. QueueInv'
  BY SMT DEF TypeOK, QueueInv, HeldInv, Holds
<1>3. HeldInv'
  <2>1. held[w] \in Tasks /\ held[w] # NoTask /\ ~In(queue, held[w])
    BY DEF TypeOK, HeldInv, Holds
  <2>2. CASE held[w] \notin stop_requested
    BY <2>1, <2>2, SMT DEF TypeOK, HeldInv, Holds
  <2>3. CASE held[w] \in stop_requested
    <3>1. \A v \in Workers : /\ held'[v] = IF v = w THEN NoTask ELSE held[v]
                             /\ pc'[v] = IF v = w THEN "loop" ELSE pc[v]
      BY <2>3, Zenon DEF TypeOK
    <3>2. /\ result'[held[w]] # "pending"
          /\ \A k \in Tasks : k # held[w] => result'[k] = result[k]
      BY <2>1, <2>3, Zenon DEF TypeOK
    <3>3. \A v \in Workers : v # w /\ Holds(v) => held[v] \in Tasks /\ held[v] # held[w]
      BY <2>1 DEF TypeOK, HeldInv, Holds
    <3>4. \A v \in Workers : Holds(v)' <=> held'[v] # NoTask
      BY <3>1 DEF HeldInv, Holds
    <3>5. ASSUME NEW v \in Workers, Holds(v)'
          PROVE  /\ ~In(queue', held'[v])
                 /\ \/ result'[held'[v]] = "pending"
                    \/ /\ result'[held'[v]] = "value"
                       /\ pc'[v] = "after" /\ held'[v] \in stop_requested'
      <4>1. v # w /\ Holds(v) /\ held'[v] = held[v] /\ pc'[v] = pc[v]
        BY <3>1, <3>5, Zenon DEF Holds
      <4>2. result'[held[v]] = result[held[v]]
        BY <3>2, <3>3, <4>1, Zenon
      <4> QED
        BY <4>1, <4>2, Zenon DEF HeldInv
    <3>6. \A u, v \in Workers : Holds(v)' /\ held'[u] = held'[v] => u = v
      BY <3>1 DEF HeldInv, Holds
    <3>7. ASSUME NEW k \in Tasks, result'[k] = "pending"
          PROVE  In(queue', k) \/ \E v \in Workers : held'[v] = k
      <4>1. k # held[w] /\ result[k] = "pending"
        BY <3>2, <3>7, Zenon
      <4>2. In(queue, k) \/ \E v \in Workers : held[v] = k
        BY <4>1, Zenon DEF HeldInv
      <4> QED
        BY <3>1, <4>1, <4>2, Zenon
    <3> QED
      BY <3>4, <3>5, <3>6, <3>7, Zenon DEF HeldInv
  <2> QED
    BY <2>2, <2>3, Zenon
<1>4. SleepInv'
  <2>1. \A v \in Workers : v # w => pc'[v] = pc[v] /\ held'[v] = held[v]
    BY Zenon DEF TypeOK
  <2>2. pc'[w] \notin {"free", "timed", "timed_woken"}
    BY Zenon DEF TypeOK
  <2>3. point' = point
    BY Zenon
  <2>4. ASSUME NEW v \in Workers
        PROVE  /\ pc'[v] = "free" => v \in free'
               /\ pc'[v] \in {"timed", "timed_woken"} => v \notin free'
               /\ pc'[v] = "timed" => <<point'[held'[v]], v>> \in waiting'
    BY <2>1, <2>2, <2>3, Zenon DEF SleepInv
  <2>5. ASSUME NEW pair \in waiting'
        PROVE  /\ pc'[pair[2]] \in {"timed", "timed_woken"}
               /\ pair[1] = point'[held'[pair[2]]]
    <3>1. pair[2] \in Workers /\ pc[pair[2]] \in {"timed", "timed_woken"}
      BY <2>5, Zenon DEF SleepInv, TypeOK
    <3> QED
      BY <2>1, <2>3, <3>1, Zenon DEF SleepInv
  <2> QED
    BY <2>4, <2>5, Zenon DEF SleepInv
<1>5. QueueNotForgotten'
  <2>1. pc'[w] \notin {"free", "timed"}
    BY Zenon DEF TypeOK
  <2> QED
    BY <2>1, Zenon DEF QueueNotForgotten
<1>6. StopForwarded'
  BY SMT DEF TypeOK, StopForwarded
<1>7. (destroying => shutdown)'
  BY Zenon
<1> QED
  BY <1>1, <1>2, <1>3, <1>4, <1>5, <1>6, <1>7, Zenon

\* The callbacks wake the worker, and stop the task it executes.
LEMMA request_stop_IInv ==
    ASSUME IInv, NEW w \in Workers, request_stop(w)
    PROVE  IInv'
<1> USE DEF IInv, request_stop
<1>a. Woken(pc, pc')
  BY NotifiedWakes, Zenon DEF TypeOK
<1>1. TypeOK'
  BY <1>a DEF TypeOK, Woken, StopForwarded, HeldInv, Holds
<1>2. QueueInv'
  BY Zenon DEF QueueInv
<1>3. HeldInv'
  BY <1>a, SMT DEF Woken, HeldInv, Holds
<1>4. SleepInv'
  BY <1>a, SMT DEF TypeOK, Woken, SleepInv
<1>5. QueueNotForgotten'
  BY <1>a, Zenon DEF Woken, QueueNotForgotten
<1>6. StopForwarded'
  BY <1>a, Zenon DEF Woken, StopForwarded
<1>7. (destroying => shutdown)'
  BY Zenon
<1> QED
  BY <1>1, <1>2, <1>3, <1>4, <1>5, <1>6, <1>7, Zenon

\* A task is asked to stop.
LEMMA Abort_IInv ==
    ASSUME IInv, NEW task \in Tasks, Abort(task)
    PROVE  IInv'
<1> USE DEF IInv, Abort
<1>1. TypeOK'
  BY Zenon DEF TypeOK
<1>2. QueueInv'
  BY Zenon DEF QueueInv
<1>3. HeldInv'
  BY Zenon DEF HeldInv, Holds
<1>4. SleepInv'
  BY Zenon DEF SleepInv
<1>5. QueueNotForgotten'
  BY Zenon DEF QueueNotForgotten
<1>6. StopForwarded'
  BY Zenon DEF StopForwarded
<1>7. (destroying => shutdown)'
  BY Zenon
<1> QED
  BY <1>1, <1>2, <1>3, <1>4, <1>5, <1>6, <1>7, Zenon

\* The executor is asked to stop.
LEMMA Shutdown_IInv ==
    ASSUME IInv, Shutdown
    PROVE  IInv'
<1> USE DEF IInv, Shutdown
<1>1. TypeOK'
  BY Zenon DEF TypeOK
<1>2. QueueInv'
  BY Zenon DEF QueueInv
<1>3. HeldInv'
  BY Zenon DEF HeldInv, Holds
<1>4. SleepInv'
  BY Zenon DEF SleepInv
<1>5. QueueNotForgotten'
  BY Zenon DEF QueueNotForgotten
<1>6. StopForwarded'
  BY Zenon DEF StopForwarded
<1>7. (destroying => shutdown)'
  BY Zenon
<1> QED
  BY <1>1, <1>2, <1>3, <1>4, <1>5, <1>6, <1>7, Zenon

\* The destructor shuts the executor down.
LEMMA destroy_IInv ==
    ASSUME IInv, destroy
    PROVE  IInv'
<1> USE DEF IInv, destroy
<1>1. TypeOK'
  BY Zenon DEF TypeOK
<1>2. QueueInv'
  BY Zenon DEF QueueInv
<1>3. HeldInv'
  BY Zenon DEF HeldInv, Holds
<1>4. SleepInv'
  BY Zenon DEF SleepInv
<1>5. QueueNotForgotten'
  BY Zenon DEF QueueNotForgotten
<1>6. StopForwarded'
  BY Zenon DEF StopForwarded
<1>7. (destroying => shutdown)'
  BY Zenon
<1> QED
  BY <1>1, <1>2, <1>3, <1>4, <1>5, <1>6, <1>7, Zenon

\* Time passes.
LEMMA tick_IInv ==
    ASSUME IInv, tick
    PROVE  IInv'
<1> USE DEF IInv, tick
<1>1. TypeOK'
  BY MaxTimeAssumption, SMT DEF TypeOK
<1>2. QueueInv'
  BY Zenon DEF QueueInv
<1>3. HeldInv'
  BY Zenon DEF HeldInv, Holds
<1>4. SleepInv'
  BY Zenon DEF SleepInv
<1>5. QueueNotForgotten'
  BY Zenon DEF QueueNotForgotten
<1>6. StopForwarded'
  BY Zenon DEF StopForwarded
<1>7. (destroying => shutdown)'
  BY Zenon
<1> QED
  BY <1>1, <1>2, <1>3, <1>4, <1>5, <1>6, <1>7, Zenon

\* What Work finds at the head of the queue: a task that nobody has, with its
\* execution point, and nothing earlier behind it.
LEMMA HeadOfQueue ==
    ASSUME IInv, queue # <<>>
    PROVE  /\ queue \in Seq(Entries)
           /\ Head(queue).time_point \in Points /\ Head(queue).task \in Tasks
           /\ Head(queue).time_point = point[Head(queue).task]
           /\ result[Head(queue).task] = "pending"
           /\ In(queue, Head(queue).task)
           /\ \A w \in Workers : held[w] # Head(queue).task
<1>1. queue \in Seq(Entries)
  BY Zenon DEF IInv, TypeOK, Entries, Points
<1>2. /\ Head(queue) \in Entries /\ In(queue, Head(queue).task)
      /\ 1 \in DOMAIN queue /\ Head(queue) = queue[1]
  BY <1>1, TailOfQueue DEF IInv, QueueInv
<1>3. Head(queue).time_point \in Points /\ Head(queue).task \in Tasks
  BY <1>2, Zenon DEF Entries
<1>4. /\ Head(queue).time_point = point[Head(queue).task]
      /\ result[Head(queue).task] = "pending"
  BY <1>2, <1>3, Zenon DEF IInv, QueueInv
<1>5. \A w \in Workers : held[w] # Head(queue).task
  BY <1>2, <1>3, TasksAssumption, Zenon DEF IInv, HeldInv, Tasks
<1> QED
  BY <1>1, <1>2, <1>3, <1>4, <1>5, Zenon

\* The part of the state that Work leaves alone.
work_unchanged == <<now, point, stop_requested, result, stopped, shutdown,
                    destroying>>

\* A worker finds no task and sleeps, unless it was asked to stop.
LEMMA wait_for_task_IInv ==
    ASSUME IInv, NEW w \in Workers, pc[w] \in {"enter", "free_woken"},
           wait_for_task(w), UNCHANGED work_unchanged
    PROVE  IInv'
<1> USE DEF IInv, wait_for_task, work_unchanged
<1>1. TypeOK'
  BY Zenon DEF TypeOK, Pcs
<1>2. QueueInv'
  BY Zenon DEF QueueInv
<1>3. HeldInv'
  BY SMT DEF TypeOK, HeldInv, Holds
<1>4. SleepInv'
  BY Zenon DEF TypeOK, SleepInv
<1>5. QueueNotForgotten' /\ StopForwarded' /\ (destroying => shutdown)'
  BY Zenon DEF TypeOK, QueueNotForgotten, StopForwarded
<1> QED
  BY <1>1, <1>2, <1>3, <1>4, <1>5, Zenon

\* The worker takes the first task of the queue, to execute it or to wait for
\* its execution point.
LEMMA take_IInv ==
    ASSUME IInv, NEW w \in Workers, pc[w] \in {"enter", "free_woken"},
           queue # <<>>, NEW label \in {"run", "timed"},
           free' = free \ {w},
           queue' = Tail(queue),
           held' = [held EXCEPT ![w] = Head(queue).task],
           pc' = [pc EXCEPT ![w] = label],
           waiting' = IF label = "timed"
                        THEN waiting \cup {<<Head(queue).time_point, w>>}
                        ELSE waiting,
           UNCHANGED work_unchanged
    PROVE  IInv'
<1> USE DEF IInv, work_unchanged
<1> DEFINE task == Head(queue).task
           t == Head(queue).time_point
<1>a. /\ queue \in Seq(Entries) /\ t \in Points /\ task \in Tasks
      /\ t = point[task] /\ result[task] = "pending" /\ In(queue, task)
      /\ \A v \in Workers : held[v] # task
  BY HeadOfQueue, Zenon
<1>b. /\ Tail(queue) \in Seq(Entries)
      /\ Sorted(Tail(queue)) /\ Distinct(Tail(queue))
      /\ \A i \in DOMAIN Tail(queue) : \E j \in DOMAIN queue : Tail(queue)[i] = queue[j]
      /\ \A i \in DOMAIN Tail(queue) : t <= Tail(queue)[i].time_point
      /\ \A k : In(Tail(queue), k) <=> In(queue, k) /\ k # task
  BY <1>a, TailOfQueue, Zenon DEF QueueInv
<1> HIDE DEF task, t
<1>c. held' = [held EXCEPT ![w] = task] /\ task # NoTask
  BY <1>a, TasksAssumption, Zenon DEF task, Tasks
<1>d. \A v \in Workers : /\ held'[v] = IF v = w THEN task ELSE held[v]
                         /\ pc'[v] = IF v = w THEN label ELSE pc[v]
  BY <1>c, Zenon DEF TypeOK
<1>1. TypeOK'
  <2>1. /\ queue' \in Seq([time_point : 0 .. MaxTime + Interval, task : Tasks])
        /\ waiting' \subseteq (0 .. MaxTime + Interval) \X Workers
    BY <1>a, <1>b DEF TypeOK, Entries, Points, t
  <2>2. /\ pc' \in [Workers -> Pcs] /\ held' \in [Workers -> Tasks \cup {NoTask}]
        /\ free' \subseteq Workers
    BY <1>a, <1>c, Zenon DEF TypeOK, Pcs
  <2> QED
    BY <2>1, <2>2, Zenon DEF TypeOK
<1>2. QueueInv'
  BY <1>b, Zenon DEF QueueInv
<1>3. HeldInv'
  <2>1. \A v \in Workers : Holds(v)' <=> held'[v] # NoTask
    BY <1>c, <1>d DEF HeldInv, Holds
  <2>2. \A v \in Workers : Holds(v)' =>
           /\ ~In(queue', held'[v])
           /\ \/ result[held'[v]] = "pending"
              \/ /\ result[held'[v]] = "value"
                 /\ pc'[v] = "after" /\ held'[v] \in stop_requested
    BY <1>a, <1>b, <1>d DEF HeldInv, Holds
  <2>3. \A u, v \in Workers : Holds(v)' /\ held'[u] = held'[v] => u = v
    BY <1>a, <1>d DEF HeldInv, Holds
  <2>4. ASSUME NEW k \in Tasks, result[k] = "pending"
        PROVE  In(queue', k) \/ \E v \in Workers : held'[v] = k
    <3>1. CASE k = task
      BY <1>d, <3>1, Zenon
    <3>2. CASE k # task /\ In(queue, k)
      BY <1>b, <3>2, Zenon
    <3>3. CASE k # task /\ \E v \in Workers : held[v] = k
      <4>1. held[w] = NoTask
        BY Zenon DEF HeldInv, Holds
      <4>2. k # NoTask
        BY TasksAssumption, Zenon DEF Tasks
      <4> QED
        BY <1>d, <3>3, <4>1, <4>2, Zenon
    <3> QED
      BY <2>4, <3>1, <3>2, <3>3, Zenon DEF HeldInv
  <2> QED
    BY <2>1, <2>2, <2>3, <2>4 DEF HeldInv
<1>4. SleepInv'
  <2>1. ASSUME NEW v \in Workers
        PROVE  /\ pc'[v] = "free" => v \in free'
               /\ pc'[v] \in {"timed", "timed_woken"} => v \notin free'
               /\ pc'[v] = "timed" => <<point[held'[v]], v>> \in waiting'
    BY <1>a, <1>d DEF SleepInv, t
  <2>2. ASSUME NEW pair \in waiting'
        PROVE  /\ pc'[pair[2]] \in {"timed", "timed_woken"}
               /\ pair[1] = point[held'[pair[2]]]
    <3>1. CASE pair \in waiting
      <4>1. pair[2] \in Workers /\ pc[pair[2]] \in {"timed", "timed_woken"}
        BY <3>1, Zenon DEF SleepInv, TypeOK
      <4> QED
        BY <1>d, <3>1, <4>1 DEF SleepInv
    <3>2. CASE label = "timed" /\ pair = <<Head(queue).time_point, w>>
      BY <1>a, <1>d, <3>2, Zenon DEF t
    <3> QED
      BY <2>2, <3>1, <3>2, Zenon
  <2> QED
    BY <2>1, <2>2, Zenon DEF SleepInv
<1>5. QueueNotForgotten'
  <2> SUFFICES ASSUME queue' # <<>>, label = "timed"
               PROVE  point[held'[w]] <= Head(queue').time_point
    BY <1>d, Zenon DEF QueueNotForgotten
  <2>1. 1 \in DOMAIN Tail(queue) /\ Head(queue') = Tail(queue)[1]
    BY <1>b
  <2> QED
    BY <1>a, <1>b, <1>d, <2>1, Zenon
<1>6. StopForwarded' /\ (destroying => shutdown)'
  BY <1>d DEF StopForwarded
<1> QED
  BY <1>1, <1>2, <1>3, <1>4, <1>5, <1>6, Zenon

\* A worker that finds its stop requested puts the task back: the queue is as
\* it was, and another worker may have been woken.
LEMMA take_stopped_IInv ==
    ASSUME IInv, NEW w \in Workers, pc[w] \in {"enter", "free_woken"},
           NEW t, free' = free \ {w},
           pc' = WakeUp(t, free \ {w}, waiting, [pc EXCEPT ![w] = "loop"]),
           UNCHANGED <<queue, held, waiting>>, UNCHANGED work_unchanged
    PROVE  IInv'
<1> USE DEF IInv, work_unchanged
<1> DEFINE pcs == [pc EXCEPT ![w] = "loop"]
<1>a. pcs \in [Workers -> Pcs]
  BY Zenon DEF TypeOK, Pcs
<1>b. \A v \in Workers : pcs[v] = IF v = w THEN "loop" ELSE pc[v]
  BY Zenon DEF TypeOK
<1>c. Woken(pcs, pc')
  BY <1>a, WakeUpWakes, Zenon
<1> HIDE DEF pcs
<1>1. TypeOK'
  BY <1>c, Zenon DEF TypeOK, Woken
<1>2. QueueInv'
  BY Zenon DEF QueueInv
<1>3. HeldInv'
  <2>1. \A v \in Workers : /\ Holds(v)' <=> Holds(v)
                           /\ pc[v] = "after" => pc'[v] = "after"
    BY <1>b, <1>c, Zenon DEF Holds, Woken
  <2> QED
    BY <2>1, Zenon DEF HeldInv
<1>4. SleepInv'
  <2>1. ASSUME NEW v \in Workers
        PROVE  /\ pc'[v] = "free" => v \in free'
               /\ pc'[v] \in {"timed", "timed_woken"} => v \notin free'
               /\ pc'[v] = "timed" => <<point[held[v]], v>> \in waiting
    BY <1>b, <1>c, ZenonT(30) DEF SleepInv, Woken
  <2>2. ASSUME NEW pair \in waiting
        PROVE  pc'[pair[2]] \in {"timed", "timed_woken"}
    <3>1. pair[2] \in Workers /\ pc[pair[2]] \in {"timed", "timed_woken"}
      BY <2>2, Zenon DEF SleepInv, TypeOK
    <3> QED
      BY <1>b, <1>c, <3>1, Zenon DEF Woken
  <2> QED
    BY <2>1, <2>2, Zenon DEF SleepInv
<1>5. pc'[w] = "loop"
  BY <1>b, <1>c, Zenon DEF Woken
<1>6. QueueNotForgotten'
  BY <1>5, Zenon DEF QueueNotForgotten
<1>7. StopForwarded' /\ (destroying => shutdown)'
  BY <1>b, <1>c, Zenon DEF StopForwarded, Woken
<1> QED
  BY <1>1, <1>2, <1>3, <1>4, <1>6, <1>7, Zenon

\* The critical section of Work.
LEMMA Work_IInv ==
    ASSUME IInv, NEW w \in Workers, Work(w)
    PROVE  IInv'
<1>1. UNCHANGED work_unchanged /\ pc[w] \in {"enter", "free_woken"}
  BY Zenon DEF Work, work_unchanged
<1>2. CASE wait_for_task(w)
  BY <1>1, <1>2, wait_for_task_IInv, Zenon
<1>3. CASE take(w)
  <2>1. CASE /\ queue' = Tail(queue)
             /\ held' = [held EXCEPT ![w] = Head(queue).task]
             /\ pc' = [pc EXCEPT ![w] = "run"]
             /\ UNCHANGED waiting
    BY <1>1, <1>3, <2>1, take_IInv, Zenon DEF take
  <2>2. CASE /\ queue' = Tail(queue)
             /\ held' = [held EXCEPT ![w] = Head(queue).task]
             /\ pc' = [pc EXCEPT ![w] = "timed"]
             /\ waiting' = waiting \cup {<<Head(queue).time_point, w>>}
    BY <1>1, <1>3, <2>2, take_IInv, Zenon DEF take
  <2>3. CASE /\ pc' = WakeUp(Head(queue).time_point, free \ {w}, waiting,
                             [pc EXCEPT ![w] = "loop"])
             /\ UNCHANGED <<queue, held, waiting>>
    BY <1>1, <1>3, <2>3, take_stopped_IInv, Zenon DEF take
  <2> QED
    BY <1>3, <2>1, <2>2, <2>3, Zenon DEF take
<1> QED
  BY <1>2, <1>3, Zenon DEF Work

\* A worker puts its task back, because its wait has ended or because the task
\* is to be executed again.
LEMMA PutBack_IInv ==
    ASSUME IInv, NEW w \in Workers, pc[w] \in {"timed_woken", "reschedule"},
           PutBack(w), UNCHANGED free, UNCHANGED work_unchanged
    PROVE  IInv'
<1> USE DEF IInv, work_unchanged
<1> DEFINE task == held[w]
           t == point[task]
           pcs == [pc EXCEPT ![w] = "loop"]
<1>a. /\ task \in Tasks /\ task # NoTask /\ ~In(queue, task)
      /\ result[task] = "pending" /\ t \in Points
  BY DEF TypeOK, HeldInv, Holds, Points
<1>b. pcs \in [Workers -> Pcs]
  BY Zenon DEF TypeOK, Pcs
<1>c. \A v \in Workers : pcs[v] = IF v = w THEN "loop" ELSE pc[v]
  BY Zenon DEF TypeOK
<1>d. Woken(pcs, pc')
  BY <1>b, WakeUpWakes, Zenon DEF PutBack
<1>e. /\ queue' \in Seq(Entries) /\ queue' # <<>>
      /\ Sorted(queue') /\ Distinct(queue')
      /\ \A i \in DOMAIN queue' :
            \/ queue'[i] = Entry(t, task)
            \/ \E j \in DOMAIN queue : queue'[i] = queue[j]
      /\ \A k : In(queue', k) <=> In(queue, k) \/ k = task
  <2>1. queue \in Seq(Entries) /\ queue' = Inserted(t, task)
    BY Zenon DEF TypeOK, Entries, Points, PutBack
  <2> HIDE DEF t, task
  <2> QED
    BY <1>a, <2>1, InsertedQueue DEF QueueInv
<1>f. \A v \in Workers : held'[v] = IF v = w THEN NoTask ELSE held[v]
  BY Zenon DEF PutBack, TypeOK
<1>g. waiting' = waiting \ {<<t, w>>}
  BY Zenon DEF PutBack
<1>h. held' \in [Workers -> Tasks \cup {NoTask}]
  BY Zenon DEF PutBack, TypeOK
<1> HIDE DEF pcs
<1>1. TypeOK'
  BY <1>d, <1>e, <1>g, <1>h, Zenon DEF TypeOK, Woken, Entries, Points
<1>2. QueueInv'
  <2>1. Entry(t, task).time_point = t /\ Entry(t, task).task = task
    BY Zenon DEF Entry
  <2>2. ASSUME NEW i \in DOMAIN queue'
        PROVE  queue'[i].time_point = point[queue'[i].task]
    BY <1>e, <2>1, Zenon DEF QueueInv
  <2> QED
    BY <1>a, <1>e, <2>2, Zenon DEF QueueInv
<1>3. HeldInv'
  <2>1. \A v \in Workers : Holds(v)' <=> Holds(v) /\ v # w
    BY <1>c, <1>d, Zenon DEF Holds, Woken
  <2>2. \A v \in Workers : Holds(v) /\ v # w => held[v] # task
    BY Zenon DEF HeldInv, Holds
  <2>3. \A v \in Workers : Holds(v)' <=> held'[v] # NoTask
    BY <1>f, <2>1, Zenon DEF HeldInv
  <2>4. ASSUME NEW v \in Workers, Holds(v)'
        PROVE  /\ ~In(queue', held'[v])
               /\ \/ result[held'[v]] = "pending"
                  \/ /\ result[held'[v]] = "value"
                     /\ pc'[v] = "after" /\ held'[v] \in stop_requested
    <3>1. Holds(v) /\ v # w /\ held'[v] = held[v] /\ held[v] # task
      BY <1>f, <2>1, <2>2, <2>4, Zenon
    <3>2. ~In(queue', held[v])
      BY <1>e, <3>1, Zenon DEF HeldInv
    <3>3. pc[v] = "after" => pc'[v] = "after"
      BY <1>c, <1>d, <3>1, Zenon DEF Woken
    <3> QED
      BY <3>1, <3>2, <3>3 DEF HeldInv
  <2>5. \A u, v \in Workers : Holds(v)' /\ held'[u] = held'[v] => u = v
    BY <1>f, <2>1, <2>3 DEF HeldInv
  <2>6. ASSUME NEW k \in Tasks, result[k] = "pending"
        PROVE  In(queue', k) \/ \E v \in Workers : held'[v] = k
    <3>1. CASE k = task
      BY <1>e, <3>1, Zenon
    <3>2. CASE k # task
      <4>1. CASE In(queue, k)
        BY <1>e, <4>1, Zenon
      <4>2. CASE \E v \in Workers : held[v] = k
        BY <1>f, <3>2, <4>2, Zenon
      <4> QED
        BY <2>6, <4>1, <4>2, Zenon DEF HeldInv
    <3> QED
      BY <3>1, <3>2, Zenon
  <2> QED
    BY <2>3, <2>4, <2>5, <2>6, Zenon DEF HeldInv
<1>4. SleepInv'
  <2>1. ASSUME NEW v \in Workers
        PROVE  /\ pc'[v] = "free" => v \in free'
               /\ pc'[v] \in {"timed", "timed_woken"} => v \notin free'
               /\ pc'[v] = "timed" => <<point[held'[v]], v>> \in waiting'
    BY <1>c, <1>d, <1>f, <1>g, ZenonT(30) DEF SleepInv, Woken
  <2>2. ASSUME NEW pair \in waiting'
        PROVE  /\ pc'[pair[2]] \in {"timed", "timed_woken"}
               /\ pair[1] = point[held'[pair[2]]]
    <3>1. /\ pair \in waiting /\ pair # <<t, w>>
          /\ pair[2] \in Workers /\ pair = <<pair[1], pair[2]>>
      BY <1>g, <2>2 DEF TypeOK
    <3>2. pair[2] # w
      BY <3>1, Zenon DEF SleepInv
    <3> QED
      BY <1>c, <1>d, <1>f, <3>1, <3>2 DEF SleepInv, Woken
  <2> QED
    BY <2>1, <2>2, Zenon DEF SleepInv
<1>5. pc'[w] = "loop"
  BY <1>c, <1>d, Zenon DEF Woken
<1>6. QueueNotForgotten'
  BY <1>5, Zenon DEF QueueNotForgotten
<1>7. StopForwarded' /\ (destroying => shutdown)'
  BY <1>c, <1>d, <1>f, Zenon DEF StopForwarded, Woken
<1> QED
  BY <1>1, <1>2, <1>3, <1>4, <1>6, <1>7, Zenon

\* The wait for an execution point has ended.
LEMMA Work_woken_IInv ==
    ASSUME IInv, NEW w \in Workers, Work_woken(w)
    PROVE  IInv'
BY PutBack_IInv, Zenon DEF Work_woken, work_unchanged

\* A periodic task goes back to the queue.
LEMMA reschedule_IInv ==
    ASSUME IInv, NEW w \in Workers, reschedule(w)
    PROVE  IInv'
BY PutBack_IInv, Zenon DEF reschedule, work_unchanged

\* A new task is queued, and somebody is awake or wakes up in time for it.
LEMMA Enqueue_IInv ==
    ASSUME IInv, NEW task \in Tasks, NEW t \in 0 .. MaxTime, Enqueue(task, t)
    PROVE  IInv'
<1> USE DEF IInv, Enqueue
<1>a. /\ t \in Points /\ ~In(queue, task)
      /\ \A v \in Workers : held[v] # task
  <2>1. t \in Points
    BY MaxTimeAssumption DEF Points, Interval
  <2>2. ~In(queue, task)
    BY Zenon DEF QueueInv
  <2>3. ASSUME NEW v \in Workers, held[v] = task PROVE FALSE
    BY <2>3, TasksAssumption, Zenon DEF HeldInv, Tasks
  <2> QED
    BY <2>1, <2>2, <2>3, Zenon
<1>b. queue \in Seq(Entries)
  BY Zenon DEF TypeOK, Entries, Points
<1>c. /\ queue' \in Seq(Entries) /\ queue' # <<>>
      /\ Sorted(queue') /\ Distinct(queue')
      /\ \A i \in DOMAIN queue' :
            \/ queue'[i] = Entry(t, task)
            \/ \E j \in DOMAIN queue : queue'[i] = queue[j]
      /\ \A k : In(queue', k) <=> In(queue, k) \/ k = task
      /\ \/ Head(queue') = Entry(t, task)
         \/ queue # <<>> /\ Head(queue') = Head(queue)
  BY <1>a, <1>b, InsertedQueue DEF QueueInv
<1>d. Woken(pc, pc')
  BY WakeUpWakes, Zenon DEF TypeOK
<1>e. /\ point'[task] = t /\ result'[task] = "pending"
      /\ \A k \in Tasks \ {task} : point'[k] = point[k] /\ result'[k] = result[k]
  BY Zenon DEF TypeOK
<1>f. \A v \in Workers : Holds(v) => held[v] \in Tasks \ {task}
  BY <1>a DEF HeldInv, TypeOK
<1>1. TypeOK'
  <2>1. point' \in [Tasks -> 0 .. MaxTime + Interval]
    BY <1>a, Zenon DEF TypeOK, Points
  <2>2. result' \in [Tasks -> Results]
    BY Zenon DEF TypeOK, Results
  <2>3. queue' \in Seq([time_point : 0 .. MaxTime + Interval, task : Tasks])
    BY <1>c, Zenon DEF Entries, Points
  <2>4. pc' \in [Workers -> Pcs]
    BY <1>d, Zenon DEF Woken
  <2> QED
    BY <2>1, <2>2, <2>3, <2>4, Zenon DEF TypeOK
<1>2. QueueInv'
  <2>1. Entry(t, task).time_point = t /\ Entry(t, task).task = task
    BY Zenon DEF Entry
  <2>2. \A j \in DOMAIN queue : queue[j].task \in Tasks \ {task}
    <3>1. \A j \in DOMAIN queue : queue[j] \in Entries
      BY <1>b
    <3> QED
      BY <1>a, <3>1, Zenon DEF In, Entries
  <2>3. ASSUME NEW i \in DOMAIN queue'
        PROVE  queue'[i].time_point = point'[queue'[i].task]
    <3>1. CASE queue'[i] = Entry(t, task)
      BY <1>e, <2>1, <3>1, Zenon
    <3>2. ASSUME NEW j \in DOMAIN queue, queue'[i] = queue[j]
          PROVE  queue'[i].time_point = point'[queue'[i].task]
      <4>1. queue[j].time_point = point[queue[j].task]
        BY Zenon DEF QueueInv
      <4> QED
        BY <1>e, <2>2, <3>2, <4>1, Zenon
    <3> QED
      BY <1>c, <3>1, <3>2, Zenon
  <2>4. \A k \in Tasks : In(queue', k) => result'[k] = "pending"
    BY <1>c, <1>e, Zenon DEF QueueInv
  <2> QED
    BY <1>c, <2>3, <2>4, Zenon DEF QueueInv
<1>3. HeldInv'
  <2>1. \A v \in Workers : /\ Holds(v)' <=> Holds(v)
                           /\ pc[v] = "after" => pc'[v] = "after"
    BY <1>d, Zenon DEF Holds, Woken
  <2>2. \A v \in Workers : Holds(v) =>
           ~In(queue', held[v]) /\ result'[held[v]] = result[held[v]]
    BY <1>c, <1>e, <1>f, Zenon DEF HeldInv
  <2>3. ASSUME NEW k \in Tasks, result'[k] = "pending"
        PROVE  In(queue', k) \/ \E v \in Workers : held[v] = k
    <3>1. CASE k = task
      BY <1>c, <3>1, Zenon
    <3>2. CASE k # task
      BY <1>c, <1>e, <2>3, <3>2 DEF HeldInv
    <3> QED
      BY <3>1, <3>2, Zenon
  <2>4. \A v \in Workers : Holds(v)' <=> held'[v] # NoTask
    BY <2>1, Zenon DEF HeldInv
  <2>5. \A v \in Workers : Holds(v)' =>
           /\ ~In(queue', held'[v])
           /\ \/ result'[held'[v]] = "pending"
              \/ /\ result'[held'[v]] = "value"
                 /\ pc'[v] = "after" /\ held'[v] \in stop_requested'
    BY <2>1, <2>2, ZenonT(30) DEF HeldInv
  <2>6. \A u, v \in Workers : Holds(v)' /\ held'[u] = held'[v] => u = v
    BY <2>1, Zenon DEF HeldInv
  <2> QED
    BY <2>3, <2>4, <2>5, <2>6 DEF HeldInv
<1>4. SleepInv'
  <2>1. \A v \in Workers : pc[v] \in {"timed", "timed_woken"} =>
           point'[held[v]] = point[held[v]]
    BY <1>e, <1>f, Zenon DEF Holds
  <2>2. ASSUME NEW v \in Workers
        PROVE  /\ pc'[v] = "free" => v \in free'
               /\ pc'[v] \in {"timed", "timed_woken"} => v \notin free'
               /\ pc'[v] = "timed" => <<point'[held'[v]], v>> \in waiting'
    <3>1. /\ pc'[v] = "free" => pc[v] = "free"
          /\ pc'[v] = "timed" => pc[v] = "timed"
          /\ pc'[v] = "timed_woken" => pc[v] \in {"timed", "timed_woken"}
      BY <1>d, Zenon DEF Woken
    <3>2. free' = free /\ waiting' = waiting /\ held' = held
      BY Zenon
    <3>3. pc'[v] = "timed" => <<point'[held'[v]], v>> \in waiting'
      <4> SUFFICES ASSUME pc[v] = "timed"
                   PROVE  <<point'[held[v]], v>> \in waiting
        BY <3>1, <3>2, Zenon
      <4>1. <<point[held[v]], v>> \in waiting
        BY Zenon DEF SleepInv
      <4>2. point'[held[v]] = point[held[v]]
        BY <2>1, Zenon
      <4> QED
        BY <4>1, <4>2, Zenon
    <3> QED
      BY <3>1, <3>2, <3>3, Zenon DEF SleepInv
  <2>3. ASSUME NEW pair \in waiting'
        PROVE  /\ pc'[pair[2]] \in {"timed", "timed_woken"}
               /\ pair[1] = point'[held'[pair[2]]]
    <3>1. pair[2] \in Workers /\ pc[pair[2]] \in {"timed", "timed_woken"}
      BY <2>3, Zenon DEF SleepInv, TypeOK
    <3> QED
      BY <1>d, <2>1, <2>3, <3>1, Zenon DEF SleepInv, Woken
  <2> QED
    BY <2>2, <2>3, Zenon DEF SleepInv
<1>5. QueueNotForgotten'
  <2> SUFFICES ASSUME \A v \in Workers : pc'[v] \in {"free", "timed"}
               PROVE  \E v \in Workers :
                         /\ pc'[v] = "timed"
                         /\ point'[held'[v]] <= Head(queue').time_point
    BY Zenon DEF QueueNotForgotten
  <2>1. \A v \in Workers :
           pc[v] = "timed" /\ point[held[v]] < t /\ pc'[v] = pc[v]
    BY <1>a, WakeUpMisses, Zenon
  <2>2. \A v \in Workers : point'[held'[v]] = point[held[v]]
    BY <1>e, <1>f, <2>1 DEF Holds
  <2>3. CASE Head(queue') = Entry(t, task)
    <3>1. 1 \in Workers
      BY NumWorkersAssumption DEF Workers
    <3>2. held[1] \in Tasks
      BY <1>f, <2>1, <3>1, Zenon DEF Holds
    <3>3. point[held[1]] \in Int /\ t \in Int
      BY <3>2, MaxTimeAssumption DEF TypeOK, Interval
    <3>4. Head(queue').time_point = t
      BY <2>3 DEF Entry
    <3> QED
      BY <2>1, <2>2, <3>1, <3>3, <3>4
  <2>4. CASE queue # <<>> /\ Head(queue') = Head(queue)
    BY <2>1, <2>2, <2>4, Zenon DEF QueueNotForgotten
  <2> QED
    BY <1>c, <2>3, <2>4, Zenon
<1>6. StopForwarded' /\ (destroying => shutdown)'
  BY <1>d, Zenon DEF StopForwarded, Woken
<1> QED
  BY <1>1, <1>2, <1>3, <1>4, <1>5, <1>6, Zenon

\* The workers have exited, so that every unresolved promise is in the queue,
\* and is broken with it.
LEMMA destroyed_IInv ==
    ASSUME IInv, destroyed
    PROVE  IInv'
<1> USE DEF IInv, destroyed
<1>a. \A w \in Workers : ~Holds(w) /\ held[w] = NoTask
  BY Zenon DEF HeldInv, Holds
<1>b. \A k \in Tasks : result'[k] = IF In(queue, k) THEN Broken(result[k])
                                                   ELSE result[k]
  BY Zenon DEF In
<1>c. DOMAIN queue' = {}
  OBVIOUS
<1>1. TypeOK'
  <2>1. result' \in [Tasks -> Results]
    <3>1. \A k \in Tasks : result'[k] \in Results
      BY <1>b, Zenon DEF TypeOK, Broken, Results
    <3> QED
      BY <3>1, Zenon
  <2>2. queue' \in Seq([time_point : 0 .. MaxTime + Interval, task : Tasks])
    OBVIOUS
  <2> QED
    BY <2>1, <2>2, Zenon DEF TypeOK
<1>2. QueueInv'
  BY <1>c, Zenon DEF QueueInv, Sorted, Distinct, In
<1>3. HeldInv'
  <2>1. \A w \in Workers : ~Holds(w)' /\ held'[w] = NoTask
    BY <1>a, Zenon DEF Holds
  <2>2. \A k \in Tasks : result'[k] # "pending"
    <3>1. ASSUME NEW k \in Tasks PROVE result'[k] # "pending"
      <4>1. k # NoTask
        BY TasksAssumption, Zenon DEF Tasks
      <4>2. result[k] = "pending" => In(queue, k)
        BY <1>a, <4>1 DEF HeldInv
      <4> QED
        BY <1>b, <4>2, Zenon DEF Broken
    <3> QED
      BY <3>1, Zenon
  <2> QED
    BY <2>1, <2>2, Zenon DEF HeldInv
<1>4. SleepInv' /\ StopForwarded' /\ (destroying => shutdown)'
  BY Zenon DEF SleepInv, StopForwarded
<1>5. QueueNotForgotten'
  BY Zenon DEF QueueNotForgotten
<1> QED
  BY <1>1, <1>2, <1>3, <1>4, <1>5, Zenon

\* Every step keeps the invariant.
LEMMA NextIInv == IInv /\ [Next]_vars => IInv'
<1> SUFFICES ASSUME IInv, [Next]_vars PROVE IInv'
  BY Zenon
<1>1. ASSUME NEW w \in Workers, Proceed(w) PROVE IInv'
  BY <1>1, loop_IInv, Work_IInv, Work_woken_IInv, execute_IInv,
     callable_returns_IInv, next_execution_point_IInv, reschedule_IInv, Zenon
  DEF Proceed
<1>2. ASSUME NEW w \in Workers, wake_unnotified(w) \/ request_stop(w)
      PROVE  IInv'
  BY <1>2, wake_unnotified_IInv, request_stop_IInv, Zenon
<1>3. ASSUME NEW task \in Tasks, Abort(task) PROVE IInv'
  BY <1>3, Abort_IInv, Zenon
<1>4. ASSUME NEW task \in Tasks, NEW t \in 0 .. MaxTime, Enqueue(task, t)
      PROVE  IInv'
  BY <1>4, Enqueue_IInv, Zenon
<1>5. CASE Shutdown \/ destroy \/ destroyed \/ tick
  BY <1>5, Shutdown_IInv, destroy_IInv, destroyed_IInv, tick_IInv, Zenon
<1>6. CASE UNCHANGED vars
  <2>1. TypeOK' /\ QueueInv'
    BY <1>6, Zenon DEF vars, IInv, TypeOK, QueueInv
  <2>2. HeldInv' /\ SleepInv'
    BY <1>6 DEF vars, IInv, HeldInv, Holds, SleepInv
  <2>3. QueueNotForgotten' /\ StopForwarded' /\ (destroying => shutdown)'
    BY <1>6, Zenon DEF vars, IInv, QueueNotForgotten, StopForwarded
  <2> QED
    BY <2>1, <2>2, <2>3, Zenon DEF IInv
<1> QED
  BY <1>1, <1>2, <1>3, <1>4, <1>5, <1>6, Zenon DEF Next

\* The inductive invariant holds in every state the program reaches.
THEOREM Invariant == Spec => []IInv
<1> QED
  BY InitIInv, NextIInv, PTL DEF Spec

\* The variables keep their types; in particular no execution point is later
\* than one interval after the last instant a task was scheduled for.
THEOREM TypeCorrect == Spec => []TypeOK
<1>1. IInv => TypeOK
  BY Zenon DEF IInv
<1> QED
  BY <1>1, Invariant, PTL

\* When all workers of the executor sleep, one of them wakes up before or when
\* the first task of the queue is to be executed.
THEOREM NoTaskIsForgotten == Spec => []QueueNotForgotten
<1>1. IInv => QueueNotForgotten
  BY Zenon DEF IInv
<1> QED
  BY <1>1, Invariant, PTL

\* A worker that was asked to stop executes no task that was not asked to stop:
\* the stop_callback forwards the request whichever comes first.
THEOREM StopIsForwarded == Spec => []StopForwarded
<1>1. IInv => StopForwarded
  BY Zenon DEF IInv
<1> QED
  BY <1>1, Invariant, PTL

\* A task is in the queue or with one worker, never in two places, until its
\* promise is resolved.
THEOREM OneOwner == Spec => []OnePlace
<1>1. ASSUME IInv PROVE OnePlace
  <2> SUFFICES ASSUME NEW task \in Tasks
               PROVE  /\ result[task] = "pending" =>
                             Queued(task) \/ HeldBy(task) # {}
                      /\ Queued(task) => HeldBy(task) = {}
                      /\ \A v, w \in HeldBy(task) : v = w
                      /\ Distinct(queue)
    BY Zenon DEF OnePlace, Distinct
  <2>1. Queued(task) <=> In(queue, task)
    BY Zenon DEF Queued, In
  <2>2. task # NoTask
    BY TasksAssumption, Zenon DEF Tasks
  <2>3. \A w \in HeldBy(task) : w \in Workers /\ held[w] = task /\ Holds(w)
    BY <1>1, <2>2, Zenon DEF HeldBy, IInv, HeldInv
  <2>4. \A w \in HeldBy(task) : ~In(queue, task) /\ HeldBy(task) = {w}
    BY <1>1, <2>3 DEF IInv, HeldInv, HeldBy
  <2>5. \A v, w \in HeldBy(task) : v = w
    BY <2>4, Zenon
  <2>6. result[task] = "pending" => In(queue, task) \/ HeldBy(task) # {}
    BY <1>1, Zenon DEF IInv, HeldInv, HeldBy
  <2> QED
    BY <1>1, <2>1, <2>4, <2>5, <2>6, Zenon DEF IInv, QueueInv
<1> QED
  BY <1>1, Invariant, PTL

\* Only take gives a worker a task.
LEMMA Taken ==
    ASSUME IInv, [Next]_vars, NEW w \in Workers,
           held[w] = NoTask, held'[w] # NoTask
    PROVE  /\ queue # <<>> /\ queue' = Tail(queue)
           /\ held'[w] = Head(queue).task /\ point' = point
<1> USE DEF IInv, TypeOK
<1>1. ASSUME NEW v \in Workers, Work(v)
      PROVE  /\ queue # <<>> /\ queue' = Tail(queue)
             /\ held'[w] = Head(queue).task /\ point' = point
  BY <1>1, Zenon DEF Work, take, wait_for_task
<1>2. ASSUME NEW v \in Workers,
             \/ Work_woken(v) \/ reschedule(v) \/ next_execution_point(v)
      PROVE  held' = [held EXCEPT ![v] = NoTask] \/ held' = held
  BY <1>2, Zenon DEF Work_woken, reschedule, PutBack, next_execution_point
<1>3. ASSUME NEW v \in Workers,
             \/ loop(v) \/ execute(v) \/ wake_unnotified(v) \/ request_stop(v)
             \/ \E again \in BOOLEAN : callable_returns(v, again)
      PROVE  held' = held
  BY <1>3, Zenon
  DEF loop, execute, wake_unnotified, request_stop, callable_returns
<1>4. ASSUME NEW task \in Tasks,
             \/ Abort(task)
             \/ \E time_point \in 0 .. MaxTime : Enqueue(task, time_point)
      PROVE  held' = held
  BY <1>4, Zenon DEF Abort, Enqueue
<1>5. Shutdown \/ destroy \/ destroyed \/ tick \/ UNCHANGED vars
         => held' = held
  BY Zenon DEF Shutdown, destroy, destroyed, tick, vars
<1>6. \/ \E v \in Workers : Work(v)
      \/ \E v \in Workers : held' = [held EXCEPT ![v] = NoTask]
      \/ held' = held
  BY <1>2, <1>3, <1>4, <1>5, Zenon DEF Next, Proceed
<1>7. CASE \E v \in Workers : held' = [held EXCEPT ![v] = NoTask]
  BY <1>7, Zenon
<1> QED
  BY <1>1, <1>6, <1>7, Zenon

\* Whoever starts to execute a task, or to wait for it, takes the one with the
\* earliest execution point.
THEOREM EarliestTaskFirst == Spec => EarliestFirst
<1>1. ASSUME IInv, [Next]_vars
      PROVE  [\A w \in Workers :
                 held[w] = NoTask /\ held'[w] # NoTask =>
                     \A i \in DOMAIN queue' :
                         queue'[i].time_point >= point[held'[w]]]_vars
  <2>1. ASSUME NEW w \in Workers, held[w] = NoTask, held'[w] # NoTask,
               NEW i \in DOMAIN queue'
        PROVE  queue'[i].time_point >= point[held'[w]]
    <3>1. /\ queue # <<>> /\ queue' = Tail(queue)
          /\ held'[w] = Head(queue).task
      BY <1>1, <2>1, Taken, Zenon
    <3>2. /\ queue \in Seq(Entries) /\ Head(queue).time_point \in Points
          /\ Head(queue).time_point = point[Head(queue).task]
      BY <1>1, <3>1, HeadOfQueue, Zenon
    <3>3. Tail(queue) \in Seq(Entries)
          /\ Head(queue).time_point <= Tail(queue)[i].time_point
      BY <1>1, <2>1, <3>1, <3>2, TailOfQueue, Zenon DEF IInv, QueueInv
    <3>4. Tail(queue)[i] \in Entries
      BY <2>1, <3>1, <3>3
    <3>5. Tail(queue)[i].time_point \in Int /\ Head(queue).time_point \in Int
      <4>1. Points \subseteq Int
        BY MaxTimeAssumption DEF Points, Interval
      <4>2. Tail(queue)[i].time_point \in Points
        BY <3>4, Zenon DEF Entries
      <4> QED
        BY <3>2, <4>1, <4>2, Zenon
    <3> QED
      BY <3>1, <3>2, <3>3, <3>5, Zenon
  <2> QED
    BY <2>1, Zenon
<1> QED
  BY <1>1, Invariant, PTL DEF Spec, EarliestFirst

-----------------------------------------------------------------------------
(* The refinement of Executor                                              *)

Runs(task) == \E w \in Workers : held[w] = task /\ pc[w] = "body"

\* TaskState, without the state that no task is in.
Place(task) ==
    IF Runs(task) THEN "running"
      ELSE IF result[task] = "unposted" THEN "new"
      ELSE IF result[task] = "pending" THEN "pending" ELSE "over"

Places == \A task \in Tasks : TaskState(task) = Place(task)

\* A task that is executed is not in the queue, and its promise is unresolved.
LEMMA Mapped ==
    ASSUME IInv
    PROVE  \A task \in Tasks : /\ TaskState(task) = Place(task)
                               /\ Runs(task) => result[task] = "pending"
<1> SUFFICES ASSUME NEW task \in Tasks
             PROVE  /\ TaskState(task) = Place(task)
                    /\ Runs(task) => result[task] = "pending"
  BY Zenon
<1>1. (\E w \in HeldBy(task) : pc[w] = "body") <=> Runs(task)
  BY Zenon DEF HeldBy, Runs
<1>2. Runs(task) => ~Queued(task) /\ result[task] = "pending"
  <2> SUFFICES ASSUME NEW w \in Workers, held[w] = task, pc[w] = "body"
               PROVE  ~In(queue, task) /\ result[task] = "pending"
    BY Zenon DEF Runs, Queued, In
  <2> QED
    BY Zenon DEF IInv, HeldInv, Holds
<1>3. result[task] \in Results
  BY Zenon DEF IInv, TypeOK
<1>4. CASE Runs(task)
  BY <1>1, <1>2, <1>4, Zenon DEF TaskState, Place
<1>5. CASE ~Runs(task)
  <2>1. TaskState(task) = CASE result[task] = "unposted" -> "new"
                            [] result[task] = "pending" -> "pending"
                            [] result[task] \in {"value", "broken"} -> "over"
    BY <1>1, <1>5, Zenon DEF TaskState
  <2>2. CASE result[task] = "unposted"
    BY <1>5, <2>1, <2>2, Zenon DEF Place
  <2>3. CASE result[task] = "pending"
    BY <1>5, <2>1, <2>3, Zenon DEF Place
  <2>4. CASE result[task] \in {"value", "broken"}
    BY <1>5, <2>1, <2>4, Zenon DEF Place
  <2> QED
    BY <1>3, <1>5, <2>2, <2>3, <2>4, Zenon DEF Results
<1> QED
  BY <1>2, <1>4, <1>5, Zenon

\* Steps that start or end no callable and resolve no promise.
LEMMA SamePlaces ==
    ASSUME result' = result,
           \A w \in Workers : /\ pc'[w] = "body" <=> pc[w] = "body"
                              /\ pc[w] = "body" => held'[w] = held[w]
    PROVE  \A task \in Tasks : Place(task)' = Place(task)
<1>1. \A task \in Tasks : Runs(task)' <=> Runs(task)
  BY Zenon DEF Runs
<1> QED
  BY <1>1, Zenon DEF Place

\* The critical sections that move tasks between the queue and the workers are
\* invisible from outside.
LEMMA MappedWork ==
    ASSUME IInv, NEW w \in Workers,
           Work(w) \/ Work_woken(w) \/ reschedule(w)
    PROVE  \A task \in Tasks : Place(task)' = Place(task)
<1>t. pc \in [Workers -> Pcs] /\ held \in [Workers -> Tasks \cup {NoTask}]
  BY Zenon DEF IInv, TypeOK
<1>r. result' = result /\ pc[w] # "body"
  BY Zenon DEF Work, Work_woken, reschedule
<1>1. \A v \in Workers : v # w => held'[v] = held[v]
  BY <1>t, Zenon
  DEF Work, take, wait_for_task, Work_woken, reschedule, PutBack
<1>2. \A v \in Workers : pc'[v] = "body" <=> pc[v] = "body"
  <2>1. CASE \E label \in {"run", "timed", "loop", "free"} :
                pc' = [pc EXCEPT ![w] = label]
    BY <1>t, <1>r, <2>1, Zenon
  <2>2. CASE \E t, idle, waiters :
                pc' = WakeUp(t, idle, waiters, [pc EXCEPT ![w] = "loop"])
    <3>1. PICK t, idle, waiters :
             pc' = WakeUp(t, idle, waiters, [pc EXCEPT ![w] = "loop"])
      BY <2>2, Zenon
    <3> DEFINE pcs == [pc EXCEPT ![w] = "loop"]
    <3>2. pcs \in [Workers -> Pcs]
      BY <1>t, Zenon DEF Pcs
    <3>3. \A v \in Workers : pcs[v] = IF v = w THEN "loop" ELSE pc[v]
      BY <1>t, Zenon
    <3>4. Woken(pcs, pc')
      BY <3>1, <3>2, WakeUpWakes, Zenon
    <3> HIDE DEF pcs
    <3> QED
      BY <1>r, <3>3, <3>4, Zenon DEF Woken
  <2> QED
    BY <2>1, <2>2, Zenon
    DEF Work, take, wait_for_task, Work_woken, reschedule, PutBack
<1> QED
  BY <1>r, <1>1, <1>2, SamePlaces, Zenon

\* A step of the worker w that concerns only its own task.
LEMMA OtherPlaces ==
    ASSUME IInv, NEW w \in Workers, Holds(w), NEW task, task = held[w],
           \A v \in Workers \ {w} : pc'[v] = pc[v] /\ held'[v] = held[v],
           held'[w] \in {task, NoTask},
           \A k \in Tasks \ {task} : result'[k] = result[k]
    PROVE  /\ task \in Tasks
           /\ \A k \in Tasks \ {task} : Place(k)' = Place(k)
           /\ Runs(task) <=> pc[w] = "body"
           /\ Runs(task)' <=> held'[w] = task /\ pc'[w] = "body"
<1>1. task \in Tasks /\ \A v \in Workers : held[v] = task => v = w
  BY DEF IInv, TypeOK, HeldInv
<1>2. \A k \in Tasks : k # NoTask
  BY TasksAssumption, Zenon DEF Tasks
<1>3. \A k \in Tasks \ {task} : Runs(k)' <=> Runs(k)
  BY <1>2 DEF Runs
<1>4. Runs(task) <=> pc[w] = "body"
  BY <1>1, Zenon DEF Runs
<1>5. Runs(task)' <=> held'[w] = task /\ pc'[w] = "body"
  <2>1. \A v \in Workers : held'[v] = task => v = w
    BY <1>1, Zenon
  <2> QED
    BY <2>1, Zenon DEF Runs
<1> QED
  BY <1>1, <1>3, <1>4, <1>5, Zenon DEF Place

\* execute starts the callable, or gives the task up because of a stop.
LEMMA MappedExecute ==
    ASSUME IInv, NEW w \in Workers, execute(w), NEW task, task = held[w]
    PROVE  /\ task \in Tasks /\ Place(task) = "pending"
           /\ \A k \in Tasks \ {task} : Place(k)' = Place(k)
           /\ \/ Place(task)' \in {"running", "pending"}
              \/ Place(task)' = "over" /\ task \in stop_requested'
<1>1. Holds(w) /\ pc[w] = "run"
  BY Zenon DEF execute, Holds
<1>2. task \in Tasks /\ result[task] = "pending"
  BY <1>1 DEF IInv, TypeOK, HeldInv
<1>3. /\ held'[w] \in {task, NoTask}
      /\ \A v \in Workers \ {w} : pc'[v] = pc[v] /\ held'[v] = held[v]
      /\ \A k \in Tasks \ {task} : result'[k] = result[k]
  BY <1>2, Zenon DEF execute, IInv, TypeOK
<1>4. /\ \A k \in Tasks \ {task} : Place(k)' = Place(k)
      /\ ~Runs(task)
      /\ Runs(task)' <=> held'[w] = task /\ pc'[w] = "body"
  BY <1>1, <1>3, OtherPlaces, Zenon
<1>5. Place(task) = "pending"
  BY <1>2, <1>4, Zenon DEF Place
<1>6. result'[task] # "unposted"
  BY <1>2, Zenon DEF execute, IInv, TypeOK
<1>7. result'[task] # "pending" => task \in stop_requested'
  BY <1>2, Zenon DEF execute, IInv, TypeOK
<1> QED
  BY <1>2, <1>4, <1>5, <1>6, <1>7, Zenon DEF Place

\* When its callable has returned, a task is over; a periodic one may wait for
\* its next execution.
LEMMA MappedReturn ==
    ASSUME IInv, NEW w \in Workers, NEW again \in BOOLEAN,
           callable_returns(w, again), NEW task, task = held[w]
    PROVE  /\ task \in Tasks /\ Place(task) = "running"
           /\ \A k \in Tasks \ {task} : Place(k)' = Place(k)
           /\ \/ Place(task)' = "pending" /\ task \in PeriodicTasks
              \/ Place(task)' = "over"
<1>1. Holds(w) /\ pc[w] = "body"
  BY Zenon DEF callable_returns, Holds
<1>2. task \in Tasks /\ result[task] = "pending"
  BY <1>1 DEF IInv, TypeOK, HeldInv
<1>3. /\ held'[w] \in {task, NoTask} /\ pc'[w] = "after"
      /\ \A v \in Workers \ {w} : pc'[v] = pc[v] /\ held'[v] = held[v]
      /\ \A k \in Tasks \ {task} : result'[k] = result[k]
  BY <1>2, Zenon DEF callable_returns, IInv, TypeOK
<1>4. /\ \A k \in Tasks \ {task} : Place(k)' = Place(k)
      /\ Runs(task) /\ ~Runs(task)'
  BY <1>1, <1>3, OtherPlaces, Zenon
<1>5. \/ result'[task] = "pending" /\ task \in PeriodicTasks
      \/ result'[task] = "value"
  BY <1>2, Zenon DEF callable_returns, IInv, TypeOK
<1> QED
  BY <1>2, <1>4, <1>5, Zenon DEF Place

\* A task that is not scheduled again was stopped.
LEMMA MappedNextPoint ==
    ASSUME IInv, NEW w \in Workers, next_execution_point(w),
           NEW task, task = held[w]
    PROVE  /\ task \in Tasks
           /\ \A k \in Tasks \ {task} : Place(k)' = Place(k)
           /\ \/ Place(task)' = Place(task)
              \/ /\ Place(task) = "pending" /\ Place(task)' = "over"
                 /\ task \in stop_requested'
<1>1. Holds(w) /\ pc[w] = "after"
  BY Zenon DEF next_execution_point, Holds
<1>2. task \in Tasks /\ result[task] \in {"pending", "value"}
  BY <1>1 DEF IInv, TypeOK, HeldInv
<1>3. /\ held'[w] \in {task, NoTask} /\ pc'[w] # "body"
      /\ \A v \in Workers \ {w} : pc'[v] = pc[v] /\ held'[v] = held[v]
      /\ \A k \in Tasks \ {task} : result'[k] = result[k]
  BY <1>2, Zenon DEF next_execution_point, IInv, TypeOK
<1>4. /\ \A k \in Tasks \ {task} : Place(k)' = Place(k)
      /\ ~Runs(task) /\ ~Runs(task)'
  BY <1>1, <1>3, OtherPlaces, Zenon
<1>5. \/ result'[task] = result[task]
      \/ /\ result[task] = "pending" /\ result'[task] = "broken"
         /\ task \in stop_requested'
  BY <1>2, Zenon DEF next_execution_point, Broken, IInv, TypeOK
<1> QED
  BY <1>2, <1>4, <1>5, Zenon DEF Place

\* Enqueue makes a new task pending.
LEMMA MappedEnqueue ==
    ASSUME IInv, NEW task \in Tasks, NEW t \in 0 .. MaxTime, Enqueue(task, t)
    PROVE  /\ Place(task) = "new" /\ Place(task)' = "pending"
           /\ \A k \in Tasks \ {task} : Place(k)' = Place(k)
<1>1. Woken(pc, pc')
  BY WakeUpWakes, Zenon DEF Enqueue, IInv, TypeOK
<1>2. \A k : Runs(k)' <=> Runs(k)
  BY <1>1, Zenon DEF Enqueue, Runs, Woken
<1>3. result[task] = "unposted" /\ ~Runs(task)
  BY Mapped, Zenon DEF Enqueue
<1>4. /\ result'[task] = "pending"
      /\ \A k \in Tasks \ {task} : result'[k] = result[k]
  BY Zenon DEF Enqueue, IInv, TypeOK
<1> QED
  BY <1>2, <1>3, <1>4, Zenon DEF Place

\* The destructor gives up exactly the tasks that are in the queue.
LEMMA MappedDestroyed ==
    ASSUME IInv, destroyed
    PROVE  \A k \in Tasks :
              IF In(queue, k) THEN Place(k) = "pending" /\ Place(k)' = "over"
                              ELSE Place(k)' = Place(k)
<1>1. \A k \in Tasks : ~Runs(k) /\ ~Runs(k)'
  BY Zenon DEF destroyed, Runs
<1>2. \A k \in Tasks : In(queue, k) => result[k] = "pending"
  BY Zenon DEF IInv, QueueInv
<1>3. \A k \in Tasks : result'[k] = IF In(queue, k) THEN Broken(result[k])
                                                   ELSE result[k]
  BY Zenon DEF destroyed, In
<1>4. \A k \in Tasks : In(queue, k) => result'[k] = "broken"
  BY <1>2, <1>3, Zenon DEF Broken
<1> QED
  BY <1>1, <1>2, <1>3, <1>4, Zenon DEF Place

\* Requests to shut down and to stop are final.
LEMMA Monotone ==
    ASSUME [Next]_vars
    PROVE  (shutdown => shutdown') /\ stop_requested \subseteq stop_requested'
<1>1. ASSUME NEW w \in Workers, Proceed(w)
      PROVE  shutdown' = shutdown /\ stop_requested \subseteq stop_requested'
  BY <1>1, Zenon
  DEF Proceed, loop, Work, Work_woken, execute, callable_returns,
      next_execution_point, reschedule
<1>2. ASSUME NEW w \in Workers, wake_unnotified(w) \/ request_stop(w)
      PROVE  shutdown' = shutdown /\ stop_requested \subseteq stop_requested'
  BY <1>2, Zenon DEF wake_unnotified, request_stop
<1>3. ASSUME NEW task \in Tasks,
             \/ Abort(task)
             \/ \E time_point \in 0 .. MaxTime : Enqueue(task, time_point)
      PROVE  shutdown' = shutdown /\ stop_requested \subseteq stop_requested'
  BY <1>3, Zenon DEF Abort, Enqueue
<1>4. CASE Shutdown \/ destroy \/ destroyed \/ tick \/ UNCHANGED vars
  BY <1>4 DEF Shutdown, destroy, destroyed, tick, vars
<1> QED
  BY <1>1, <1>2, <1>3, <1>4, Zenon DEF Next

\* The timed executor implements the abstract one, step by step: it executes a
\* task at most once (a periodic one again after each return), in one thread,
\* and gives up only tasks that were stopped, or left when it is destroyed.
THEOREM TimedImplementsExecutor == Spec => ImplementsExecutor
<1> DEFINE state == [task \in Tasks |-> TaskState(task)]
<1>1. Init => Abstract!Init
  <2> SUFFICES ASSUME Init PROVE Abstract!Init
    BY Zenon
  <2>1. ASSUME NEW k \in Tasks PROVE TaskState(k) = "new"
    <3>1. ~Runs(k) /\ result[k] = "unposted"
      BY Zenon DEF Init, Runs
    <3> QED
      BY <3>1, InitIInv, Mapped, Zenon DEF Place
  <2> QED
    BY <2>1, Zenon DEF Init, Abstract!Init
<1>2. IInv => Places
  BY Mapped, Zenon DEF Places
<1>3. IInv /\ Places /\ Places' /\ [Next]_vars
         => [Abstract!Next]_(Abstract!vars)
  <2> SUFFICES ASSUME IInv, Places, Places', [Next]_vars
               PROVE  [Abstract!Next]_(Abstract!vars)
    BY Zenon
  <2>s. \A k \in Tasks : state[k] = Place(k) /\ state'[k] = Place(k)'
    BY Zenon DEF Places
  <2>r. Abstract!Requests
    BY Monotone, Zenon DEF Abstract!Requests
  <2>1. ASSUME \A k \in Tasks : Place(k)' = Place(k)
        PROVE  Abstract!Next
    <3>1. state' = state
      BY <2>1, <2>s, Zenon
    <3> QED
      BY <3>1, <2>r, Zenon DEF Abstract!Next
  <2>2. ASSUME NEW k \in Tasks, NEW from, NEW to,
               Place(k) = from, Place(k)' = to,
               \A other \in Tasks \ {k} : Place(other)' = Place(other)
        PROVE  Abstract!Step(k, from, to)
    <3>1. state[k] = from /\ state' = [state EXCEPT ![k] = to]
      BY <2>2, <2>s, Zenon
    <3> QED
      BY <3>1, Zenon DEF Abstract!Step
  <2>3. ASSUME NEW dropped \in SUBSET Tasks,
               \A k \in dropped : /\ Place(k) = "pending" /\ Place(k)' = "over"
                                  /\ shutdown' \/ k \in stop_requested',
               \A k \in Tasks \ dropped : Place(k)' = Place(k)
        PROVE  Abstract!Next
    <3>1. /\ \A k \in dropped : state[k] = "pending"
          /\ state' = [k \in Tasks |->
                          IF k \in dropped THEN "over" ELSE state[k]]
      BY <2>3, <2>s
    <3>2. Abstract!Drop(dropped)
      BY <2>3, <3>1, Zenon DEF Abstract!Drop
    <3> QED
      BY <2>r, <3>2, Zenon DEF Abstract!Next
  <2>4. ASSUME NEW w \in Workers, execute(w) PROVE Abstract!Next
    <3>1. PICK task : task = held[w]
      BY Zenon
    <3>2. /\ task \in Tasks /\ Place(task) = "pending"
          /\ \A k \in Tasks \ {task} : Place(k)' = Place(k)
          /\ \/ Place(task)' \in {"running", "pending"}
             \/ Place(task)' = "over" /\ task \in stop_requested'
      BY <2>4, <3>1, MappedExecute, Zenon
    <3>3. CASE Place(task)' = "pending"
      BY <2>1, <3>2, <3>3, Zenon
    <3>4. CASE Place(task)' = "running"
      BY <2>2, <2>r, <3>2, <3>4, Zenon DEF Abstract!Next, Abstract!Start
    <3>5. CASE Place(task)' = "over" /\ task \in stop_requested'
      <4>1. {task} \in SUBSET Tasks
        BY <3>2, Zenon
      <4> QED
        BY <2>3, <3>2, <3>5, <4>1, Zenon
    <3> QED
      BY <3>2, <3>3, <3>4, <3>5, Zenon
  <2>5. ASSUME NEW w \in Workers, NEW again \in BOOLEAN,
               callable_returns(w, again)
        PROVE  Abstract!Next
    <3>1. PICK task : task = held[w]
      BY Zenon
    <3>2. /\ task \in Tasks /\ Place(task) = "running"
          /\ \A k \in Tasks \ {task} : Place(k)' = Place(k)
          /\ \/ Place(task)' = "pending" /\ task \in PeriodicTasks
             \/ Place(task)' = "over"
      BY <2>5, <3>1, MappedReturn, Zenon
    <3>3. Abstract!Return(task)
      BY <2>2, <3>2, Zenon DEF Abstract!Return
    <3> QED
      BY <2>r, <3>2, <3>3, Zenon DEF Abstract!Next
  <2>6. ASSUME NEW w \in Workers, next_execution_point(w)
        PROVE  Abstract!Next
    <3>1. PICK task : task = held[w]
      BY Zenon
    <3>2. /\ task \in Tasks
          /\ \A k \in Tasks \ {task} : Place(k)' = Place(k)
          /\ \/ Place(task)' = Place(task)
             \/ /\ Place(task) = "pending" /\ Place(task)' = "over"
                /\ task \in stop_requested'
      BY <2>6, <3>1, MappedNextPoint, Zenon
    <3>3. CASE Place(task)' = Place(task)
      BY <2>1, <3>2, <3>3, Zenon
    <3>4. CASE /\ Place(task) = "pending" /\ Place(task)' = "over"
               /\ task \in stop_requested'
      <4>1. {task} \in SUBSET Tasks
        BY <3>2, Zenon
      <4> QED
        BY <2>3, <3>2, <3>4, <4>1, Zenon
    <3> QED
      BY <3>2, <3>3, <3>4, Zenon
  <2>7. ASSUME NEW task \in Tasks, NEW t \in 0 .. MaxTime, Enqueue(task, t)
        PROVE  Abstract!Next
    <3>1. Abstract!Post(task)
      BY <2>2, <2>7, MappedEnqueue, Zenon DEF Abstract!Post
    <3> QED
      BY <2>r, <3>1, Zenon DEF Abstract!Next
  <2>8. CASE destroyed
    <3> DEFINE dropped == {k \in Tasks : In(queue, k)}
    <3>1. /\ \A k \in dropped : Place(k) = "pending" /\ Place(k)' = "over"
          /\ \A k \in Tasks \ dropped : Place(k)' = Place(k)
      BY <2>8, MappedDestroyed, Zenon
    <3>2. shutdown'
      BY <2>8, Zenon DEF destroyed, IInv
    <3>3. dropped \in SUBSET Tasks
      BY Zenon
    <3> HIDE DEF dropped
    <3> QED
      BY <2>3, <3>1, <3>2, <3>3, Zenon
  <2>9. ASSUME NEW w \in Workers, Work(w) \/ Work_woken(w) \/ reschedule(w)
        PROVE  Abstract!Next
    BY <2>1, <2>9, MappedWork, Zenon
  <2>10. ASSUME NEW w \in Workers,
                loop(w) \/ wake_unnotified(w) \/ request_stop(w)
         PROVE  Abstract!Next
    <3>1. result' = result /\ held' = held
      BY <2>10, Zenon DEF loop, wake_unnotified, request_stop
    <3>2. \A v \in Workers : pc'[v] = "body" <=> pc[v] = "body"
      <4>1. pc \in [Workers -> Pcs]
        BY Zenon DEF IInv, TypeOK
      <4>2. CASE loop(w)
        BY <4>1, <4>2, Zenon DEF loop
      <4>3. CASE pc' = Notified(w, pc)
        BY <4>1, <4>3, NotifiedWakes DEF Woken
      <4> QED
        BY <2>10, <4>2, <4>3, Zenon DEF wake_unnotified, request_stop
    <3> QED
      BY <2>1, <3>1, <3>2, SamePlaces, Zenon
  <2>11. CASE UNCHANGED <<pc, held, result>>
    BY <2>1, <2>11, SamePlaces, Zenon
  <2>12. ASSUME \/ Shutdown \/ destroy \/ tick \/ UNCHANGED vars
                \/ \E task \in Tasks : Abort(task)
         PROVE  UNCHANGED <<pc, held, result>>
    BY <2>12, Zenon DEF Shutdown, destroy, tick, vars, Abort
  <2> QED
    BY <2>4, <2>5, <2>6, <2>7, <2>8, <2>9, <2>10, <2>11, <2>12, Zenon
    DEF Next, Proceed
<1> QED
  BY <1>1, <1>2, <1>3, Invariant, PTL DEF Spec, ImplementsExecutor, Abstract!Spec

=============================================================================
