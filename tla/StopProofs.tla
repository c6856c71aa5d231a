----------------------------- MODULE StopProofs -----------------------------
(***************************************************************************)
(* Proofs about the two ways in which the libraries end what others wait   *)
(* for; the two components share nothing but this module:                  *)
(*  - StopState, for any set of threads and callbacks and any bound on the *)
(*    ids.  The safety properties are not inductive: they follow from      *)
(*    IInv, which ties the life of each object to its place in the list,   *)
(*    the list to the ids and run counts, and the thread inside execute()  *)
(*    to the threads inside destructors;                                   *)
(*  - InotifyInstance with its AbortableReader, for any number of readers, *)
(*    paths, calls and events.                                             *)
(***************************************************************************)
EXTENDS StopState, InotifyInstance, TLAPS

-----------------------------------------------------------------------------
(* StopState                                                               *)


\* A callback is linked exactly while it exists with an id of its own, and
\* what is not linked ran inside its constructor.
ListInv ==
    /\ next_callback_id >= 1
    /\ \A cb \in Callbacks :
          /\ cb \in linked =>
                /\ life[cb] \in {"alive", "destroying"}
                /\ callback_id[cb] >= 1
                /\ callback_id[cb] < next_callback_id
                /\ runs[cb] = (IF already_started[cb] THEN 1 ELSE 0)
          /\ life[cb] = "alive" /\ cb \notin linked =>
                callback_id[cb] = 0 /\ runs[cb] = 1
          /\ life[cb] = "constructing" =>
                callback_id[cb] = 0 /\ runs[cb] = 1
          /\ life[cb] = "destroying" => cb \in linked
          /\ runs[cb] <= 1

UniqueIds ==
    \A c, d \in linked : callback_id[c] = callback_id[d] => c = d

\* One thread is inside the destructor, or the constructor, of an object.
OwnerInv ==
    /\ \A t \in Threads :
          /\ destroying[t] # NoCallback => life[destroying[t]] = "destroying"
          /\ inline[t] # NoCallback => life[inline[t]] = "constructing"
    /\ \A t, u \in Threads :
          /\ destroying[t] = destroying[u] /\ destroying[t] # NoCallback
                => t = u
          /\ inline[t] = inline[u] /\ inline[t] # NoCallback => t = u

\* What the thread that won the compare-and-swap is doing.
NotifyInv ==
    /\ stop_requested <=> notify_pc # "none"
    /\ notify_pc # "none" => notifier \in Threads
    /\ notify_pc # "body" =>
          currently_executing = 0 /\ ~released /\ running = NoCallback
    /\ notify_pc = "body" =>
          running \in Callbacks /\ currently_executing >= 1
    /\ notify_pc = "body" /\ ~released =>
          /\ running \in linked
          /\ callback_id[running] = currently_executing
          /\ already_started[running]
          /\ executed_by[running] = notifier
    /\ notify_pc = "body" /\ released =>
          \A cb \in linked : callback_id[cb] # currently_executing
    /\ notify_pc = "done" => \A cb \in linked : already_started[cb]

WaitInv ==
    \A t \in waiting :
        /\ notify_pc = "body" /\ ~released
        /\ notifier # t
        /\ running = destroying[t]

IInv == TypeOK /\ ListInv /\ UniqueIds /\ OwnerInv /\ NotifyInv /\ WaitInv

\* A constructor that finds the stop already requested (stop_token.cpp:36-48)
\* runs its callback itself and never enters the list.
LEMMA RegisterInline ==
    ASSUME IInv, NEW t \in Threads, NEW cb \in Callbacks,
           register_callback(t, cb) /\ register_inline(t, cb)
    PROVE  IInv'
<1> USE NoThreadAssumption, NoCallbackAssumption DEF IInv, register_callback, register_inline, InUserCode, DefaultId
<1>1. TypeOK'
  BY DEF TypeOK, Lives, NotifyPcs
<1>2. ListInv'
  BY DEF TypeOK, ListInv, OwnerInv, NotifyInv, Lives
<1>3. UniqueIds'
  BY DEF TypeOK, ListInv, UniqueIds
<1>4. OwnerInv'
  BY DEF TypeOK, ListInv, OwnerInv
<1>5. NotifyInv'
  BY DEF TypeOK, ListInv, UniqueIds, OwnerInv, NotifyInv
<1>6. WaitInv'
  BY DEF TypeOK, ListInv, UniqueIds, OwnerInv, NotifyInv, WaitInv
<1> QED  BY <1>1, <1>2, <1>3, <1>4, <1>5, <1>6

\* A constructor that finds no stop request takes the next id, which no linked
\* callback has, and enters the list (stop_token.cpp:49-71).
LEMMA RegisterLinked ==
    ASSUME IInv, NEW t \in Threads, NEW cb \in Callbacks,
           register_callback(t, cb) /\ register_linked(t, cb)
    PROVE  IInv'
<1> USE NoThreadAssumption, NoCallbackAssumption DEF IInv, register_callback, register_linked, InUserCode, DefaultId
<1>1. TypeOK'
  BY DEF TypeOK, Lives, NotifyPcs
<1>2. ListInv'
  BY DEF TypeOK, ListInv, OwnerInv, NotifyInv, Lives
<1>3. UniqueIds'
  BY DEF TypeOK, ListInv, UniqueIds
<1>4. OwnerInv'
  BY DEF TypeOK, ListInv, OwnerInv
<1>5. NotifyInv'
  BY DEF TypeOK, ListInv, UniqueIds, OwnerInv, NotifyInv
<1>6. WaitInv'
  BY DEF TypeOK, ListInv, UniqueIds, OwnerInv, NotifyInv, WaitInv
<1> QED  BY <1>1, <1>2, <1>3, <1>4, <1>5, <1>6

\* The callback run by its own constructor returns: the object is alive, unlinked.
LEMMA InlineReturn ==
    ASSUME IInv, NEW t \in Threads,
           inline_return(t)
    PROVE  IInv'
<1> USE NoThreadAssumption, NoCallbackAssumption DEF IInv, inline_return, InUserCode, DefaultId
<1>1. TypeOK'
  BY DEF TypeOK, Lives, NotifyPcs
<1>2. ListInv'
  BY DEF TypeOK, ListInv, OwnerInv, NotifyInv, Lives
<1>3. UniqueIds'
  BY DEF TypeOK, ListInv, UniqueIds
<1>4. OwnerInv'
  BY DEF TypeOK, ListInv, OwnerInv
<1>5. NotifyInv'
  BY DEF TypeOK, ListInv, UniqueIds, OwnerInv, NotifyInv
<1>6. WaitInv'
  BY DEF TypeOK, ListInv, UniqueIds, OwnerInv, NotifyInv, WaitInv
<1> QED  BY <1>1, <1>2, <1>3, <1>4, <1>5, <1>6

\* A destructor begins: an unlinked object is gone at once, a linked one is
\* owned by the destroying thread until it is unlinked.
LEMMA Destroy ==
    ASSUME IInv, NEW t \in Threads, NEW cb \in Callbacks,
           destroy_callback(t, cb)
    PROVE  IInv'
<1> USE NoThreadAssumption, NoCallbackAssumption DEF IInv, destroy_callback, InUserCode, DefaultId
<1>1. TypeOK'
  BY DEF TypeOK, Lives, NotifyPcs
<1>2. ListInv'
  BY DEF TypeOK, ListInv, OwnerInv, NotifyInv, Lives
<1>3. UniqueIds'
  BY DEF TypeOK, ListInv, UniqueIds
<1>4. OwnerInv'
  BY DEF TypeOK, ListInv, OwnerInv
<1>5. NotifyInv'
  BY DEF TypeOK, ListInv, UniqueIds, OwnerInv, NotifyInv
<1>6. WaitInv'
  BY DEF TypeOK, ListInv, UniqueIds, OwnerInv, NotifyInv, WaitInv
<1> QED  BY <1>1, <1>2, <1>3, <1>4, <1>5, <1>6

\* A destructor waits only while another thread is inside this callback, which
\* is the one callback in execution.
LEMMA DeregWait ==
    ASSUME IInv, NEW t \in Threads,
           deregister_callback(t) /\ deregister_wait(t)
    PROVE  IInv'
<1> USE NoThreadAssumption, NoCallbackAssumption DEF IInv, deregister_callback, deregister_wait, ExecutedElsewhere, DefaultId
<1>1. TypeOK'
  BY DEF TypeOK, Lives, NotifyPcs
<1>2. ListInv'
  BY DEF TypeOK, ListInv, OwnerInv, NotifyInv, Lives
<1>3. UniqueIds'
  BY DEF TypeOK, ListInv, UniqueIds
<1>4. OwnerInv'
  BY DEF TypeOK, ListInv, OwnerInv
<1>5. NotifyInv'
  BY DEF TypeOK, ListInv, UniqueIds, OwnerInv, NotifyInv
<1>6. WaitInv'
  BY DEF TypeOK, ListInv, UniqueIds, OwnerInv, NotifyInv, WaitInv
<1> QED  BY <1>1, <1>2, <1>3, <1>4, <1>5, <1>6

\* A destructor unlinks its object.  The only callback it can pull from under
\* its own execution is the one the destroying thread itself is running; then
\* no linked callback has the id in execution any more.
LEMMA DeregUnlink ==
    ASSUME IInv, NEW t \in Threads,
           deregister_callback(t) /\ deregister_unlink(t)
    PROVE  IInv'
<1> USE NoThreadAssumption, NoCallbackAssumption DEF IInv, deregister_callback, deregister_unlink, ExecutedElsewhere, DefaultId
<1>1. TypeOK'
  BY DEF TypeOK, Lives, NotifyPcs
<1>2. ListInv'
  BY DEF TypeOK, ListInv, OwnerInv, NotifyInv, Lives
<1>3. UniqueIds'
  BY DEF TypeOK, ListInv, UniqueIds
<1>4. OwnerInv'
  BY DEF TypeOK, ListInv, OwnerInv
<1>5. NotifyInv'
  <2> DEFINE cb == destroying[t]
  <2>1. cb \in linked /\ cb \in Callbacks
    BY DEF TypeOK, ListInv, OwnerInv
  <2>2. CASE notify_pc = "body" /\ ~released /\ cb = running
    <3>1. t = notifier
      BY <2>2, <2>1 DEF TypeOK, NotifyInv
    <3>2. released'
      BY <2>2, <3>1
    <3>3. \A c \in linked' : callback_id[c] # currently_executing
      BY <2>1, <2>2 DEF TypeOK, UniqueIds, NotifyInv
    <3> QED
      BY <2>2, <3>2, <3>3 DEF NotifyInv
  <2>3. CASE ~(notify_pc = "body" /\ ~released /\ cb = running)
    BY <2>1, <2>3 DEF TypeOK, NotifyInv
  <2> QED  BY <2>2, <2>3
<1>6. WaitInv'
  BY DEF TypeOK, ListInv, UniqueIds, OwnerInv, NotifyInv, WaitInv
<1> QED  BY <1>1, <1>2, <1>3, <1>4, <1>5, <1>6

\* A wait that ends without a notification leads back to the test of the loop.
LEMMA Spurious ==
    ASSUME IInv, NEW t \in Threads,
           spurious_wakeup(t)
    PROVE  IInv'
<1> USE NoThreadAssumption, NoCallbackAssumption DEF IInv, spurious_wakeup, DefaultId
<1>1. TypeOK'
  BY DEF TypeOK, Lives, NotifyPcs
<1>2. ListInv'
  BY DEF TypeOK, ListInv, OwnerInv, NotifyInv, Lives
<1>3. UniqueIds'
  BY DEF TypeOK, ListInv, UniqueIds
<1>4. OwnerInv'
  BY DEF TypeOK, ListInv, OwnerInv
<1>5. NotifyInv'
  BY DEF TypeOK, ListInv, UniqueIds, OwnerInv, NotifyInv
<1>6. WaitInv'
  BY DEF TypeOK, ListInv, UniqueIds, OwnerInv, NotifyInv, WaitInv
<1> QED  BY <1>1, <1>2, <1>3, <1>4, <1>5, <1>6

\* The first request_stop wins the compare-and-swap and becomes the notifier.
LEMMA RequestStop ==
    ASSUME IInv, NEW t \in Threads,
           request_stop(t)
    PROVE  IInv'
<1> USE NoThreadAssumption, NoCallbackAssumption DEF IInv, request_stop, InUserCode, DefaultId
<1>1. TypeOK'
  BY DEF TypeOK, Lives, NotifyPcs
<1>2. ListInv'
  BY DEF TypeOK, ListInv, OwnerInv, NotifyInv, Lives
<1>3. UniqueIds'
  BY DEF TypeOK, ListInv, UniqueIds
<1>4. OwnerInv'
  BY DEF TypeOK, ListInv, OwnerInv
<1>5. NotifyInv'
  BY DEF TypeOK, ListInv, UniqueIds, OwnerInv, NotifyInv
<1>6. WaitInv'
  BY DEF TypeOK, ListInv, UniqueIds, OwnerInv, NotifyInv, WaitInv
<1> QED  BY <1>1, <1>2, <1>3, <1>4, <1>5, <1>6

\* The notifier finds every linked callback started and finishes; what was in
\* execution is over and no destructor waits for it any more.
LEMMA ScanNone ==
    ASSUME IInv,
           (notify_registered_callbacks \/ execute_return) /\ scan_finds_none
    PROVE  IInv'
<1> USE NoThreadAssumption, NoCallbackAssumption DEF IInv, notify_registered_callbacks, execute_return, scan, scan_finds_none, NotStarted, InUserCode, DefaultId
<1>1. TypeOK'
  BY DEF TypeOK, Lives, NotifyPcs
<1>2. ListInv'
  BY DEF TypeOK, ListInv, OwnerInv, NotifyInv, Lives
<1>3. UniqueIds'
  BY DEF TypeOK, ListInv, UniqueIds
<1>4. OwnerInv'
  BY DEF TypeOK, ListInv, OwnerInv
<1>5. NotifyInv'
  BY DEF TypeOK, ListInv, UniqueIds, OwnerInv, NotifyInv
<1>6. WaitInv'
  BY DEF TypeOK, ListInv, UniqueIds, OwnerInv, NotifyInv, WaitInv
<1> QED  BY <1>1, <1>2, <1>3, <1>4, <1>5, <1>6

\* The notifier picks a linked callback that has not started and runs it.
LEMMA ScanExec ==
    ASSUME IInv, NEW cb \in Callbacks,
           (notify_registered_callbacks \/ execute_return) /\ scan_executes(cb)
    PROVE  IInv'
<1> USE NoThreadAssumption, NoCallbackAssumption DEF IInv, notify_registered_callbacks, execute_return, scan, scan_executes, NotStarted, InUserCode, DefaultId
<1>1. TypeOK'
  <2>1. /\ already_started' \in [Callbacks -> BOOLEAN]
        /\ executed_by' \in [Callbacks -> Threads \cup {NoThread}]
        /\ runs' \in [Callbacks -> Nat]
        /\ currently_executing' \in Nat
    BY DEF TypeOK
  <2> QED  BY <2>1 DEF TypeOK, NotifyPcs
<1>2. ListInv'
  BY DEF TypeOK, ListInv, OwnerInv, NotifyInv, Lives
<1>3. UniqueIds'
  BY DEF TypeOK, ListInv, UniqueIds
<1>4. OwnerInv'
  BY DEF TypeOK, ListInv, OwnerInv
<1>5. NotifyInv'
  BY DEF TypeOK, ListInv, UniqueIds, OwnerInv, NotifyInv
<1>6. WaitInv'
  BY DEF TypeOK, ListInv, UniqueIds, OwnerInv, NotifyInv, WaitInv
<1> QED  BY <1>1, <1>2, <1>3, <1>4, <1>5, <1>6

\* A fresh stop_state has no callback, no id in execution and no request.
LEMMA InitIInv == Init => IInv
<1> USE NoThreadAssumption, NoCallbackAssumption DEF Init, DefaultId
<1>1. Init => TypeOK
  <2> SUFFICES ASSUME Init PROVE TypeOK
    OBVIOUS
  <2>1. already_started \in [Callbacks -> BOOLEAN]
    OBVIOUS
  <2> QED  BY <2>1 DEF TypeOK, Lives, NotifyPcs
<1>2. Init => ListInv
  BY DEF ListInv
<1>3. Init => UniqueIds /\ OwnerInv /\ NotifyInv /\ WaitInv
  BY DEF UniqueIds, OwnerInv, NotifyInv, WaitInv
<1> QED  BY <1>1, <1>2, <1>3 DEF IInv

\* Every step of every thread preserves the inductive invariant.
LEMMA NextIInv == IInv /\ [Next]_vars => IInv'
<1> SUFFICES ASSUME IInv, [Next]_vars PROVE IInv'
  OBVIOUS
<1>1. ASSUME NEW t \in Threads, NEW cb \in Callbacks, register_callback(t, cb)
      PROVE  IInv'
  BY <1>1, RegisterInline, RegisterLinked DEF register_callback
<1>2. ASSUME NEW t \in Threads, NEW cb \in Callbacks, destroy_callback(t, cb)
      PROVE  IInv'
  BY <1>2, Destroy
<1>3. ASSUME NEW t \in Threads, inline_return(t) PROVE IInv'
  BY <1>3, InlineReturn
<1>4. ASSUME NEW t \in Threads, deregister_callback(t) PROVE IInv'
  BY <1>4, DeregWait, DeregUnlink DEF deregister_callback
<1>5. ASSUME NEW t \in Threads, spurious_wakeup(t) PROVE IInv'
  BY <1>5, Spurious
<1>6. ASSUME NEW t \in Threads, request_stop(t) PROVE IInv'
  BY <1>6, RequestStop
<1>7. ASSUME notify_registered_callbacks \/ execute_return PROVE IInv'
  BY <1>7, ScanNone, ScanExec
     DEF notify_registered_callbacks, execute_return, scan
<1>8. CASE UNCHANGED vars
  BY <1>8 DEF vars, IInv, TypeOK, ListInv, UniqueIds, OwnerInv, NotifyInv,
              WaitInv
<1> QED  BY <1>1, <1>2, <1>3, <1>4, <1>5, <1>6, <1>7, <1>8 DEF Next

\* The inductive invariant holds in every reachable state.
THEOREM Invariance == Spec => []IInv
BY InitIInv, NextIInv, PTL DEF Spec

\* Every variable keeps its type in every reachable state.
THEOREM TypeCorrect == Spec => []TypeOK
<1>1. IInv => TypeOK
  BY DEF IInv
<1> QED  BY <1>1, Invariance, PTL

\* No stop_callback is destroyed by another thread while the notifier is inside
\* its callback: deregister_callback waits (stop_token.cpp:99-103).
THEOREM CallbackOutlives == Spec => []CallbackOutlivesItsExecution
<1>1. IInv => CallbackOutlivesItsExecution
  BY DEF IInv, TypeOK, ListInv, NotifyInv, CallbackOutlivesItsExecution
<1> QED  BY <1>1, Invariance, PTL

\* A callback runs at most once, in its constructor or in request_stop.
THEOREM AtMostOnce == Spec => []InvokedAtMostOnce
<1>1. IInv => InvokedAtMostOnce
  BY DEF IInv, ListInv, InvokedAtMostOnce
<1> QED  BY <1>1, Invariance, PTL

\* Once request_stop has returned, every stop_callback that exists has run or is
\* being run by its constructor: registration and the request cannot miss each
\* other.
THEOREM NoneMissed == Spec => []NoCallbackMissed
<1>1. IInv => NoCallbackMissed
  BY DEF IInv, TypeOK, Lives, ListInv, NotifyInv, NoCallbackMissed
<1> QED  BY <1>1, Invariance, PTL

\* A destructor sleeps only while the execution it waits for is going on, so the
\* notify_all after that execution reaches it (stop_token.cpp:82-86).
THEOREM NoLostWakeup == Spec => []WaitsOnlyForExecution
<1>1. IInv => WaitsOnlyForExecution
  BY DEF IInv, WaitInv, WaitsOnlyForExecution
<1> QED  BY <1>1, Invariance, PTL

-----------------------------------------------------------------------------
(* InotifyInstance                                                         *)

Outcomes == {"none", "data", "ok", "EINVAL", "EBADF", "EINTR", "EAGAIN", "too_long"}

\* Who is where has which mutex; what is closed, and when.
InotifyIInv ==
    /\ open \subseteq {"source", "stop_read", "stop_write"}
    /\ pc \in [Readers -> Pcs]
    /\ outcome \in [Readers -> Outcomes]
    /\ stop \in {"idle", "signal", "try_lock", "stopped"}
    /\ closed \in BOOLEAN
    /\ \A r \in Readers :
          /\ r \in sharing <=> pc[r] \in {"poll", "read", "unlock"}
          /\ r \in holding <=> pc[r] # "idle"
    /\ DescriptorsStayOpen
    /\ stop = "stopped" => open \subseteq {"source"}
    /\ closed => open = {} /\ watches = {}

\* Nobody is inside of an instance that was just constructed.
LEMMA InotifyInitIInv == InotifyInit => InotifyIInv
<1> SUFFICES ASSUME InotifyInit
             PROVE  InotifyIInv
  BY Zenon
<1>1. \A r \in Readers : pc[r] = "idle"
  BY Zenon DEF InotifyInit
<1>2. pc \in [Readers -> Pcs] /\ outcome \in [Readers -> Outcomes]
  BY Zenon DEF InotifyInit, Pcs, Outcomes
<1>3. DescriptorsStayOpen
  BY <1>1, Zenon DEF DescriptorsStayOpen
<1>4. \A r \in Readers : /\ r \in sharing <=> pc[r] \in {"poll", "read", "unlock"}
                         /\ r \in holding <=> pc[r] # "idle"
  BY <1>1, Zenon DEF InotifyInit
<1>5. /\ open \subseteq {"source", "stop_read", "stop_write"}
      /\ ~closed /\ closed \in BOOLEAN /\ stop = "idle"
  BY Zenon DEF InotifyInit
<1>6. stop # "stopped" /\ stop \in {"idle", "signal", "try_lock", "stopped"}
  BY <1>5, Zenon
<1> QED
  BY <1>2, <1>3, <1>4, <1>5, <1>6, Zenon DEF InotifyIInv

\* Read: the mutex of the descriptor is taken first and released last.
LEMMA InotifyReadIInv ==
    ASSUME InotifyIInv, NEW r \in Readers,
           Read(r) \/ Read_return(r)
    PROVE  InotifyIInv'
<1> USE DEF InotifyIInv, Goto, Return, Outcomes, Pcs,
            DescriptorsStayOpen
<1>1. CASE Read(r)
  <2>1. /\ pc[r] = "idle"
        /\ \/ UNCHANGED <<pc, holding>> /\ Return(r, "EINVAL")
           \/ /\ Goto(r, "call") /\ holding' = holding \cup {r}
              /\ UNCHANGED outcome
        /\ UNCHANGED <<open, sharing, stop, watches, closed>>
    BY <1>1, Zenon DEF Read
  <2> QED
    BY <2>1, SMT
<1>2. CASE Read_return(r)
  BY <1>2, Zenon DEF Read_return
<1> QED
  BY <1>1, <1>2, Zenon

\* AbortableBlockingReader::Read: whether the descriptors are open is tested
\* with the mutex that Stop needs to close them.
LEMMA InotifyReaderIInv ==
    ASSUME InotifyIInv, NEW r \in Readers,
           Read_step(r) \/ poll_fails(r),
           UNCHANGED instance_vars
    PROVE  InotifyIInv'
<1> USE DEF InotifyIInv, instance_vars, Goto, Fail,
            Pcs, DescriptorsStayOpen, Outcomes
<1>1. CASE Read_enter(r)
  BY <1>1, SMT DEF Read_enter
<1>2. CASE WaitForData(r) \/ poll_fails(r)
  <2>1. pc[r] = "poll" /\ UNCHANGED <<open, sharing, stop>>
    BY <1>2, Zenon DEF WaitForData, poll_fails
  <2>2. \/ Fail(r, "EINTR")
        \/ Goto(r, "read") /\ UNCHANGED outcome
    BY <1>2, Zenon DEF WaitForData, poll_fails
  <2> QED
    BY <2>1, <2>2, Zenon
<1>3. CASE read(r)
  <2>1. /\ pc[r] = "read" /\ Goto(r, "unlock")
        /\ \E result \in {"EAGAIN", "too_long", "data"} : Return(r, result)
        /\ UNCHANGED <<open, sharing, stop>>
    BY <1>3, Zenon DEF read, Return
  <2> QED
    BY <2>1, Zenon DEF Return
<1>4. CASE Read_leave(r)
  BY <1>4, Zenon DEF Read_leave
<1> QED
  BY <1>1, <1>2, <1>3, <1>4, Zenon DEF Read_step

\* Watches, and the events of the kernel.
LEMMA InotifyWatchIInv ==
    ASSUME InotifyIInv,
           \/ \E r \in Readers, path \in Paths :
                 AddWatch(r, path) \/ RemoveWatch(r, path)
           \/ \E path \in Paths : event(path)
    PROVE  InotifyIInv'
<1>1. UNCHANGED <<open, sharing, pc, stop, holding, closed>>
  BY Zenon DEF AddWatch, RemoveWatch, event
<1>2. "source" \notin open /\ watches = {} => watches' = {}
  BY Zenon DEF AddWatch, RemoveWatch, event
<1>3. \/ UNCHANGED outcome
      \/ \E r \in Readers, result \in {"EINVAL", "EBADF", "ok"} :
            Return(r, result)
  BY Zenon DEF AddWatch, RemoveWatch, event
<1>4. outcome' \in [Readers -> Outcomes]
  BY <1>3, Zenon DEF InotifyIInv, Outcomes, Return
<1> QED
  BY <1>1, <1>2, <1>4, Zenon DEF InotifyIInv, DescriptorsStayOpen

\* Close and the destructor: Stop closes the pipe when no reader has its mutex,
\* and the source is closed when no reader is inside at all.
LEMMA InotifyCloseIInv ==
    ASSUME InotifyIInv, Close \/ InternalClose
    PROVE  InotifyIInv'
<1> USE DEF InotifyIInv, instance_vars, DescriptorsStayOpen
<1>1. CASE Close
  BY <1>1, Zenon DEF Close
<1>2. CASE Close_source
  BY <1>2, Zenon DEF Close_source
<1>3. CASE SignalStop /\ UNCHANGED instance_vars
  <2>1. /\ UNCHANGED <<open, sharing, pc, outcome>>
        /\ stop' = "try_lock"
    BY <1>3, Zenon DEF SignalStop
  <2> QED
    BY <1>3, <2>1, Zenon
<1>4. CASE Stop_locked /\ UNCHANGED instance_vars
  BY <1>4, Zenon DEF Stop_locked
<1>5. CASE Stop_again /\ UNCHANGED instance_vars
  BY <1>5, Zenon DEF Stop_again
<1> QED
  BY <1>1, <1>2, <1>3, <1>4, <1>5, Zenon
  DEF InternalClose, Stop_step

\* Every step keeps InotifyIInv.
LEMMA InotifyNextIInv ==
    InotifyIInv /\ [InotifyNext]_inotify_vars => InotifyIInv'
<1> SUFFICES ASSUME InotifyIInv, [InotifyNext]_inotify_vars
             PROVE  InotifyIInv'
  BY Zenon
<1>1. CASE UNCHANGED inotify_vars
  BY <1>1, Zenon DEF InotifyIInv, inotify_vars, reader_vars,
                     instance_vars, DescriptorsStayOpen
<1> QED
  BY <1>1, InotifyReadIInv, InotifyReaderIInv, InotifyWatchIInv,
     InotifyCloseIInv, Zenon DEF InotifyNext, Reader

\* InotifyIInv is an invariant.
LEMMA InotifySpecIInv == InotifySpec => []InotifyIInv
BY InotifyInitIInv, InotifyNextIInv, PTL DEF InotifySpec

\* The lesser of two bounds.
LEMMA MinOfTwo ==
    ASSUME NEW a \in Nat, NEW b \in Nat
    PROVE  Min({a, b}) \in {a, b} /\ Min({a, b}) <= a /\ Min({a, b}) <= b
<1>1. \E x \in {a, b} : \A y \in {a, b} : x <= y
  BY SMT
<1> QED
  BY <1>1, Zenon DEF Min

\* Who holds a mutex is a reader, what is watched or reported is a path, and the
\* pipe never has more in it than it holds.
THEOREM InotifyTypeCorrect == InotifySpec => []InotifyTypeOK
<1> DEFINE Held ==
      /\ pipe \in 0 .. PipeCapacity /\ events \in Seq(Paths)
      /\ sharing \subseteq Readers /\ holding \subseteq Readers
      /\ watches \subseteq Paths
<1>1. InotifyInit => Held
  <2>1. 0 \in 0 .. PipeCapacity /\ <<>> \in Seq(Paths)
    BY ReaderAssumption, SMT
  <2> QED
    BY <2>1, Zenon DEF InotifyInit
<1>2. Held /\ [InotifyNext]_inotify_vars => Held'
  <2>1. SUFFICES ASSUME Held, [InotifyNext]_inotify_vars
                 PROVE  Held'
    BY Zenon
  <2>2. pipe' \in 0 .. PipeCapacity
    <3>1. \/ UNCHANGED pipe \/ pipe' = 0
          \/ pipe' = Min({pipe + 1, PipeCapacity})
      BY <2>1, Zenon DEF InotifyNext, Read, Reader, Read_return, Read_step,
         Read_enter, WaitForData, poll_fails, read, Read_leave, AddWatch,
         RemoveWatch, event, Close, InternalClose, Close_source, Stop_step,
         SignalStop, Stop_locked, Stop_again, inotify_vars, reader_vars
    <3>2. pipe + 1 \in Nat /\ PipeCapacity \in Nat
      BY <2>1, ReaderAssumption, SMT
    <3>3. PICK m : m = Min({pipe + 1, PipeCapacity})
      BY Zenon
    <3>4. m \in Nat /\ m <= PipeCapacity
      BY <3>2, <3>3, MinOfTwo, SMT
    <3> QED
      BY <2>1, <3>1, <3>2, <3>3, <3>4, SMT
  <2>3. events' \in Seq(Paths)
    <3>1. \/ UNCHANGED events \/ events' = <<>>
          \/ \E path \in Paths : events' = Append(events, path)
          \/ \E n \in 1 .. Min({Len(events), MaxRead}) :
                events' = SubSeq(events, n + 1, Len(events))
      BY <2>1, Zenon DEF InotifyNext, Read, Reader, Read_return, Read_step,
         Read_enter, WaitForData, poll_fails, read, Read_leave, AddWatch,
         RemoveWatch, Report, event, Close, InternalClose, Close_source,
         Stop_step, SignalStop, Stop_locked, Stop_again, inotify_vars,
         reader_vars
    <3>2. ASSUME NEW n \in 1 .. Min({Len(events), MaxRead})
          PROVE  SubSeq(events, n + 1, Len(events)) \in Seq(Paths)
      <4>1. Len(events) \in Nat /\ MaxRead \in Nat
        BY <2>1, ReaderAssumption, SMT
      <4>2. PICK m : m = Min({Len(events), MaxRead})
        BY Zenon
      <4>3. m \in Nat /\ m <= Len(events)
        BY <4>1, <4>2, MinOfTwo, SMT
      <4>4. n \in 1 .. m
        BY <4>2, Zenon
      <4>5. n \in Nat /\ n + 1 \in Nat
        BY <4>3, <4>4, SMT
      <4> QED
        BY <2>1, <4>1, <4>5, SMT
    <3>3. <<>> \in Seq(Paths)
          /\ \A path \in Paths : Append(events, path) \in Seq(Paths)
      BY <2>1, SMT
    <3> QED
      BY <2>1, <3>1, <3>2, <3>3, Zenon
  <2>4. sharing' \subseteq Readers /\ holding' \subseteq Readers
    <3>1. \/ UNCHANGED sharing
          \/ \E r \in Readers : sharing' = sharing \cup {r}
          \/ \E r \in Readers : sharing' = sharing \ {r}
      BY <2>1, Zenon DEF InotifyNext, Read, Reader, Read_return, Read_step,
         Read_enter, WaitForData, poll_fails, read, Read_leave, AddWatch,
         RemoveWatch, event, Close, InternalClose, Close_source, Stop_step,
         SignalStop, Stop_locked, Stop_again, inotify_vars, reader_vars
    <3>2. \/ UNCHANGED holding
          \/ \E r \in Readers : holding' = holding \cup {r}
          \/ \E r \in Readers : holding' = holding \ {r}
      BY <2>1, Zenon DEF InotifyNext, Read, Reader, Read_return, AddWatch,
         RemoveWatch, event, Close, InternalClose, Close_source,
         inotify_vars, instance_vars
    <3> QED
      BY <2>1, <3>1, <3>2, Zenon
  <2>5. watches' \subseteq Paths
    <3>1. \/ UNCHANGED watches \/ watches' = {}
          \/ \E path \in Paths : watches' = watches \cup {path}
          \/ \E path \in Paths : watches' = watches \ {path}
      BY <2>1, Zenon DEF InotifyNext, Read, Reader, Read_return, AddWatch,
         RemoveWatch, event, Close, InternalClose, Close_source,
         inotify_vars, instance_vars
    <3> QED
      BY <2>1, <3>1, Zenon
  <2> QED
    BY <2>2, <2>3, <2>4, <2>5, Zenon
<1>3. InotifyIInv /\ Held => InotifyTypeOK
  BY Zenon DEF InotifyIInv, InotifyTypeOK
<1> QED
  BY <1>1, <1>2, <1>3, InotifySpecIInv, PTL DEF InotifySpec

\* No reader polls or reads a descriptor that Stop or Close has closed, for any
\* number of readers.
THEOREM NoClosedDescriptorIsUsed == InotifySpec => []DescriptorsStayOpen
<1>1. InotifyIInv => DescriptorsStayOpen
  BY Zenon DEF InotifyIInv
<1> QED
  BY <1>1, InotifySpecIInv, PTL

\* Once Close or the destructor has returned no call blocks or succeeds.
THEOREM ClosedIsFinal == InotifySpec => ClosedForGood
<1> DEFINE Final ==
      closed =>
        /\ open = {}
        /\ \A r \in Readers :
              /\ pc'[r] \notin {"poll", "read"}
              /\ outcome'[r] # outcome[r] => outcome'[r] \in {"EINVAL", "EBADF"}
<1>1. InotifyIInv /\ InotifyIInv' /\ [InotifyNext]_inotify_vars
        => [Final]_inotify_vars
  <2> SUFFICES ASSUME InotifyIInv, InotifyIInv', InotifyNext, closed
               PROVE  Final
    BY Zenon
  <2>1. open = {} /\ watches = {}
    BY Zenon DEF InotifyIInv
  <2>2. closed'
    BY Zenon DEF InotifyNext, Read, Reader, Read_return,
       instance_vars, AddWatch, RemoveWatch,
       event, Close, InternalClose, Close_source
  <2>3. \A r \in Readers : pc[r] \notin {"poll", "read"}
    BY <2>1, Zenon DEF InotifyIInv, DescriptorsStayOpen
  <2>4. \A r \in Readers : pc'[r] \notin {"poll", "read"}
    BY <2>2, Zenon DEF InotifyIInv, DescriptorsStayOpen
  <2>5. \/ UNCHANGED outcome
        \/ \E q \in Readers, error \in {"EINVAL", "EBADF"} :
              outcome' = [outcome EXCEPT ![q] = error]
    <3>1. ASSUME NEW r \in Readers, Read(r) \/ Read_return(r)
          PROVE  \/ UNCHANGED outcome
                 \/ Return(r, "EINVAL")
      BY <3>1, Zenon DEF Read, Read_return
    <3>2. ASSUME NEW r \in Readers, Read_step(r) \/ poll_fails(r)
          PROVE  UNCHANGED outcome \/ Fail(r, "EINVAL")
      <4>1. pc[r] # "poll" /\ pc[r] # "read"
        BY <2>3, Zenon
      <4> QED
        BY <3>2, <4>1, Zenon DEF Read_step, Read_enter,
           WaitForData, poll_fails, read,
           Read_leave
    <3>3. ASSUME NEW r \in Readers, NEW path \in Paths,
                 AddWatch(r, path) \/ RemoveWatch(r, path)
          PROVE  Return(r, "EINVAL") \/ Return(r, "EBADF")
      BY <2>1, <3>3, Zenon DEF AddWatch, RemoveWatch
    <3>4. ASSUME \/ \E path \in Paths : event(path)
                 \/ Close \/ InternalClose
          PROVE  UNCHANGED outcome
      BY <3>4, Zenon DEF event, Close, InternalClose,
         Close_source, Stop_step, SignalStop,
         Stop_locked, Stop_again
    <3> QED
      BY <3>1, <3>2, <3>3, <3>4, Zenon
      DEF InotifyNext, Reader, Return, Fail
  <2>6. \A r \in Readers : outcome'[r] # outcome[r] =>
                               outcome'[r] \in {"EINVAL", "EBADF"}
    BY <2>5, Zenon DEF InotifyIInv
  <2> QED
    BY <2>1, <2>4, <2>6, Zenon
<1> QED
  BY <1>1, InotifySpecIInv, PTL DEF InotifySpec, ClosedForGood
=============================================================================
