-------------------------- MODULE SynchronizedQueue --------------------------
(***************************************************************************)
(* SynchronizedQueue of score/concurrency: one reader, several senders, a  *)
(* bounded queue behind a mutex, and a Notification that wakes the reader. *)
(* The reader lets go of the queue's mutex before it waits on the          *)
(* notification, so signal and queue are two pieces of state that a        *)
(* sender and the reader change in separate critical sections.             *)
(*                                                                         *)
(* A step is a critical section of the notification's mutex, or what is    *)
(* done between two of them.  The wait is the one of                       *)
(* InterruptibleConditionalVariable (module ConditionVariable): it returns *)
(* when its predicate holds, or what the predicate says once stop is       *)
(* requested or the time is over.  Senders hold the state by weak_ptr.     *)
(***************************************************************************)
EXTENDS Naturals, Sequences, FiniteSets

CONSTANTS Senders,
          MaxLength,      \* max_queue_length_
          MaxPushes,      \* bound: calls of push by each sender
          Reader,
          None

ASSUME QueueAssumption ==
    /\ MaxLength \in Nat /\ MaxPushes \in Nat
    /\ Reader \notin Senders
    /\ None \notin Senders \cup {Reader}

VARIABLES
    queue,             \* queue_
    mutex,             \* who holds mutex_ of the shared state
    notified_yet,      \* notified_yet_ of the notification
    reader,            \* where the reader is
    expired,           \* the timeout of this Pop is over
    stop,              \* request_stop() was called on the reader's token
    alive,             \* the SynchronizedQueue exists
    sender,            \* where each sender is
    pushes,            \* number of calls of push of each sender
    accepted,          \* history: items put into the queue
    popped             \* history: items Pop returned

sender_vars == <<sender, pushes, accepted>>
reader_vars == <<reader, expired, popped>>
queue_vars == <<queue, mutex, notified_yet, reader_vars, stop, alive,
                sender_vars>>

QueueInit ==
    /\ queue = <<>>
    /\ mutex = None
    /\ notified_yet = FALSE
    /\ reader = "idle"
    /\ expired = FALSE
    /\ stop = FALSE
    /\ alive = TRUE
    /\ sender = [s \in Senders |-> "idle"]
    /\ pushes = [s \in Senders |-> 0]
    /\ accepted = <<>>
    /\ popped = <<>>

-----------------------------------------------------------------------------
(* The reader                                                              *)

\* Mutant: Pop waits for a signal without looking at the queue first.
NothingQueued_unchecked == TRUE

NothingQueued == queue = <<>>

\* Pop takes the mutex, and gives it back to wait if the queue is empty.
Pop ==
    /\ alive /\ reader = "idle"
    /\ mutex = None
    /\ expired' = FALSE
    /\ IF NothingQueued
         THEN reader' = "wait" /\ UNCHANGED mutex
         ELSE reader' = "reset" /\ mutex' = Reader
    /\ UNCHANGED <<queue, notified_yet, popped, stop, alive, sender_vars>>

\* One turn of the wait, under the notification's mutex: the predicate, then
\* deadline and stop, then sleep.
WaitForWithAbort ==
    /\ reader = "wait"
    /\ reader' = CASE notified_yet -> "lock"
                   [] ~notified_yet /\ (expired \/ stop) -> "idle"
                   [] ~notified_yet /\ ~(expired \/ stop) -> "asleep"
    /\ UNCHANGED <<queue, mutex, notified_yet, expired, popped, stop, alive,
                   sender_vars>>

\* The condition variable wakes its waiter without a notification.
SpuriousWakeUp ==
    /\ reader = "asleep"
    /\ reader' = "wait"
    /\ UNCHANGED <<queue, mutex, notified_yet, expired, popped, stop, alive,
                   sender_vars>>

Wake(who) == IF who = "asleep" THEN "wait" ELSE who

\* The deadline of the wait passes.
Expire ==
    /\ reader \in {"wait", "asleep"} /\ ~expired
    /\ expired' = TRUE
    /\ reader' = Wake(reader)
    /\ UNCHANGED <<queue, mutex, notified_yet, popped, stop, alive,
                   sender_vars>>

\* Pop takes the mutex again after the signal.
Pop_lock ==
    /\ reader = "lock"
    /\ mutex = None
    /\ mutex' = Reader
    /\ reader' = "reset"
    /\ UNCHANGED <<queue, notified_yet, expired, popped, stop, alive,
                   sender_vars>>

\* Mutant: the signal is left set.
Reset_forgotten ==
    /\ reader = "reset"
    /\ reader' = "take"
    /\ UNCHANGED <<queue, mutex, notified_yet, expired, popped, stop, alive,
                   sender_vars>>

Reset ==
    /\ reader = "reset"
    /\ notified_yet' = FALSE
    /\ reader' = "take"
    /\ UNCHANGED <<queue, mutex, expired, popped, stop, alive, sender_vars>>

\* The front is taken, behind the assertion that there is one.
Pop_take ==
    /\ reader = "take" /\ queue # <<>>
    /\ popped' = Append(popped, Head(queue))
    /\ queue' = Tail(queue)
    /\ mutex' = None
    /\ reader' = "idle"
    /\ UNCHANGED <<notified_yet, expired, stop, alive, sender_vars>>

\* The SynchronizedQueue is destroyed; a sender inside push keeps the state.
Destroy ==
    /\ alive /\ reader = "idle"
    /\ alive' = FALSE
    /\ UNCHANGED <<queue, mutex, notified_yet, reader_vars, stop, sender_vars>>

-----------------------------------------------------------------------------
(* The senders, and stop                                                   *)

\* A queue, or a sender inside push, holds the state.
StateHeld == alive \/ \E s \in Senders : sender[s] # "idle"

\* push: weak_ptr::lock() finds the state, or push returns false.
Push(s) ==
    /\ sender[s] = "idle" /\ pushes[s] < MaxPushes
    /\ pushes' = [pushes EXCEPT ![s] = @ + 1]
    /\ sender' = [sender EXCEPT ![s] = IF StateHeld THEN "lock" ELSE "idle"]
    /\ UNCHANGED <<queue, mutex, notified_yet, reader_vars, stop, alive,
                   accepted>>

PushBack(item) == queue' = Append(queue, item)

HasRoom == Len(queue) < MaxLength

\* Under mutex_, a full queue makes push return false.
Push_back(s) ==
    /\ sender[s] = "lock"
    /\ mutex = None
    /\ IF HasRoom
         THEN /\ PushBack(<<s, pushes[s]>>)
              /\ accepted' = Append(accepted, <<s, pushes[s]>>)
              /\ mutex' = s
              /\ sender' = [sender EXCEPT ![s] = "notify"]
         ELSE /\ sender' = [sender EXCEPT ![s] = "idle"]
              /\ UNCHANGED <<queue, mutex, accepted>>
    /\ UNCHANGED <<notified_yet, reader_vars, stop, alive, pushes>>

\* Mutant: notify() wakes the reader before it sets the flag.
Notify_late(s) ==
    \/ /\ sender[s] = "notify"
       /\ reader' = Wake(reader)
       /\ sender' = [sender EXCEPT ![s] = "notify_all"]
       /\ UNCHANGED <<mutex, notified_yet>>
    \/ /\ sender[s] = "notify_all"
       /\ notified_yet' = TRUE
       /\ sender' = [sender EXCEPT ![s] = "idle"]
       /\ mutex' = None
       /\ UNCHANGED reader

\* notify(): the flag is set in the critical section, the reader is woken
\* after it, and push lets go of the queue's mutex.
Notify(s) ==
    \/ /\ sender[s] = "notify"
       /\ notified_yet' = TRUE
       /\ sender' = [sender EXCEPT ![s] = "notify_all"]
       /\ UNCHANGED <<mutex, reader>>
    \/ /\ sender[s] = "notify_all"
       /\ reader' = Wake(reader)
       /\ sender' = [sender EXCEPT ![s] = "idle"]
       /\ mutex' = None
       /\ UNCHANGED notified_yet

Push_notify(s) ==
    /\ Notify(s)
    /\ UNCHANGED <<queue, expired, popped, stop, alive, pushes, accepted>>

StopWakes == reader' = Wake(reader)

\* request_stop(): the callback of the wait wakes the reader.
RequestStop ==
    /\ ~stop
    /\ stop' = TRUE
    /\ StopWakes
    /\ UNCHANGED <<queue, mutex, notified_yet, expired, popped, alive,
                   sender_vars>>

ReaderStep == WaitForWithAbort \/ Pop_lock \/ Reset \/ Pop_take
SenderStep(s) == Push_back(s) \/ Push_notify(s)

QueueNext ==
    \/ Pop \/ ReaderStep \/ SpuriousWakeUp \/ Expire \/ Destroy
    \/ RequestStop
    \/ \E s \in Senders : Push(s) \/ SenderStep(s)

QueueSpec == QueueInit /\ [][QueueNext]_queue_vars

-----------------------------------------------------------------------------
(* Properties                                                              *)

Items == Senders \X (1 .. MaxPushes)

\* The variables have their types, and the queue keeps to max_queue_length_
\* (the comparison in push).
QueueTypeOK ==
    /\ queue \in Seq(Items) /\ Len(queue) <= MaxLength
    /\ mutex \in Senders \cup {Reader, None}
    /\ notified_yet \in BOOLEAN
    /\ reader \in {"idle", "wait", "asleep", "lock", "reset", "take"}
    /\ expired \in BOOLEAN /\ stop \in BOOLEAN /\ alive \in BOOLEAN
    /\ sender \in [Senders -> {"idle", "lock", "notify", "notify_all"}]
    /\ pushes \in [Senders -> 0 .. MaxPushes]
    /\ accepted \in Seq(Items) /\ popped \in Seq(Items)

\* The assertion of Pop, "Signal received with empty queue", never fails: a
\* signal outlives neither the item it was sent for nor the Pop that took it.
SignalMeansItem == reader = "take" => queue # <<>>

\* Pop returns the items in the order in which push accepted them, every one
\* once: between the senders' push_back and the reader's pop_front, which
\* gives the mutex away while it waits, no item is lost, doubled or overtaken.
FirstInFirstOut == popped \o queue = accepted

\* Pop returns without an item only while the queue is empty, or holds just
\* the item of one push that has not signalled it yet: no push that was over
\* before Pop gave up is overlooked, whatever deadline or stop raced it.
NothingOverlooked ==
    [][reader = "wait" /\ reader' = "idle" =>
           \/ queue = <<>>
           \/ /\ Len(queue) = 1
              /\ \E s \in Senders : sender[s] = "notify"]_queue_vars

\* An item that arrives while the reader waits ends the wait, without help
\* from the deadline, a stop or a spurious wake-up (Notification::notify).
ItemEndsWait ==
    (reader \in {"wait", "asleep"} /\ queue # <<>>) ~> reader = "idle"

\* The reader inside Pop and a sender inside push are scheduled, and get the
\* mutex when it is free again and again.  Deadlines, stops, spurious
\* wake-ups and new calls need not happen.
QueueFairness ==
    /\ WF_queue_vars(WaitForWithAbort) /\ WF_queue_vars(Reset)
    /\ WF_queue_vars(Pop_take) /\ SF_queue_vars(Pop_lock)
    /\ \A s \in Senders :
          SF_queue_vars(Push_back(s)) /\ WF_queue_vars(Push_notify(s))

QueueFairSpec == QueueSpec /\ QueueFairness
=============================================================================
