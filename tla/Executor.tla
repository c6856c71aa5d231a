------------------------------- MODULE Executor ------------------------------
(***************************************************************************)
(* What an executor promises: a task that was posted is executed at most   *)
(* once (a periodic one again after each return), by one thread, and it is *)
(* not given up unless it was aborted or the executor is being closed.     *)
(* ThreadPool, TimedExecutor and ExecutionPool implement it.               *)
(***************************************************************************)
CONSTANTS
    Tasks,      \* each is posted at most once
    Repeating,  \* those that may be scheduled again when they return
    MayDrop     \* whether closing gives up tasks that were not executed

VARIABLES
    state,      \* where each task is in its life
    closed,     \* the executor was told to shut down
    aborted     \* tasks that were requested to stop

vars == <<state, closed, aborted>>

States == {"new", "pending", "running", "over"}

Init ==
    /\ state = [task \in Tasks |-> "new"]
    /\ closed = FALSE
    /\ aborted = {}

\* Requests to shut down and to stop a task come at any time and are final.
Requests ==
    /\ closed => closed'
    /\ aborted \subseteq aborted'

Step(task, from, to) ==
    /\ state[task] = from
    /\ state' = [state EXCEPT ![task] = to]

Post(task) == Step(task, "new", "pending")
Start(task) == Step(task, "pending", "running")
Return(task) ==
    \/ Step(task, "running", "over")
    \/ task \in Repeating /\ Step(task, "running", "pending")

\* Tasks are given up, possibly several together.
Drop(dropped) ==
    /\ \A task \in dropped :
          /\ state[task] = "pending"
          /\ (closed' /\ MayDrop) \/ task \in aborted'
    /\ state' = [task \in Tasks |->
                    IF task \in dropped THEN "over" ELSE state[task]]

Next ==
    /\ Requests
    /\ \/ UNCHANGED state
       \/ \E task \in Tasks : Post(task) \/ Start(task) \/ Return(task)
       \/ \E dropped \in SUBSET Tasks : Drop(dropped)

Spec == Init /\ [][Next]_vars

\* No task is forgotten: what is pending is started or given up.
NotForgotten(task) == state[task] = "pending" ~> state[task] # "pending"

FairSpec == Spec /\ \A task \in Tasks : NotForgotten(task)
=============================================================================
