--------------------------- MODULE MCTimedExecutor ---------------------------
(* Model-checking instance of TimedExecutor: the tasks of one kind that are   *)
(* not long are interchangeable.                                              *)
EXTENDS TimedExecutor, TLC

Symmetry ==
    Permutations(DelayedTasks \ LongTasks)
        \cup Permutations(PeriodicTasks \ LongTasks)
=============================================================================
