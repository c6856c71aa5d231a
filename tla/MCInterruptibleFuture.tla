------------------------ MODULE MCInterruptibleFuture ------------------------
(* Model-checking instance of InterruptibleFuture: setters and futures are   *)
(* interchangeable.                                                          *)
EXTENDS InterruptibleFuture, TLC

Symmetry == Permutations(Setters) \cup Permutations(Futures)
=============================================================================
