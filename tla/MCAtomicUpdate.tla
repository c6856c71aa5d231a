---------------------------- MODULE MCAtomicUpdate ---------------------------
(* Model-checking instance of AtomicUpdate: updates are interchangeable.     *)
EXTENDS AtomicUpdate, TLC

Symmetry == Permutations(Updates)
=============================================================================
