------------------------------ MODULE MCStrace ------------------------------
(* Small instances of Strace for TLC.                                      *)
EXTENDS Strace, TLC

\* Two thread ids are interchangeable.
Symmetry == Permutations(Threads)

=============================================================================
