----------------------------- MODULE KernelTable -----------------------------
(***************************************************************************)
(* A table of the kernel's (processes, threads, devices, locks, ...), as   *)
(* the programs that list one know it: numbers, each of which stands for   *)
(* one thing or, at the moment, for none.                                  *)
(***************************************************************************)
EXTENDS Naturals, FiniteSets

CONSTANTS
    Highest,    \* the numbers are 1..Highest
    Things,  \* what a number may stand for
    None     \* what a number stands for that is not in use

ASSUME HighestAssumption == Highest \in Nat
ASSUME NoneAssumption == None \notin Things

Numbers == 1..Highest
Tables == [Numbers -> Things \union {None}]
Entry == [id : Numbers, thing : Things]

\* The entries of a table.
Present(table) == {e \in Entry : table[e.id] = e.thing}
=============================================================================
