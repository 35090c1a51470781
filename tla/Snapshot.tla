------------------------------ MODULE Snapshot ------------------------------
(***************************************************************************)
(* What a program promises that lists a table of the kernel's: its lines   *)
(* are entries of one and the same table, as it was at one time; in the    *)
(* end it has shown all of those that were wanted, each once, or, if it    *)
(* says that it failed, none.                                              *)
(*                                                                         *)
(* The promise has a hole, but not for the careful programs, which compare *)
(* what they are answered with the room they made: a table that is larger  *)
(* than that may spoil what the others print.                              *)
(***************************************************************************)
EXTENDS KernelTable, Sequences, Functions

CONSTANT Room  \* the entries a program makes room for

VARIABLES
    table,    \* the kernel's table
    wanted,   \* the entries the command line asks for
    picture,  \* the entries of the table when it was last looked at
    shown,    \* the lines, as entries
    status,   \* "running", "complete", "failed" or "spoilt"
    careful   \* whether the program is a careful one

vars == <<table, wanted, picture, shown, status, careful>>

Init ==
    /\ table \in Tables
    /\ wanted \in SUBSET Entry
    /\ picture = {}
    /\ shown = <<>>
    /\ status = "running"
    /\ careful \in BOOLEAN

Change ==
    /\ table' \in Tables
    /\ UNCHANGED <<wanted, picture, shown, status, careful>>

Look ==
    /\ status = "running" /\ shown = <<>>
    /\ picture' = Present(table)
    /\ UNCHANGED <<table, wanted, shown, status, careful>>

Show ==
    /\ status = "running"
    /\ \E e \in (picture \intersect wanted) \ Range(shown) : shown' = Append(shown, e)
    /\ UNCHANGED <<table, wanted, picture, status, careful>>

Complete ==
    /\ status = "running"
    /\ Range(shown) = picture \intersect wanted
    /\ status' = "complete"
    /\ UNCHANGED <<table, wanted, picture, shown, careful>>

Fail ==
    /\ status = "running" /\ shown = <<>>
    /\ status' = "failed"
    /\ UNCHANGED <<table, wanted, picture, shown, careful>>

Spoil ==
    /\ status = "running" /\ ~careful
    /\ Cardinality(picture) > Room
    /\ status' = "spoilt"
    /\ UNCHANGED <<table, wanted, picture, shown, careful>>

Next == Change \/ Look \/ Show \/ Complete \/ Fail \/ Spoil

Spec == Init /\ [][Next]_vars
=============================================================================
