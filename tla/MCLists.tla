------------------------------ MODULE MCLists ------------------------------
(* Small instances of Lists for TLC: four numbers, room for two.            *)
EXTENDS Lists

CONSTANTS own, ended, other, zero

mc_Things == {own, ended, other, zero}
mc_Mine == {own, ended}

\* No entry, one, as many as there is room for, one too many, two too many.
mc_InitTables ==
    {[n \in 1..4 |-> None],
     <<None, ended, None, None>>,
     <<own, None, other, None>>,
     <<other, own, None, zero>>,
     <<ended, zero, ended, own>>}
=============================================================================
