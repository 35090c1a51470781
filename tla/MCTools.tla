------------------------------- MODULE MCTools -------------------------------
(* Small instances of Su, Renice and Powerd for TLC, one beside the other:  *)
(* in a behaviour one of the three runs, and the other two stay idle.       *)
(*                                                                          *)
(* Su: root and a user, a word that is neither, two groups.  Renice: a      *)
(* niceness far wider than the increments, and an int that a larger one     *)
(* overflows; two processes in a group, one of them and the renices' own    *)
(* process of one user.                                                     *)
EXTENDS Su, Renice, Powerd, TLC

mc_ValueOf == "5" :> 5 @@ "7up" :> 7

mc_Targets == {"p", "q", "own"}
mc_Ids == {"0", "1"}
mc_Members ==
    "p" :> ("0" :> {"own"} @@ "1" :> {"p"})
    @@ "g" :> ("0" :> {"own"} @@ "1" :> {"p", "q"})
    @@ "u" :> ("0" :> {"own", "p"} @@ "1" :> {})
mc_InitNice == "p" :> -1 @@ "q" :> 1 @@ "own" :> 0
\* 6 overflows.
mc_Increments == {-1, 1, 6}
mc_NiceMin == -5

VARIABLE which   \* the program that runs

toolsVars == <<which, suVars, vars, pdVars>>

\* The two that do not run are a su that nobody gave an argument, renices
\* without one, and a powerd without buttons, and stay so.
Idle == [n |-> [bad |-> TRUE], id |-> [e \in Entities |-> "none"], unknown |-> FALSE]
SuIdle == tool = "su" /\ args = <<>>
ReniceIdle == cmd = [t \in Tools |-> Idle]
PowerdIdle == present = {} /\ polled = <<[fd |-> "sleep", in |-> TRUE, ready |-> FALSE]>>

\* A renice names at most two of a group, a user and a process, and at most one
\* beside an option that is not known.
Short == {c \in Command : Cardinality(Given(c)) <= IF c.unknown THEN 1 ELSE 2}

ToolsInit ==
    \/ which = "su" /\ ReniceIdle /\ PowerdIdle /\ SuInit /\ Init /\ PdInit
    \/ /\ which = "renice" /\ cmd \in [Tools -> Short]
       /\ SuIdle /\ PowerdIdle /\ SuInit /\ Init /\ PdInit
    \/ which = "powerd" /\ SuIdle /\ ReniceIdle /\ SuInit /\ Init /\ PdInit

SuRuns == which = "su" /\ SuNext /\ UNCHANGED <<which, vars, pdVars>>
ReniceRuns == which = "renice" /\ Next /\ UNCHANGED <<which, suVars, pdVars>>
PowerdRuns == which = "powerd" /\ PdNext /\ UNCHANGED <<which, suVars, vars>>

ToolsNext == SuRuns \/ ReniceRuns \/ PowerdRuns

ToolsSpec ==
    ToolsInit /\ [][ToolsNext]_toolsVars
    /\ WF_toolsVars(PowerdRuns /\ Own) /\ SF_toolsVars(PowerdRuns /\ PollOk)
=============================================================================
