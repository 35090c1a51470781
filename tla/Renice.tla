------------------------------- MODULE Renice -------------------------------
(***************************************************************************)
(* src/src/renice.c: add an increment to the niceness of a process, of a   *)
(* group or of a user's processes.  The kernel only knows how to tell a    *)
(* niceness and how to set one, so renice does one after the other, and    *)
(* other renices run between the two.                                      *)
(*                                                                         *)
(* External: getpriority(), which tells the lowest niceness of those it    *)
(* stands for and fails when there are none, and setpriority(), which sets *)
(* all of them, confined to NiceMin..NiceMax, or fails after some.         *)
(*                                                                         *)
(* A command line has each option at most once.  -h and -v are left out.   *)
(***************************************************************************)
EXTENDS Integers, FiniteSets, FiniteSetsExt

CONSTANTS
    Tools,       \* the renices that run
    Targets,     \* the processes they are about
    Ids,         \* the numbers that name processes, groups and users
    Zero,        \* the number 0, which names the caller's own
    Members,     \* from options and numbers to the processes they stand for
    Increments,  \* the numbers that -n may give
    InitNice,    \* from targets to the niceness they have at first
    NiceMin, NiceMax,
    Half         \* bound: int has the values -Half..(Half - 1)

Entities == {"g", "u", "p"}
Niceness == NiceMin..NiceMax

ASSUME NiceAssumption ==
    /\ NiceMin \in Int /\ NiceMax \in Int /\ Half \in Nat
    /\ -Half < NiceMin /\ NiceMin <= NiceMax /\ NiceMax < Half
    /\ InitNice \in [Targets -> Niceness]
ASSUME IncrementsAssumption == Increments \subseteq -Half..(Half - 1)
ASSUME MembersAssumption ==
    /\ Members \in [Entities -> [Ids -> SUBSET Targets]]
    /\ Zero \in Ids
ASSUME BadAssumption == {"bad", "none"} \intersect Ids = {}
ASSUME ToolsAssumption == IsFiniteSet(Tools)

\* "bad" is what sscanf() finds no number in.
Command == [n : [bad : {TRUE}] \union [bad : {FALSE}, value : Increments],
            id : [Entities -> Ids \union {"bad", "none"}],
            unknown : BOOLEAN]

VARIABLES
    nice,      \* the niceness of each target
    cmd,       \* the command line of each renice
    pc,        \* where it is
    prio,      \* its prio
    exit       \* its exit status

vars == <<nice, cmd, pc, prio, exit>>

End(t, status) ==
    pc' = [pc EXCEPT ![t] = "ended"] /\ exit' = [exit EXCEPT ![t] = status]

Lowest(P) == CHOOSE v \in {nice[p] : p \in P} : \A p \in P : v <= nice[p]

-----------------------------------------------------------------------------

\* A number that is none is complained about and stays 0.
Increment(c) == IF c.n.bad THEN 0 ELSE c.n.value

\* A group counts before a user, and a user before a process.
Given(c) == {e \in Entities : c.id[e] # "none"}
Which(c) == IF "g" \in Given(c) THEN "g" ELSE IF "u" \in Given(c) THEN "u" ELSE "p"
Who(c) == Members[Which(c)][IF c.id[Which(c)] = "bad" THEN Zero ELSE c.id[Which(c)]]

\* Without an option that is known to name something, which and who are not set.
Misused_unknown(c) == c.unknown
Misused(c) == c.unknown \/ Given(c) = {}

Start(t) ==
    /\ pc[t] = "options"
    /\ IF Misused(cmd[t])
       THEN End(t, 1)
       ELSE pc' = [pc EXCEPT ![t] = "get"] /\ UNCHANGED exit
    /\ UNCHANGED <<nice, cmd, prio>>

\* errno is looked at, not the result, which may well be -1.
Get(t) ==
    /\ pc[t] = "get"
    /\ \/ /\ Who(cmd[t]) # {}
          /\ prio' = [prio EXCEPT ![t] = Lowest(Who(cmd[t]))]
          /\ pc' = [pc EXCEPT ![t] = "set"]
          /\ UNCHANGED exit
       \/ End(t, 1) /\ UNCHANGED prio
    /\ UNCHANGED <<nice, cmd>>

\* The sum is an int.
Wrapped(n) == ((n + Half) % (2 * Half)) - Half

Confined(n) == IF n < NiceMin THEN NiceMin ELSE IF n > NiceMax THEN NiceMax ELSE n

\* A setpriority() that fails, after some or all, is not tried again.
Incomplete_retries(t) == pc' = [pc EXCEPT ![t] = "get"] /\ UNCHANGED exit
Incomplete(t) == End(t, 1)

Set(t) ==
    /\ pc[t] = "set"
    /\ \E P \in SUBSET Who(cmd[t]) :
        /\ nice' = [p \in Targets |->
                       IF p \in P THEN Confined(Wrapped(prio[t] + Increment(cmd[t])))
                                  ELSE nice[p]]
        /\ (P = Who(cmd[t]) /\ End(t, 0)) \/ Incomplete(t)
    /\ UNCHANGED <<cmd, prio>>

-----------------------------------------------------------------------------

Init ==
    /\ nice = InitNice
    /\ cmd \in [Tools -> Command]
    /\ pc = [t \in Tools |-> "options"]
    /\ prio = [t \in Tools |-> 0]
    /\ exit = [t \in Tools |-> 0]

Next == \E t \in Tools : Start(t) \/ Get(t) \/ Set(t)

Spec == Init /\ [][Next]_vars

-----------------------------------------------------------------------------

\* The type invariant.  Who gets as far as getpriority() has named something:
\* which and who are set.
TypeOK ==
    /\ nice \in [Targets -> Niceness]
    /\ cmd \in [Tools -> Command]
    /\ pc \in [Tools -> {"options", "get", "set", "ended"}]
    /\ prio \in [Tools -> Niceness \union {0}]
    /\ exit \in [Tools -> {0, 1}]
    /\ \A t \in Tools : pc[t] \in {"get", "set"} => Given(cmd[t]) # {}

\* prio + increment does not leave int: no bound of the kernel's but one that
\* renice does not check.
NoOverflow == \A t \in Tools : NiceMin + Increment(cmd[t]) >= -Half
                               /\ NiceMax + Increment(cmd[t]) < Half

Up(c) == IF Increment(c) > 0 THEN Increment(c) ELSE 0
Down(c) == IF Increment(c) < 0 THEN -Increment(c) ELSE 0

\* Increments may be lost between getpriority() and setpriority(), and a group
\* is levelled, but never does a process come to more than all increments
\* upwards on top of the highest niceness there was, nor to less than all
\* downwards below the lowest: no increment is counted twice, and none that
\* was no number is counted at all.
WithinIncrements ==
    NoOverflow =>
        \A p \in Targets :
            /\ \E q \in Targets : nice[p] <= InitNice[q]
                   + MapThenSumSet(LAMBDA t : IF cmd[t].n.bad THEN 0 ELSE Up(cmd[t]), Tools)
            /\ \E q \in Targets : nice[p] >= InitNice[q]
                   - MapThenSumSet(LAMBDA t : IF cmd[t].n.bad THEN 0 ELSE Down(cmd[t]), Tools)
=============================================================================
