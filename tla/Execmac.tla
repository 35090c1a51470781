------------------------------ MODULE Execmac ------------------------------
(***************************************************************************)
(* src/src/execmac.c: run a command with fewer rights.  The options -f and *)
(* -p act on execmac itself as they are read, and the child inherits their *)
(* effect at fork(); -c is only noted, and takes effect in the child       *)
(* between fork() and execvp().                                            *)
(*                                                                         *)
(* The kernel is external: it may refuse any request, and of the           *)
(* capabilities asked for it may withhold those that the caller lacks.     *)
(* A word of -c stands for every word that begins like it.  -h and -v,     *)
(* which print a text and end, are left out.                               *)
(***************************************************************************)
EXTENDS Naturals, Sequences, FiniteSets

CONSTANTS
    Caps,       \* the names of the capabilities
    OwnCaps,    \* the capabilities execmac itself has
    Files,      \* what -f may name
    Words,      \* the words that may stand in the argument of -c
    MaxOptions, \* bound: the options of one command line
    MaxWords,   \* bound: the words of one -c
    Statuses    \* the statuses with which the command may exit

Policies == {"D", "S", "K"}

ASSUME OwnCapsAssumption == OwnCaps \subseteq Caps
ASSUME WordsAssumption == "all" \notin Caps
ASSUME StatusesAssumption == Statuses \subseteq Nat
ASSUME BoundsAssumption == MaxOptions \in Nat /\ MaxWords \in Nat \ {0}

SeqUpTo(S, a, b) == UNION {[1..n -> S] : n \in a..b}

\* "bare" is an option without its argument, "unknown" any other letter.  The
\* argument of -c may have no word in it.
Option ==
    [opt : {"c"}, words : SeqUpTo(Words, 0, MaxWords)]
    \union [opt : {"f"}, file : Files]
    \union [opt : {"p"}, policy : Policies \union {"other"}]
    \union [opt : {"bare", "unknown"}]

VARIABLES
    args,      \* the command line
    next,      \* the option that getopt() returns next
    caps,      \* translated_caps
    mac,       \* what the kernel holds about execmac
    refused,   \* history: the places of the -p that the kernel has refused
    pc,        \* where execmac is
    exit,      \* its exit status, once it has ended
    child,     \* where the child is
    childMac,  \* what the kernel holds about the child
    status     \* the exit status of the child, once it has exited

vars == <<args, next, caps, mac, refused, pc, exit, child, childMac, status>>
macVars == <<mac, refused>>
childVars == <<child, childMac, status>>

OwnMac == [filters |-> {}, policy |-> "none", caps |-> OwnCaps]

-----------------------------------------------------------------------------
(* The options, in the order in which they stand.                          *)

\* The word "all" counts only at the beginning, and then what follows it is
\* not looked at.
SaysAll(words) == 1 \in DOMAIN words /\ words[1] = "all"

BadWord_ignored(words) == FALSE
BadWord(words) == ~SaysAll(words) /\ \E i \in DOMAIN words : words[i] \notin Caps

\* translated_caps after a -c: what an earlier one gave is dropped.
Translated_accumulates(old, words) ==
    IF SaysAll(words) THEN Caps ELSE old \union {words[i] : i \in DOMAIN words}
Translated(old, words) ==
    IF SaysAll(words) THEN Caps ELSE {words[i] : i \in DOMAIN words}

Parsing(opt) == pc = "options" /\ next <= Len(args) /\ args[next].opt = opt

Read == next' = next + 1 /\ UNCHANGED <<pc, exit>>
Fail == pc' = "ended" /\ exit' = 1 /\ UNCHANGED next

OptionC ==
    /\ Parsing("c")
    /\ LET words == args[next].words
       IN  IF BadWord(words)
           THEN Fail /\ UNCHANGED caps
           ELSE Read /\ caps' = Translated(caps, words)
    /\ UNCHANGED <<args, macVars, childVars>>

OptionF ==
    /\ Parsing("f")
    /\ \/ Read /\ mac' = [mac EXCEPT !.filters = @ \union {args[next].file}]
       \/ Fail /\ UNCHANGED mac
    /\ UNCHANGED <<args, caps, refused, childVars>>

\* The result of set_mac_enforcement() is not looked at.
OptionP ==
    /\ Parsing("p")
    /\ IF args[next].policy \in Policies
       THEN /\ Read
            /\ \/ mac' = [mac EXCEPT !.policy = args[next].policy] /\ UNCHANGED refused
               \/ refused' = refused \union {next} /\ UNCHANGED mac
       ELSE Fail /\ UNCHANGED macVars
    /\ UNCHANGED <<args, caps, childVars>>

OptionBare == Parsing("bare") /\ Fail /\ UNCHANGED <<args, caps, macVars, childVars>>

\* After an unknown letter nothing more is read: what follows is the command.
Unread == next \in DOMAIN args /\ args[next].opt # "unknown"

-----------------------------------------------------------------------------
(* The child.                                                              *)

\* The result of fork() is not compared with -1: waitpid() then finds no
\* child.
Fork ==
    /\ pc = "options" /\ ~Unread
    /\ pc' = "wait"
    /\ \/ child' = "setcaps" /\ childMac' = mac
       \/ UNCHANGED <<child, childMac>>
    /\ UNCHANGED <<args, next, caps, macVars, exit, status>>

\* main() returns 1 in the child.
ChildGivesUp == child' = "exited" /\ status' = 1

\* Where the child goes when set_mac_capabilities() has failed.
CapsRefused_ignored == child' = "exec" /\ UNCHANGED status
CapsRefused == ChildGivesUp

SetCaps ==
    /\ child = "setcaps"
    /\ \/ /\ \E granted \in {caps, caps \intersect childMac.caps} :
               childMac' = [childMac EXCEPT !.caps = granted]
          /\ child' = "exec"
          /\ UNCHANGED status
       \/ CapsRefused /\ UNCHANGED childMac
    /\ UNCHANGED <<args, next, caps, macVars, pc, exit>>

Exec ==
    /\ child = "exec"
    /\ \/ child' = "command" /\ UNCHANGED status
       \/ ChildGivesUp
    /\ UNCHANGED <<args, next, caps, macVars, pc, exit, childMac>>

CommandExits ==
    /\ child = "command"
    /\ child' = "exited"
    /\ status' \in Statuses
    /\ UNCHANGED <<args, next, caps, macVars, pc, exit, childMac>>

\* The child is killed, by the policy or by anybody, before or after exec.
ChildKilled ==
    /\ child \in {"setcaps", "exec", "command"}
    /\ child' = "killed"
    /\ UNCHANGED <<args, next, caps, macVars, pc, exit, childMac, status>>

\* waitpid() blocks until the child has ended, and fails without a child.
Reaped_exit_only == child \in {"exited", "none"}
Reaped == child \in {"exited", "killed", "none"}

Wait ==
    /\ pc = "wait"
    /\ Reaped
    /\ pc' = "ended"
    /\ exit' = IF child = "exited" THEN status ELSE 1
    /\ UNCHANGED <<args, next, caps, macVars, childVars>>

-----------------------------------------------------------------------------

Init ==
    /\ args \in SeqUpTo(Option, 0, MaxOptions)
    /\ next = 1
    /\ caps = OwnCaps
    /\ mac = OwnMac /\ refused = {}
    /\ pc = "options"
    /\ exit = 0
    /\ child = "none"
    /\ childMac = OwnMac
    /\ status = 0

Options == OptionC \/ OptionF \/ OptionP \/ OptionBare
Child == SetCaps \/ Exec \/ CommandExits \/ ChildKilled

Next == Options \/ Fork \/ Child \/ Wait

Spec == Init /\ [][Next]_vars

\* execmac is scheduled, and so is the child up to the command, which may
\* run for ever.
Fairness == WF_vars(Options \/ Fork \/ Wait) /\ WF_vars(SetCaps \/ Exec)
FairSpec == Spec /\ Fairness

-----------------------------------------------------------------------------

Mac == [filters : SUBSET Files, policy : Policies \union {"none"}, caps : SUBSET Caps]

\* The type invariant; the positions of parent and child fit together.
TypeOK ==
    /\ args \in Seq(Option)
    /\ next \in 1..(Len(args) + 1)
    /\ caps \subseteq Caps
    /\ mac \in Mac /\ childMac \in Mac
    /\ refused \subseteq 1..(next - 1)
    /\ pc \in {"options", "wait", "ended"}
    /\ child \in {"none", "setcaps", "exec", "command", "exited", "killed"}
    /\ exit \in Statuses \union {0, 1}
    /\ status \in Statuses \union {0, 1}
    /\ pc = "options" => child = "none"

\* The options that count: those before the first unknown letter.
Counts(i) == i \in DOMAIN args /\ \A j \in 1..i : args[j].opt # "unknown"
Given(opt) == {i \in DOMAIN args : Counts(i) /\ args[i].opt = opt}
Latest(opt) == CHOOSE i \in Given(opt) : \A j \in Given(opt) : j <= i

\* What the command line asks for.
CapsAsked ==
    IF Given("c") = {} THEN OwnCaps
    ELSE LET words == args[Latest("c")].words
         IN  IF words = <<"all">> THEN Caps ELSE {words[i] : i \in DOMAIN words}
FiltersAsked == {args[i].file : i \in Given("f")}
PolicyAsked == IF Given("p") = {} THEN "none" ELSE args[Latest("p")].policy

\* The usage text (line 64) has "all" stand alone.  That it has company is a
\* mistake that execmac does not notice.
AllAlone ==
    \A i \in Given("c") : SaysAll(args[i].words) => args[i].words = <<"all">>

\* The policy of the last -p that was not refused.
PolicyGranted ==
    LET granted == Given("p") \ refused
    IN  IF granted = {} THEN "none"
        ELSE args[CHOOSE i \in granted : \A j \in granted : j <= i].policy

CapsKept == AllAlone => childMac.caps \subseteq CapsAsked

\* The command runs only behind every filter of the command line, under the
\* policy of the last -p that the kernel granted, and with no capability
\* beyond those of its last -c (the order of options, the refusals of the
\* kernel and the inheritance at fork() notwithstanding), and never after a
\* command line with a mistake that execmac looks for.
RunsRestricted ==
    child = "command" =>
        /\ CapsKept
        /\ childMac.filters = FiltersAsked
        /\ childMac.policy = PolicyGranted
        /\ Given("bare") = {}
        /\ \A i \in Given("c") : ~BadWord(args[i].words)
        /\ \A i \in Given("p") : args[i].policy \in Policies

\* execmac.c:45 "Command that will be run using the passed MAC settings": its
\* policy is that of the last -p.  Lines 132, 134 and 136 take no notice when
\* the kernel refuses it.
RunsUnderPolicy == child = "command" => childMac.policy = PolicyAsked

\* An exit status of 0 is the command's own: never that of an execmac that
\* failed, of a child that never got to the command with its rights taken
\* away, or of one that was killed.
ZeroIsTheCommands ==
    pc = "ended" /\ exit = 0 =>
        /\ child = "exited" /\ status = 0
        /\ CapsKept
        /\ childMac.filters = FiltersAsked

\* In the end execmac has ended, or waits for a command that still runs.
EndsWithCommand == <>[](pc = "ended" \/ child = "command")
=============================================================================
