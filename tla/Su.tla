--------------------------------- MODULE Su ---------------------------------
(***************************************************************************)
(* src/src/su.c and src/src/newgrp.c: become another user, or a member of  *)
(* another group, and turn into a shell.                                   *)
(*                                                                         *)
(* External: the kernel, which may refuse any request, and the entries of  *)
(* the users.  The shell is known by the arguments it is started with.     *)
(* The word -h also stands for -v; getopt() reads the options of newgrp.   *)
(*                                                                         *)
(* What every specification has begins with Su here, and pc, exit and      *)
(* command have other names, so that a module can extend this one together *)
(* with others.                                                            *)
(***************************************************************************)
EXTENDS Naturals, Sequences, SequencesExt

CONSTANTS
    Users,     \* the users there are, as words
    Texts,     \* other words
    Numbers,   \* the words that begin with a number
    ValueOf,   \* from those words to the number
    Caller,    \* the user who calls
    OwnGroup,  \* the caller's group
    MaxWords   \* bound: the words of one command line

\* "-x" is an option that is not known, "-xy" two in one word.
OptionWords == {"-", "-c", "-h", "-x", "-xy"}
Words == Users \union Texts \union Numbers \union OptionWords

ASSUME WordsAssumption ==
    /\ (Users \union Texts \union Numbers) \intersect (OptionWords \union {""}) = {}
    /\ Users \intersect Texts = {} /\ Numbers \intersect (Users \union Texts) = {}
ASSUME ValuesAssumption == ValueOf \in [Numbers -> Nat] /\ OwnGroup \in Nat
ASSUME UsersAssumption == Caller \in Users /\ "root" \in Users
ASSUME MaxWordsAssumption == MaxWords \in Nat

VARIABLES
    tool,     \* "su" or "newgrp"
    args,     \* its arguments
    stage,    \* where it is: its pc
    result,   \* its exit status, once it has ended
    n,        \* su: the argument it looks at; newgrp: optind
    login,    \* su: do_login_shell
    user,     \* su: user, "" for NULL
    commandAt, \* su: command, where in args it begins, 0 for NULL
    uid, euid, gid,
    argv,     \* what the shell is started with
    refused   \* su: history, which of setuid() and seteuid() the kernel refused

suVars == <<tool, args, stage, result, n, login, user, commandAt, uid, euid, gid, argv,
            refused>>
readVars == <<n, login, user, commandAt>>
ids == <<uid, euid, gid, refused>>

SuEnd(status) == stage' = "ended" /\ result' = status

-----------------------------------------------------------------------------
(* su                                                                      *)

\* The loop over the arguments ends at a name, and at -c.
ReadArg ==
    /\ tool = "su" /\ stage = "args" /\ n <= Len(args)
    /\ n' = n + 1
    /\ \/ args[n] = "-h" /\ SuEnd(0) /\ UNCHANGED <<login, user, commandAt>>
       \/ args[n] = "-" /\ login' = TRUE /\ UNCHANGED <<stage, result, user, commandAt>>
       \/ /\ args[n] = "-c"
          /\ commandAt' = n + 1 /\ stage' = "lookup"
          /\ UNCHANGED <<result, login, user>>
       \/ /\ args[n] \notin {"-h", "-", "-c"}
          /\ user' = args[n] /\ stage' = "lookup"
          /\ UNCHANGED <<result, login, commandAt>>
    /\ UNCHANGED <<tool, args, ids, argv>>

EndOfArgs ==
    /\ tool = "su" /\ stage = "args" /\ n > Len(args)
    /\ stage' = "lookup"
    /\ UNCHANGED <<tool, args, result, readVars, ids, argv>>

NotFound_ignored == FALSE
NotFound == user' \notin Users

Lookup ==
    /\ stage = "lookup"
    /\ user' = IF user = "" THEN "root" ELSE user
    /\ IF NotFound THEN SuEnd(1) ELSE stage' = "setuid" /\ UNCHANGED result
    /\ UNCHANGED <<tool, args, n, login, commandAt, ids, argv>>

\* What setuid() and seteuid() return is not looked at.
SetUid ==
    /\ stage = "setuid"
    /\ \/ uid' = user /\ euid' = user /\ UNCHANGED refused
       \/ refused' = refused \union {"setuid"} /\ UNCHANGED <<uid, euid>>
    /\ stage' = "seteuid"
    /\ UNCHANGED <<tool, args, result, readVars, gid, argv>>

SetEuid ==
    /\ stage = "seteuid"
    /\ \/ euid' = user /\ UNCHANGED refused
       \/ refused' = refused \union {"seteuid"} /\ UNCHANGED euid
    /\ stage' = "exec"
    /\ UNCHANGED <<tool, args, result, readVars, uid, gid, argv>>

\* Everything after -c goes to the shell; with it, - counts for nothing.
ShellArgs_name(from) == <<"-c">> \o SubSeq(args, from + 1, Len(args))
ShellArgs(from) == <<"-c">> \o SubSeq(args, from, Len(args))

Exec ==
    /\ tool = "su" /\ stage = "exec"
    /\ \/ /\ argv' = CASE commandAt # 0 -> ShellArgs(commandAt)
                       [] commandAt = 0 /\ login -> <<"--login">>
                       [] OTHER -> <<>>
          /\ stage' = "shell"
          /\ UNCHANGED result
       \/ SuEnd(1) /\ UNCHANGED argv
    /\ UNCHANGED <<tool, args, readVars, ids>>

-----------------------------------------------------------------------------
(* newgrp                                                                  *)

\* An option that is not known ends the loop over the options, and optind is
\* past it unless there is another letter in the word.
ReadOptions ==
    /\ tool = "newgrp" /\ stage = "args"
    /\ IF args # <<>> /\ args[1] = "-h"
       THEN SuEnd(0) /\ UNCHANGED n
       ELSE /\ n' = IF args # <<>> /\ args[1] \in {"-x", "-c"} THEN 2 ELSE 1
            /\ stage' = "group"
            /\ UNCHANGED result
    /\ UNCHANGED <<tool, args, login, user, commandAt, ids, argv>>

\* The group, in every step in which something may fail.
Refusal_ignored == stage' = "group shell" /\ UNCHANGED <<result, gid>>
Refusal == SuEnd(1) /\ UNCHANGED gid

SetGid ==
    /\ stage = "group"
    /\ \/ /\ n <= Len(args) /\ args[n] \in Numbers
          /\ gid' = ValueOf[args[n]]
          /\ stage' = "group shell"
          /\ UNCHANGED result
       \/ Refusal
    /\ UNCHANGED <<tool, args, readVars, uid, euid, argv, refused>>

\* The entry of the user who calls may be missing, and the shell too.
ExecOwnShell ==
    /\ stage = "group shell"
    /\ (stage' = "shell" /\ UNCHANGED result) \/ SuEnd(1)
    /\ UNCHANGED <<tool, args, readVars, ids, argv>>
-----------------------------------------------------------------------------

SuInit ==
    /\ tool \in {"su", "newgrp"}
    /\ args \in UNION {[1..k -> Words] : k \in 0..MaxWords}
    /\ stage = "args"
    /\ result = 0
    /\ n = 1
    /\ login = FALSE
    /\ user = ""
    /\ commandAt = 0
    /\ uid = Caller /\ euid = Caller /\ gid = OwnGroup
    /\ argv = <<>>
    /\ refused = {}

Su == ReadArg \/ EndOfArgs \/ Lookup \/ SetUid \/ SetEuid \/ Exec
Newgrp == ReadOptions \/ SetGid \/ ExecOwnShell

SuNext == Su \/ Newgrp

SuSpec == SuInit /\ [][SuNext]_suVars

-----------------------------------------------------------------------------

\* The type invariant.  Past the look-up, su has a user there is.
SuTypeOK ==
    /\ tool \in {"su", "newgrp"}
    /\ args \in Seq(Words)
    /\ stage \in {"args", "lookup", "setuid", "seteuid", "exec", "group", "group shell",
               "shell", "ended"}
    /\ result \in {0, 1}
    /\ n \in 1..(MaxWords + 2) /\ commandAt \in 0..(MaxWords + 1)
    /\ login \in BOOLEAN
    /\ user \in Words \union {""}
    /\ stage \in {"setuid", "seteuid", "exec"} => user \in Users
    /\ uid \in Users /\ euid \in Users
    /\ gid \in Nat
    /\ argv \in Seq(Words \union {"--login"})
    /\ refused \subseteq {"setuid", "seteuid"}

\* The command lines of su.c:34, "su [options] [-] [username] [-c "<command>"]":
\* before the first -c, or the end, there is nothing but at most a - and then
\* at most a name.
DashC == SelectInSeq(args, LAMBDA w : w = "-c")
BeforeC == IF DashC = 0 THEN args ELSE SubSeq(args, 1, DashC - 1)
Name == IF BeforeC = <<>> \/ Last(BeforeC) = "-" THEN "" ELSE Last(BeforeC)
UsageLine ==
    /\ BeforeC \in {<<>>, <<"-">>, <<Name>>, <<"-", Name>>}
    /\ Name \notin {"-", "-h"}

NameAndCommand == Name # "" /\ DashC # 0

\* What such a line asks for.
UserAsked == IF Name = "" THEN "root" ELSE Name
ArgvAsked ==
    CASE DashC # 0 -> <<"-c">> \o SubSeq(args, DashC + 1, Len(args))
      [] DashC = 0 /\ "-" \in {BeforeC[k] : k \in DOMAIN BeforeC} -> <<"--login">>
      [] OTHER -> <<>>

\* For a line that does not both name a user and give a command, su starts the
\* shell that the line asks for.  It is of the user that the line names, or of
\* root: but for what the kernel has refused, which su does not look at, so that
\* the shell of one who is refused setuid() still has the caller's uid, and his
\* euid only if seteuid() was refused as well.
SuAsAsked ==
    tool = "su" /\ stage = "shell" /\ UsageLine /\ ~NameAndCommand =>
        /\ user = UserAsked /\ argv = ArgvAsked
        /\ uid = UserAsked \/ "setuid" \in refused
        /\ euid = UserAsked \/ {"setuid", "seteuid"} \subseteq refused

\* The usage text, su.c:34 and 39: with -c, su executes the command in the shell
\* instead of logging in.  (Violated: after a name, the loop has ended, and the
\* -c is never seen.)
CommandIsRun ==
    tool = "su" /\ stage = "shell" /\ UsageLine /\ DashC # 0 => argv = ArgvAsked

\* newgrp starts a shell only in the group that its command line ends with or
\* goes on after, and as who called it: whatever is refused ends it.
NewgrpAsAsked ==
    tool = "newgrp" /\ stage = "shell" =>
        /\ \E k \in DOMAIN args :
            /\ args[k] \in Numbers /\ gid = ValueOf[args[k]]
            /\ \A j \in 1..(k - 1) : args[j] \in OptionWords \ {"-", "-xy"}
        /\ uid = Caller /\ euid = Caller
=============================================================================
