------------------------------- MODULE Login -------------------------------
(***************************************************************************)
(* src/src/login.c: ask for a name and a password, run the user's shell,   *)
(* begin again.  Names and passwords come through stdin, that is, through  *)
(* the lines the terminal has ready and through the buffer of stdio, which *)
(* fgets() and scanf() both read from and neither empties.                 *)
(*                                                                         *)
(* External: whoever types, the terminal, and the shell, which reads the   *)
(* same terminal and may leave its echo as it likes.  crypt() is taken to  *)
(* tell all passwords apart.  Of the child's environment HOME, LOGNAME and *)
(* the directory are left out, which it sets without looking whether it    *)
(* could.  Of the terminal's flags only ECHO is kept: what the others may  *)
(* become after a tcgetattr() that failed is left out.                     *)
(***************************************************************************)
EXTENDS Naturals, Sequences, SequencesExt

CONSTANTS
    Words,     \* the words that are typed
    Lines,     \* the lines that are typed, as words and blanks
    UserMax,   \* how much of a line fgets() takes
    Passwd,    \* from names to passwords: a word, "" or "invalid"
    MaxTyped   \* bound: the lines that are ready in the terminal

ASSUME WordsAssumption == {"blank", "newline", "", "invalid"} \intersect Words = {}
ASSUME LinesAssumption == Lines \subseteq Seq(Words \union {"blank"})
ASSUME UserMaxAssumption == UserMax \in Nat \ {0} /\ MaxTyped \in Nat
ASSUME PasswdAssumption ==
    /\ DOMAIN Passwd \subseteq Words
    /\ \A u \in DOMAIN Passwd : Passwd[u] \in Words \union {"", "invalid"}

VARIABLES
    pc,       \* where login is
    tty,      \* the lines ready in the terminal, and whether they were seen
    echo,     \* the ECHO flag of the terminal
    found,    \* what it was when login last took the terminal over
    save,     \* login's copy of it
    buf,      \* what stdio has read and nobody has taken
    bufSeen,  \* whether that could be seen when it was typed
    user,     \* the buffer for name and password
    unseen,   \* whether what scanf() last took could not be seen
    pwd,      \* the user that was looked up
    child,    \* where the child is
    ids,      \* whose uid and gid it has: login's, as long as there is none
    utmp,     \* the name in the record of who is logged in
    lapses    \* history: what login did not notice.  "hide": the last password prompt
              \* left the echo on; "restore": one since found may not give it back

vars == <<pc, tty, echo, found, save, buf, bufSeen, user, unseen, pwd, child, ids, utmp, lapses>>
childVars == <<child, ids, utmp>>
ttyVars == <<tty, echo, found, lapses>>
bufVars == <<buf, bufSeen, unseen>>

Space == {"blank", "newline"}
LoginIds == [uid |-> "login", gid |-> "login"]

-----------------------------------------------------------------------------
(* The terminal.                                                           *)

TypeLine ==
    /\ Len(tty) < MaxTyped
    /\ \E line \in Lines : tty' = Append(tty, [text |-> line, seen |-> echo])
    /\ UNCHANGED <<pc, echo, found, lapses, save, bufVars, user, pwd, childVars>>

\* stdio reads one line when it needs more.
Fill ==
    /\ pc \in {"username", "password"}
    /\ buf = <<>> /\ tty # <<>>
    /\ buf' = Append(Head(tty).text, "newline")
    /\ bufSeen' = Head(tty).seen
    /\ tty' = Tail(tty)
    /\ UNCHANGED <<pc, echo, found, lapses, save, user, unseen, pwd, childVars>>

\* Nothing is typed but an end of file.
AtEnd == buf = <<>> /\ tty = <<>>

-----------------------------------------------------------------------------

\* fgets() takes a line or as much of one as it has room for.
LineLen ==
    LET newline == CHOOSE n \in DOMAIN buf :
                       buf[n] = "newline" /\ \A k \in 1..(n - 1) : buf[k] # "newline"
    IN  IF newline < UserMax THEN newline ELSE UserMax

\* user is cut at the newline, which is the last that fgets() takes.
Cut_not(text) == text
Cut(text) == IF Last(text) = "newline" THEN Front(text) ELSE text

GetName ==
    /\ pc = "username"
    /\ buf # <<>>
    /\ user' = Cut(SubSeq(buf, 1, LineLen))
    /\ buf' = SubSeq(buf, LineLen + 1, Len(buf))
    /\ pc' = "lookup"
    /\ UNCHANGED <<ttyVars, save, bufSeen, unseen, pwd, childVars>>

\* At an end of file user stays as it was.
NameEof ==
    /\ pc = "username" /\ AtEnd
    /\ pc' = "lookup"
    /\ UNCHANGED <<ttyVars, save, bufVars, user, pwd, childVars>>

Known == \E u \in DOMAIN Passwd : user = <<u>>

\* Where an empty or unknown name leads.
AskAgain_not == "lookup"
AskAgain == "username"

AfterName_lax(u) == IF Passwd[u] \in {"", "invalid"} THEN "welcome" ELSE "hide"
AfterName(u) == CASE Passwd[u] = "" -> "welcome"
                  [] Passwd[u] = "invalid" -> "username"
                  [] OTHER -> "hide"

Lookup ==
    /\ pc = "lookup"
    /\ IF Known
       THEN pwd' = user[1] /\ pc' = AfterName(user[1])
       ELSE pc' = AskAgain /\ UNCHANGED pwd
    /\ UNCHANGED <<ttyVars, save, bufVars, user, childVars>>

\* TCSAFLUSH drops the lines that are ready.
Flushed_not == tty
Flushed == <<>>

Saved_late == FALSE
Saved == echo

\* Nobody looks whether the terminal granted the two requests.  A tcgetattr()
\* that fails leaves tp, and with it save, as it was on the stack, so that the
\* echo may not be restored; a tcsetattr() that fails changes nothing.
HideEcho ==
    /\ pc = "hide"
    /\ \E failed \in SUBSET {"restore", "hide"} :
        /\ IF "restore" \in failed THEN save' \in BOOLEAN ELSE save' = Saved
        /\ IF "hide" \in failed
           THEN UNCHANGED <<echo, tty>>
           ELSE echo' = FALSE /\ tty' = Flushed
        /\ lapses' = (lapses \ {"hide"}) \union failed
    /\ unseen' = TRUE
    /\ pc' = "password"
    /\ UNCHANGED <<found, buf, bufSeen, user, pwd, childVars>>

\* scanf() skips space over any number of lines and takes the next word;
\* what follows the word stays in the buffer.
ScanPassword ==
    /\ pc = "password"
    /\ \/ /\ \E k \in DOMAIN buf : buf[k] \notin Space
          /\ LET first == CHOOSE k \in DOMAIN buf :
                              buf[k] \notin Space /\ \A j \in 1..(k - 1) : buf[j] \in Space
                 after == CHOOSE k \in first..Len(buf) :
                              buf[k] \in Space /\ \A j \in first..(k - 1) : buf[j] \notin Space
             IN  user' = SubSeq(buf, first, after - 1) /\ buf' = SubSeq(buf, after, Len(buf))
          /\ unseen' = ~bufSeen
          /\ pc' = "restore"
       \/ /\ buf # <<>> /\ \A k \in DOMAIN buf : buf[k] \in Space
          /\ buf' = <<>>
          /\ UNCHANGED <<pc, user, unseen>>
    /\ UNCHANGED <<ttyVars, save, bufSeen, pwd, childVars>>

\* Here too user stays as it was: a name that is now taken for a password.
PasswordEof ==
    /\ pc = "password" /\ AtEnd
    /\ pc' = "restore"
    /\ UNCHANGED <<ttyVars, save, bufVars, user, pwd, childVars>>

\* Nor whether it granted this one.
RestoreEcho ==
    /\ pc = "restore"
    /\ \/ echo' = save /\ UNCHANGED lapses
       \/ UNCHANGED echo /\ lapses' = lapses \union {"restore"}
    /\ pc' = "verify"
    /\ UNCHANGED <<tty, found, save, bufVars, user, pwd, childVars>>

Verify ==
    /\ pc = "verify"
    /\ pc' = IF user = <<Passwd[pwd]>> THEN "welcome" ELSE "username"
    /\ UNCHANGED <<ttyVars, save, bufVars, user, pwd, childVars>>

Welcome ==
    /\ pc = "welcome"
    /\ \/ pc' = "ended" /\ UNCHANGED child
       \/ pc' = "session" /\ child' = "record"
    /\ UNCHANGED <<ttyVars, save, bufVars, user, pwd, ids, utmp>>

ChildEnds == child' = "none" /\ ids' = LoginIds

\* What is written to utmp: pw_name, not what is left in the buffer.
Recorded_buffer == user
Recorded == <<pwd>>

\* Without a terminal ttyname() is NULL, and strcpy() kills the child; that
\* pututxline() may fail is only complained about.
Record ==
    /\ child = "record"
    /\ \/ child' = "setuid" /\ utmp' \in {utmp, Recorded} /\ UNCHANGED ids
       \/ ChildEnds /\ UNCHANGED utmp
    /\ UNCHANGED <<pc, ttyVars, save, bufVars, user, pwd>>

\* Nobody looks whether the kernel granted them.
SetUid ==
    /\ child = "setuid"
    /\ ids' \in {ids, [ids EXCEPT !.uid = pwd]}
    /\ child' = "setgid"
    /\ UNCHANGED <<pc, ttyVars, save, bufVars, user, pwd, utmp>>

SetGid ==
    /\ child = "setgid"
    /\ ids' \in {ids, [ids EXCEPT !.gid = pwd]}
    /\ child' = "exec"
    /\ UNCHANGED <<pc, ttyVars, save, bufVars, user, pwd, utmp>>

Exec ==
    /\ child = "exec"
    /\ (child' = "shell" /\ UNCHANGED ids) \/ ChildEnds
    /\ UNCHANGED <<pc, ttyVars, save, bufVars, user, pwd, utmp>>

\* The shell reads lines, leaves the echo as it likes, and ends.
Shell ==
    /\ child = "shell"
    /\ \/ tty # <<>> /\ tty' = Tail(tty) /\ UNCHANGED <<echo, found, lapses, child, ids>>
       \/ /\ ChildEnds
          /\ echo' \in BOOLEAN
          /\ found' = echo'
          /\ lapses' = lapses \ {"restore"}
          /\ UNCHANGED tty
    /\ UNCHANGED <<pc, save, bufVars, user, pwd, utmp>>

\* waitpid() returns when the child has ended.
Ended_not == TRUE
Ended == child = "none"

WaitChild ==
    /\ pc = "session"
    /\ Ended
    /\ pc' = "username"
    /\ UNCHANGED <<ttyVars, save, bufVars, user, pwd, childVars>>

\* The interrupt character keeps its meaning throughout, and login does not
\* catch the signal: it ends wherever it is, and the child may with it.
Interrupt ==
    /\ pc # "ended"
    /\ pc' = "ended"
    /\ lapses' = IF pc \in {"password", "restore"} THEN lapses \union {"restore"} ELSE lapses
    /\ UNCHANGED <<child, ids>> \/ ChildEnds
    /\ UNCHANGED <<tty, echo, found, save, bufVars, user, pwd, utmp>>

-----------------------------------------------------------------------------

\* user is not initialised.
Init ==
    /\ pc = "username"
    /\ tty = <<>>
    /\ echo = TRUE /\ found = TRUE /\ save = TRUE
    /\ buf = <<>> /\ bufSeen = TRUE
    /\ user \in Lines
    /\ unseen = TRUE
    /\ pwd \in DOMAIN Passwd
    /\ child = "none" /\ ids = LoginIds
    /\ utmp = <<>>
    /\ lapses = {}

Child == Record \/ SetUid \/ SetGid \/ Exec

Own == Fill \/ GetName \/ Lookup \/ HideEcho \/ ScanPassword \/ RestoreEcho
       \/ Verify \/ Welcome \/ WaitChild

Next == Own \/ Child \/ TypeLine \/ NameEof \/ PasswordEof \/ Shell \/ Interrupt

Spec == Init /\ [][Next]_vars

\* login and its child are scheduled.  Nobody need type anything, not even
\* an end of file, or leave the shell.
FairSpec == Spec /\ WF_vars(Own) /\ WF_vars(Child)

-----------------------------------------------------------------------------

\* The type invariant.
TypeOK ==
    /\ pc \in {"username", "lookup", "hide", "password", "restore", "verify",
               "welcome", "session", "ended"}
    /\ tty \in Seq([text : Lines, seen : BOOLEAN]) /\ Len(tty) <= MaxTyped
    /\ echo \in BOOLEAN /\ found \in BOOLEAN /\ save \in BOOLEAN
    /\ buf \in Seq(Words \union Space)
    /\ buf # <<>> => Last(buf) = "newline"
    /\ bufSeen \in BOOLEAN /\ unseen \in BOOLEAN
    /\ user \in Seq(Words \union {"blank"})
    /\ pwd \in DOMAIN Passwd
    /\ child \in {"none", "record", "setuid", "setgid", "exec", "shell"}
    /\ ids \in [uid : DOMAIN Passwd \union {"login"}, gid : DOMAIN Passwd \union {"login"}]
    /\ utmp \in Seq(Words)
    /\ lapses \subseteq {"hide", "restore"}

\* No password that scanf() takes was typed while the echo was on, however
\* early it was typed and whatever lines went before: neither the terminal
\* nor stdio holds anything back from before the flush.  Only when this very
\* prompt could not switch the echo off, which login does not notice, it is
\* seen.  (It needs names that fgets() takes together with the end of their
\* line, which those of up to 62 characters are.)
PasswordUnseen == "hide" \notin lapses => unseen

\* Except at the prompt for the password, the terminal echoes as login found
\* it, unless the flags could not be read or given back since, or login was
\* interrupted at that prompt: then the echo may stay off.
EchoAsFound ==
    pc \notin {"password", "restore"} /\ "restore" \notin lapses => echo = found

\* A shell is started for a user who has no password, or whose password is
\* what was entered last, although name and password share one buffer and
\* either read may leave it as it was.
SessionEarned ==
    [][pc' = "session" /\ pc # "session"
       => Passwd[pwd] = "" \/ user = <<Passwd[pwd]>>]_vars

\* While the child or its shell runs, login reads nothing and leaves the
\* terminal and the user it looked up alone, who is one that may log in.
ShellUndisturbed ==
    child # "none" => pc \in {"session", "ended"} /\ Passwd[pwd] # "invalid"

\* What utmp says is the name of one who may log in, never what was left in
\* the buffer, such as a password.  (It may be the name of the one before,
\* and it stays when the shell has ended.)
UtmpNamesUsers == utmp = <<>> \/ \E u \in DOMAIN Passwd : utmp = <<u>> /\ Passwd[u] # "invalid"

\* login comes back to its prompt for ever, unless it waits for a password,
\* for the end of a shell, could not fork, or was interrupted.
PromptAgain ==
    []<>(pc = "username") \/ <>[](pc \in {"password", "ended"} \/ child = "shell")
=============================================================================
