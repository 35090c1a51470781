------------------------------- MODULE Strace -------------------------------
(***************************************************************************)
(* src/src/strace.c: the tracer process, the tracee it forks, and the      *)
(* pipe through which the kernel hands the tracer one record for every     *)
(* system call the tracee enters or leaves.                                *)
(*                                                                         *)
(* A record carries a thread id and the registers.  Nothing in it says     *)
(* whether the thread entered or left a call: the tracer decides that      *)
(* itself, from one flag per thread id (infos[i].is_syscall).  The fields  *)
(* kind and clean of a record are what the tracer does not see: what the   *)
(* record is, and whether the thread's records paired up until then.       *)
(*                                                                         *)
(* The kernel and the tracee are external: they are modelled from what     *)
(* strace.c relies on.  A record is written atomically, the writer waits   *)
(* when the pipe is full, and exit, exit_thread and a successful exec      *)
(* report no return.                                                       *)
(***************************************************************************)
EXTENDS Naturals, Sequences

CONSTANTS
    Threads,   \* thread ids the kernel can give to threads of the tracee
    Makes,     \* the calls the tracee makes, besides exit and exit_thread
    RetVals,   \* what a returned rax can look like: the number of a call
    PipeCap,   \* bound: records the pipe holds before a writer waits
    MaxCalls   \* bound: how many calls of Makes the tracee makes

Calls     == {"exit", "exit_thread", "exec", "create_thread", "fork", "other"}
NoReturn  == {"exit", "exit_thread", "exec"}
Returning == Calls \ NoReturn

ASSUME ThreadsAssumption == Threads # {}
ASSUME MakesAssumption == Makes \subseteq Returning \union {"exec"}
ASSUME RetValsAssumption == RetVals \subseteq Calls
ASSUME PipeCapAssumption == PipeCap \in Nat \ {0}
ASSUME MaxCallsAssumption == MaxCalls \in Nat

VARIABLES
    pc,          \* where the tracer is in main()
    own,         \* the tracer still has its write end, pipes[1], open
    seen,        \* thread ids that have an entry in infos
    is_syscall,  \* infos[i].is_syscall of every thread id
    out,         \* the lines the tracer has printed
    traced,      \* ptrace() has attached the pipe to the tracee
    thr,         \* what each thread id of the tracee is doing
    calls,       \* calls the tracee has made, up to MaxCalls
    sent,        \* every record the kernel has written, oldest first
    torn,        \* thread ids whose records no longer pair up
    fdsOpen,     \* the tracee (and its tracing) still holds the write end
    bg,          \* a process the tracee forked still holds the write end
    waitable     \* waitpid() would return the tracee

tracerVars == <<pc, own, seen, is_syscall, out>>
traceeVars == <<traced, thr, calls, sent, torn, fdsOpen, bg, waitable>>
vars == <<tracerVars, traceeVars>>

Gone == {"done", "failed"}

Alive == \E t \in Threads : thr[t] # "none"

\* The records still in the pipe are those after the last one printed.
Readable == Len(out) < Len(sent)

\* poll() reports POLLHUP: nobody holds the write end any more.
Hangup == ~own /\ ~fdsOpen /\ ~bg

-----------------------------------------------------------------------------
(* The kernel's side of tracing.                                           *)

\* The kernel writes a record; it waits while the pipe is full.
Report(t, kind, rax, clean) ==
    IF traced
    THEN /\ Len(sent) - Len(out) < PipeCap
         /\ sent' = Append(sent, [tid |-> t, kind |-> kind, rax |-> rax,
                                  clean |-> clean])
    ELSE UNCHANGED sent

\* The threads in S die: those inside a call never report its return.
TornBy(S) ==
    IF traced THEN torn \union {u \in S : thr[u] \in Returning} ELSE torn

MakeCall(t, c) ==
    /\ thr[t] = "user"
    /\ calls < MaxCalls
    /\ calls' = calls + 1
    /\ thr' = [thr EXCEPT ![t] = c]
    /\ Report(t, "call", c, t \notin torn)
    /\ UNCHANGED <<traced, torn, fdsOpen, bg, waitable, tracerVars>>

ReturnFromCall(t) ==
    /\ thr[t] \in Returning
    /\ \/ thr' = [thr EXCEPT ![t] = "user"]
       \/ /\ thr[t] = "create_thread"
          /\ \E u \in Threads : /\ thr[u] = "none"
                                /\ thr' = [thr EXCEPT ![t] = "user",
                                                      ![u] = "user"]
    /\ \E b \in {bg, bg \/ thr[t] = "fork"} : bg' = b
    /\ \E x \in RetVals : Report(t, "ret", x, t \notin torn)
    /\ UNCHANGED <<traced, calls, torn, fdsOpen, waitable, tracerVars>>

\* A failed exec, the one case in which exec reports a return: rax is -1,
\* the number of no call.
ExecFails(t) ==
    /\ thr[t] = "exec"
    /\ thr' = [thr EXCEPT ![t] = "user"]
    /\ torn' = IF traced THEN torn \union {t} ELSE torn
    /\ Report(t, "ret", "other", FALSE)
    /\ UNCHANGED <<traced, calls, fdsOpen, bg, waitable, tracerVars>>

\* The new image runs in one thread, under any id that is free by then.
ExecSucceeds(t, u) ==
    /\ thr[t] = "exec"
    /\ thr' = [v \in Threads |-> IF v = u THEN "user" ELSE "none"]
    /\ torn' = TornBy(Threads)
    /\ UNCHANGED <<traced, calls, sent, fdsOpen, bg, waitable, tracerVars>>

ExitThread(t) ==
    /\ thr[t] = "user"
    /\ thr' = [thr EXCEPT ![t] = "none"]
    /\ Report(t, "call", "exit_thread", t \notin torn)
    /\ UNCHANGED <<traced, calls, torn, fdsOpen, bg, waitable, tracerVars>>

ExitProcess(t) ==
    /\ thr[t] = "user"
    /\ thr' = [u \in Threads |-> "none"]
    /\ torn' = TornBy(Threads)
    /\ Report(t, "call", "exit", t \notin torn)
    /\ UNCHANGED <<traced, calls, fdsOpen, bg, waitable, tracerVars>>

KillProcess ==
    /\ Alive
    /\ thr' = [u \in Threads |-> "none"]
    /\ torn' = TornBy(Threads)
    /\ UNCHANGED <<traced, calls, sent, fdsOpen, bg, waitable, tracerVars>>

\* Once its last thread is gone the kernel closes the files of the tracee
\* and makes it a zombie, in an order strace does not rely on.
CloseFiles ==
    /\ ~Alive /\ fdsOpen
    /\ fdsOpen' = FALSE
    /\ UNCHANGED <<traced, thr, calls, sent, torn, bg, waitable, tracerVars>>

BecomeZombie ==
    /\ ~Alive /\ ~waitable
    /\ waitable' = TRUE
    /\ UNCHANGED <<traced, thr, calls, sent, torn, fdsOpen, bg, tracerVars>>

BackgroundEnds ==
    /\ bg
    /\ bg' = FALSE
    /\ UNCHANGED <<traced, thr, calls, sent, torn, fdsOpen, waitable,
                   tracerVars>>

-----------------------------------------------------------------------------
(* The tracer, from fork() on.                                             *)

\* close(pipes[1])
CloseOwnEnd_dropped == UNCHANGED own
CloseOwnEnd == own' = FALSE

\* ptrace() succeeds and the tracer closes its write end.  The tracee has
\* been running since fork(): a thread inside a call reports its return
\* only, so its records start with one that has no call.
Attach ==
    /\ pc = "attach"
    /\ traced' = TRUE
    /\ torn' = {t \in Threads : thr[t] \in Returning}
    /\ CloseOwnEnd
    /\ pc' = "poll"
    /\ UNCHANGED <<seen, is_syscall, out, thr, calls, sent, fdsOpen, bg,
                   waitable>>

AttachFails ==
    /\ pc = "attach"
    /\ pc' = "failed"
    /\ own' = FALSE
    /\ UNCHANGED <<seen, is_syscall, out, traceeVars>>

Poll_revents_ignored ==
    /\ pc = "poll"
    /\ Readable \/ Hangup
    /\ pc' = "read"
    /\ UNCHANGED <<own, seen, is_syscall, out, traceeVars>>

\* poll() returns when there is a record to read or nobody left to write one.
Poll ==
    /\ pc = "poll"
    /\ Readable \/ Hangup
    /\ pc' = IF Readable THEN "read" ELSE "wait"
    /\ UNCHANGED <<own, seen, is_syscall, out, traceeVars>>

PollFails ==
    /\ pc = "poll"
    /\ pc' = "failed"
    /\ UNCHANGED <<own, seen, is_syscall, out, traceeVars>>

StaysCall_exit_only(r) == r.rax = "exit"

\* What infos[i].is_syscall becomes after printing r as a call.
StaysCall(r) == r.rax \in NoReturn

\* Reads one record and prints it.  A thread id without an entry gets one,
\* with is_syscall set, before the record is looked at again (goto PRINTER).
ReadRecord ==
    /\ pc = "read"
    /\ LET r == sent[Len(out) + 1]
           t == r.tid
       IN  /\ seen' = seen \union {t}
           /\ out' = Append(out, [tid  |-> t,
                                  kind |-> IF is_syscall[t] THEN "call" ELSE "ret",
                                  rax  |-> r.rax])
           /\ is_syscall' = [is_syscall EXCEPT ![t] = ~@ \/ StaysCall(r)]
    /\ pc' = "wait"
    /\ UNCHANGED <<own, traceeVars>>

\* realloc() fails for a thread id that has no entry yet.
NoMemory ==
    /\ pc = "read"
    /\ sent[Len(out) + 1].tid \notin seen
    /\ pc' = "failed"
    /\ UNCHANGED <<own, seen, is_syscall, out, traceeVars>>

WaitChild_blocks ==
    /\ pc = "wait" /\ waitable
    /\ pc' = "done"
    /\ UNCHANGED <<own, seen, is_syscall, out, traceeVars>>

\* waitpid(child, &status, WNOHANG)
WaitChild ==
    /\ pc = "wait"
    /\ pc' = IF waitable THEN "done" ELSE "poll"
    /\ UNCHANGED <<own, seen, is_syscall, out, traceeVars>>

-----------------------------------------------------------------------------

\* fork() has succeeded.  The tracee has one thread, which may still be on
\* its way out of fork().
Init ==
    /\ pc = "attach"
    /\ own = TRUE
    /\ seen = {}
    /\ is_syscall = [t \in Threads |-> TRUE]
    /\ out = << >>
    /\ traced = FALSE
    /\ \E main \in Threads, s \in {"user", "other"} :
          thr = [t \in Threads |-> IF t = main THEN s ELSE "none"]
    /\ calls = 0
    /\ sent = << >>
    /\ torn = {}
    /\ fdsOpen = TRUE
    /\ bg = FALSE
    /\ waitable = FALSE

Tracee ==
    \/ \E t \in Threads :
          \/ \E c \in Makes : MakeCall(t, c)
          \/ ReturnFromCall(t)
          \/ ExecFails(t)
          \/ \E u \in Threads : ExecSucceeds(t, u)
          \/ ExitThread(t)
          \/ ExitProcess(t)
    \/ KillProcess
    \/ CloseFiles
    \/ BecomeZombie
    \/ BackgroundEnds

Tracer ==
    \/ Attach
    \/ AttachFails
    \/ Poll
    \/ PollFails
    \/ ReadRecord
    \/ NoMemory
    \/ WaitChild

\* What the tracee does after strace has given up is not followed.
Next == Tracer \/ (pc # "failed" /\ Tracee)

Spec == Init /\ [][Next]_vars

\* The scheduler runs the tracer, and the kernel finishes the end of a
\* process it has begun.  Nothing makes the tracee or its offspring move.
Fairness ==
    /\ WF_vars(Attach)
    /\ WF_vars(Poll)
    /\ WF_vars(ReadRecord)
    /\ WF_vars(WaitChild)
    /\ WF_vars(CloseFiles)
    /\ WF_vars(BecomeZombie)

FairSpec == Spec /\ Fairness

\* The runs in which ptrace() finds no thread in the middle of a call.
InTime == \A t \in Threads : thr[t] \in {"none", "user"}

AttachedInTimeSpec == Init /\ [][Next /\ (Attach => InTime)]_vars

-----------------------------------------------------------------------------
(* Properties.                                                             *)

Line   == [tid : Threads, kind : {"call", "ret"}, rax : Calls]
Record == [tid : Threads, kind : {"call", "ret"}, rax : Calls, clean : BOOLEAN]

\* Every variable of the tracer and of the tracee stays in its range, and
\* the tracer never prints a record the kernel has not written.
TypeOK ==
    /\ pc \in {"attach", "poll", "read", "wait"} \union Gone
    /\ own \in BOOLEAN
    /\ seen \subseteq Threads
    /\ is_syscall \in [Threads -> BOOLEAN]
    /\ out \in Seq(Line)
    /\ traced \in BOOLEAN
    /\ thr \in [Threads -> {"none", "user", "exec"} \union Returning]
    /\ calls \in 0..MaxCalls
    /\ sent \in Seq(Record)
    /\ torn \subseteq Threads
    /\ fdsOpen \in BOOLEAN
    /\ bg \in BOOLEAN
    /\ waitable \in BOOLEAN
    /\ Len(out) <= Len(sent)
    /\ pc = "read" => Len(out) < Len(sent)

\* The tracer guesses right.  As long as the records of a thread pair up, a
\* record is printed as the call or the return that it is, whatever the
\* other threads do, however late the record is read, and also when the id
\* had belonged to a thread that has ended.
CleanRecordsPrintedRight ==
    \A i \in DOMAIN out : sent[i].clean => out[i].kind = sent[i].kind

\* "We keep an array as well for each thread we find in order to know how
\* to continue syscalls without being nonsensical" (strace.c:294): every
\* record is printed as what it is.
NeverNonsensical ==
    \A i \in DOMAIN out : out[i].kind = sent[i].kind

\* Of the first n records in s, the i-th is the last about thread t.
LastOf(s, t, n, i) ==
    /\ i \in 1..n
    /\ s[i].tid = t
    /\ \A k \in i + 1..n : s[k].tid # t

NoneOf(s, t, n) == \A k \in 1..n : s[k].tid # t

\* After record r its thread is inside a call that will report a return.
ExpectsReturn(r) == r.kind = "call" /\ r.rax \notin NoReturn

\* A clean record continues the clean records of its thread.
StreamPairs ==
    \A j \in 1..Len(sent) : sent[j].clean =>
        /\ NoneOf(sent, sent[j].tid, j - 1) => sent[j].kind = "call"
        /\ \A i \in 1..j - 1 : LastOf(sent, sent[j].tid, j - 1, i) =>
              /\ sent[i].clean
              /\ sent[j].kind = "ret" <=> ExpectsReturn(sent[i])

\* The last record of a thread that is not torn says what the thread does.
ThreadsPair ==
    \A t \in Threads \ torn : traced =>
        /\ NoneOf(sent, t, Len(sent)) => thr[t] \notin Returning
        /\ \A i \in 1..Len(sent) : LastOf(sent, t, Len(sent), i) =>
              /\ sent[i].clean
              /\ thr[t] \in Returning <=> ExpectsReturn(sent[i])

\* The flag of a thread id says what its last printed record calls for.
FlagsPair ==
    \A t \in Threads :
        /\ NoneOf(sent, t, Len(out)) => is_syscall[t]
        /\ \A i \in 1..Len(out) : LastOf(sent, t, Len(out), i) =>
              (sent[i].clean => (is_syscall[t] <=> ~ExpectsReturn(sent[i])))

\* Why the tracer guesses right, as an inductive invariant: the kernel's
\* state, the records in the pipe and the tracer's flags agree, thread id
\* by thread id, on whether the next record is a call or a return.
Pairing ==
    /\ ~traced => sent = << >>
    /\ pc = "attach" => ~traced
    /\ StreamPairs
    /\ ThreadsPair
    /\ FlagsPair
    /\ CleanRecordsPrintedRight

\* strace ends after its child does, provided that no process the child
\* left behind holds the write end of the pipe.
EndsAfterChild == (~Alive /\ ~bg) ~> (pc \in Gone)

\* While the child runs, the tracer never sleeps on a pipe that holds a
\* record: again and again it reads one or finds the pipe empty.
RecordsGetPrinted ==
    []<>(pc = "read" \/ ~Readable \/ waitable \/ pc = "failed")

\* A record or line as the abstract tracer sees it.
Seen(r, clean) == [tid |-> r.tid, kind |-> IF clean THEN r.kind ELSE "any", rax |-> r.rax]

\* strace implements the abstract tracer: what the kernel writes is what
\* happens, what is printed is what is shown, and a thread is lost once its
\* records no longer pair up.
Promise == INSTANCE SyscallTrace
             WITH history <- [i \in DOMAIN sent |-> Seen(sent[i], sent[i].clean)],
                  shown   <- [i \in DOMAIN out |-> Seen(out[i], sent[i].clean)]

PromiseSpec == Promise!Spec
=============================================================================
