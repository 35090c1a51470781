---------------------------- MODULE SyscallTrace ----------------------------
(***************************************************************************)
(* What a system call tracer promises, without pipe, tables or processes:  *)
(* each thread of the tracee makes calls and returns from them in turn,    *)
(* and the tracer shows the events one by one, each as what it was, in the *)
(* order in which they happened.  A thread may be lost, for instance       *)
(* because it ends in the middle of a call: nothing is promised of what    *)
(* its further events are, only that they are shown in their place.        *)
(***************************************************************************)
EXTENDS Naturals, Sequences

CONSTANTS
    Threads,   \* thread identifiers of the tracee
    Calls,     \* the system calls
    NoReturn   \* the calls after which their thread reports no return

VARIABLES
    history,   \* the events of the tracee, oldest first
    shown      \* the events the tracer has shown

vars == <<history, shown>>

\* An event of a lost thread is of the kind "any".
Event == [tid : Threads, kind : {"call", "ret", "any"}, rax : Calls]

\* e leaves its thread inside a call whose return is still to be reported.
ExpectsReturn(e) == e.kind = "call" /\ e.rax \notin NoReturn

\* In h, event i is the last of thread t.
LastIs(h, t, i) ==
    i \in DOMAIN h /\ h[i].tid = t /\ \A k \in DOMAIN h : k > i => h[k].tid # t

\* Thread t is inside a call according to the events in h.
Inside(h, t) == \E i \in DOMAIN h : LastIs(h, t, i) /\ ExpectsReturn(h[i])

Lost(h, t) == \E i \in DOMAIN h : LastIs(h, t, i) /\ h[i].kind = "any"

Init == history = << >> /\ shown = << >>

Happen(e) ==
    /\ e.kind # "any" => /\ ~Lost(history, e.tid)
                         /\ e.kind = "ret" <=> Inside(history, e.tid)
    /\ history' = Append(history, e)
    /\ UNCHANGED shown

Show ==
    /\ Len(shown) < Len(history)
    /\ shown' = Append(shown, history[Len(shown) + 1])
    /\ UNCHANGED history

Next == Show \/ \E e \in Event : Happen(e)

Spec == Init /\ [][Next]_vars
=============================================================================
