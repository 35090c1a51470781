------------------------------- MODULE Watch -------------------------------
(***************************************************************************)
(* src/src/watch.c: run a command again and again, under a header as wide  *)
(* as the terminal.                                                        *)
(*                                                                         *)
(* External: the terminal, which may change its width at any time and may  *)
(* be no terminal at all, and the command, which exits, is killed or runs  *)
(* for ever.  What is printed is abstracted to its length in columns, an   *)
(* interval to half seconds.                                               *)
(*                                                                         *)
(* What every specification has begins with Watch here, and pc, exit and   *)
(* child are step, result and command, so that a module can extend this    *)
(* one together with another.                                              *)
(***************************************************************************)
EXTENDS Integers

CONSTANTS
    Intervals,  \* what -n may say, in half seconds
    Codes,      \* the statuses with which the command may exit
    Widths,     \* the widths of terminals
    HeaderLen,  \* headerlen
    TimeLen,    \* timelen: the time and its newline
    Modulus     \* bound: size_t has the values 0..Modulus - 1

ASSUME IntervalsAssumption == Intervals \subseteq Int
ASSUME CodesAssumption == Codes \subseteq Nat
ASSUME LengthsAssumption ==
    /\ HeaderLen \in Nat /\ TimeLen \in Nat \ {0}
    /\ Modulus \in Nat /\ HeaderLen + TimeLen < Modulus
    /\ Widths \subseteq 0..(Modulus - 1)

VARIABLES
    opts,      \* the options: stop_on_fail, do_exec, seconds_for_update
    step,      \* where watch is: its pc
    result,    \* its exit status, once it has ended
    width,     \* the width of the terminal
    col,       \* w.ws_col
    i,         \* the counter of line 110
    column,    \* the columns printed of the header line
    command,   \* the command: "none" or "running"
    wstatus,   \* what the last command left
    slept      \* history: how long watch has paused since the last command, in half
               \* seconds, or that it has not

watchVars == <<opts, step, result, width, col, i, column, command, wstatus, slept>>
headerVars == <<col, i, column>>

Status == [how : {"exited"}, code : Codes \union {127, 255}]
          \union [how : {"killed"}, code : {0}]

\* No pause since the last command; no command yet.
NoPause == -1
NoCommand == -2

End(status) == step' = "ended" /\ result' = status

-----------------------------------------------------------------------------

\* An interval of 0 is refused; so is everything that is no number.
Start ==
    /\ step = "options"
    /\ IF opts.interval = 0 THEN End(1) ELSE step' = "header" /\ UNCHANGED result
    /\ UNCHANGED <<opts, width, headerVars, command, wstatus, slept>>

\* The ioctl() leaves w alone when it fails, which nobody looks at.
Header ==
    /\ step = "header"
    /\ col' \in {width, col}
    /\ i' = 0
    /\ column' = HeaderLen
    /\ step' = "pad"
    /\ UNCHANGED <<opts, result, width, command, wstatus, slept>>

\* Line 110 subtracts in size_t.
Room == (col - HeaderLen - TimeLen) % Modulus
MorePads_strict == i < Room
MorePads == i <= Room

Pad ==
    /\ step = "pad"
    /\ IF MorePads
       THEN /\ i' = (i + 1) % Modulus
            /\ column' = IF column < 2 * Modulus THEN column + 1 ELSE column
            /\ UNCHANGED step
       ELSE /\ column' = column + TimeLen - 1
            /\ step' = "spawn"
            /\ UNCHANGED i
    /\ UNCHANGED <<opts, result, width, col, command, wstatus, slept>>

\* A SYSCALL_SPAWN that fails ends watch; a system() that cannot fork gives
\* -1, one that finds no shell gives 127.
Spawn ==
    /\ step = "spawn"
    /\ slept' = NoPause
    /\ \/ command' = "running" /\ step' = "wait" /\ UNCHANGED <<result, wstatus>>
       \/ opts.exec /\ End(1) /\ UNCHANGED <<command, wstatus>>
       \/ /\ ~opts.exec
          /\ \E code \in {127, 255} : wstatus' = [how |-> "exited", code |-> code]
          /\ step' = "check"
          /\ UNCHANGED <<result, command>>
    /\ UNCHANGED <<opts, width, headerVars>>

\* waitpid(), or the one within system(), returns once the command has ended.
CommandEnds ==
    /\ command = "running"
    /\ command' = "none"
    /\ wstatus' \in Status
    /\ UNCHANGED <<opts, step, result, width, headerVars, slept>>

Waited_not == TRUE
Waited == command = "none"

Await ==
    /\ step = "wait"
    /\ Waited
    /\ step' = "check"
    /\ UNCHANGED <<opts, result, width, headerVars, command, wstatus, slept>>

\* WEXITSTATUS() is 0 for a command that was killed.
Failed_over1 == wstatus.code > 1
Failed == wstatus.code # 0

Stops_either == Failed \/ opts.stop
Stops == Failed /\ opts.stop

\* Where a watch that does not stop goes on.
Onward_skips == IF Failed THEN "header" ELSE "sleep"
Onward == "sleep"

Check ==
    /\ step = "check"
    /\ IF Stops THEN End(0) ELSE step' = Onward /\ UNCHANGED result
    /\ UNCHANGED <<opts, width, headerVars, command, wstatus, slept>>

\* tv_sec is the interval cut to whole seconds; tv_nsec divides by 1000000
\* where it should multiply, so nothing is left of the fraction.  A negative
\* tv_sec is refused, and the pause is none.
Pause == IF opts.interval < 0 THEN 0 ELSE 2 * (opts.interval \div 2)

Sleep ==
    /\ step = "sleep"
    /\ slept' = Pause
    /\ step' = "header"
    /\ UNCHANGED <<opts, result, width, headerVars, command, wstatus>>

Resize ==
    /\ width' \in Widths
    /\ UNCHANGED <<opts, step, result, headerVars, command, wstatus, slept>>

-----------------------------------------------------------------------------

\* w is not initialised.
WatchInit ==
    /\ opts \in [stop : BOOLEAN, exec : BOOLEAN, interval : Intervals]
    /\ step = "options"
    /\ result = 0
    /\ width \in Widths
    /\ col \in Widths
    /\ i = 0
    /\ column = 0
    /\ command = "none"
    /\ wstatus = [how |-> "exited", code |-> 0]
    /\ slept = NoCommand

Own == Start \/ Header \/ Pad \/ Spawn \/ Await \/ Check \/ Sleep

WatchNext == Own \/ CommandEnds \/ Resize

WatchSpec == WatchInit /\ [][WatchNext]_watchVars

\* watch is scheduled; the command need not end.
WatchFairSpec == WatchSpec /\ WF_watchVars(Own)

-----------------------------------------------------------------------------

\* The type invariant.  A command runs only while watch waits for it.
WatchTypeOK ==
    /\ opts \in [stop : BOOLEAN, exec : BOOLEAN, interval : Intervals]
    /\ step \in {"options", "header", "pad", "spawn", "wait", "check", "sleep", "ended"}
    /\ result \in {0, 1}
    /\ width \in Widths /\ col \in Widths
    /\ i \in 0..(Modulus - 1)
    /\ column \in 0..(3 * Modulus)
    /\ command \in {"none", "running"}
    /\ wstatus \in Status \union {[how |-> "exited", code |-> 0]}
    /\ slept \in Nat \union {NoPause, NoCommand}
    /\ command = "running" => step = "wait"

\* The header line is as wide as the terminal was found to be, exactly when
\* text and time fit into it: on a narrower one line 110 wraps.
HeaderFillsLine ==
    step = "spawn" => (column = col <=> HeaderLen + TimeLen <= col)

\* With -e no command is started after one that exited with an error.
StopsAfterFailure ==
    [][command = "none" /\ command' = "running"
       => ~(opts.stop /\ wstatus.how = "exited" /\ wstatus.code # 0)]_watchVars

\* The pause that lies between two commands: the whole seconds in what -n says,
\* never more than that and never less by a second, and none when it is negative.
PauseDue ==
    IF opts.interval < 0 THEN slept = 0
    ELSE slept >= 0 /\ slept <= opts.interval /\ opts.interval < slept + 2

\* No command is tried while another runs, and none but the first without that
\* pause since the last one: however that ended, whether it could be started,
\* and whatever was printed in between.
CommandsApart ==
    [][step = "spawn" /\ step' # "spawn" =>
        command = "none" /\ (slept = NoCommand \/ PauseDue)]_watchVars

\* watch.c:52 "-n <secs> Time to wait between updates, 2.0 by default".
\* (Violated: line 142 leaves nothing of a fraction of a second.)
PausesAsAsked ==
    [][step = "spawn" /\ step' # "spawn" /\ opts.interval > 0 =>
        slept \in {NoCommand, opts.interval}]_watchVars

\* On terminals that are wide enough, and with commands that end, watch goes
\* from update to update, unless it ends: by -e, or because it was called
\* wrongly or cannot spawn.
UpdatesGoOn ==
    [](step = "pad" => HeaderLen + TimeLen <= col) /\ []<>(command = "none")
    => <>(step = "ended" /\ (opts.stop \/ result = 1)) \/ []<>(step = "sleep")
=============================================================================
