------------------------------- MODULE Powerd -------------------------------
(***************************************************************************)
(* src/src/powerd.c: wait for the power and the sleep button, and run a    *)
(* command for the one that was pressed.                                   *)
(*                                                                         *)
(* External: the buttons, which are ready from the time they are pressed   *)
(* and, since powerd never reads them, for as long as they like; poll(),   *)
(* which may fail and then leaves revents alone; and the commands, of      *)
(* which nothing is known but that they end.                               *)
(*                                                                         *)
(* What every specification has begins with Pd here, so that a module can  *)
(* extend this one together with another.                                  *)
(***************************************************************************)
EXTENDS Naturals, Sequences

Buttons == {"power", "sleep"}

\* What an entry of polled may refer to: a button, or, as long as nobody has
\* set it, a descriptor that is always ready or one that never is.
Descriptors == Buttons \union {"always", "never"}

VARIABLES
    at,        \* where powerd is: its pc
    present,   \* the buttons that could be opened
    pressed,   \* the buttons that are ready
    polled,    \* the entries that are polled, with the revents of each
    i,         \* the entry that is looked at
    answered,  \* whether poll() has ever succeeded
    seen,      \* the buttons that were ready when it last did
    command    \* the command that runs

pdVars == <<at, present, pressed, polled, i, answered, seen, command>>

\* An entry nobody has set: any descriptor, waiting for input or not.
Garbage == [fd : Descriptors, in : BOOLEAN, ready : BOOLEAN]
Entry(b) == {[fd |-> b, in |-> TRUE, ready |-> r] : r \in BOOLEAN}

\* idx grows with the power button and not with the sleep button, and idx + 1
\* entries are polled: one too many when there is only the power button.
Polled_idx(buttons) ==
    IF "power" \in buttons THEN {<<p>> : p \in Entry("power")} ELSE {<<p>> : p \in Entry("sleep")}
Polled_counted(buttons) ==
    CASE buttons = Buttons   -> Entry("power") \X Entry("sleep") \X Garbage
      [] buttons = {"power"} -> Entry("power") \X Garbage
      [] OTHER               -> Entry("sleep") \X Garbage
Polled(buttons) ==
    CASE buttons = Buttons   -> Entry("power") \X Entry("sleep")
      [] buttons = {"power"} -> Entry("power") \X Garbage
      [] OTHER               -> {<<s>> : s \in Entry("sleep")}

-----------------------------------------------------------------------------

Press ==
    /\ \E b \in present \ pressed : pressed' = pressed \union {b}
    /\ UNCHANGED <<at, present, polled, i, answered, seen, command>>

Release ==
    /\ \E b \in pressed : pressed' = pressed \ {b}
    /\ UNCHANGED <<at, present, polled, i, answered, seen, command>>

\* Without a button there is nothing to do, and daemon() may fail.
Daemonize ==
    /\ at = "start"
    /\ at' \in IF present = {} THEN {"ended"} ELSE {"poll", "ended"}
    /\ UNCHANGED <<present, pressed, polled, i, answered, seen, command>>

Ready(e) == e.in /\ (e.fd = "always" \/ e.fd \in pressed)

\* The timeout, of INT_MAX milliseconds, may run out as well.
PollOk ==
    /\ at = "poll"
    /\ polled' = [k \in DOMAIN polled |-> [polled[k] EXCEPT !.ready = Ready(polled[k])]]
    /\ answered' = TRUE
    /\ seen' = pressed
    /\ i' = 1
    /\ at' = "look"
    /\ UNCHANGED <<present, pressed, command>>

\* Nobody looks at the result of poll().
PollFails ==
    /\ at = "poll"
    /\ i' = 1
    /\ at' = "look"
    /\ UNCHANGED <<present, pressed, polled, answered, seen, command>>

\* What is not the power button is taken for the sleep button.
CommandOf_position == IF i = 1 THEN "shutdown" ELSE "reboot"
CommandOf == IF polled[i].fd = "power" THEN "shutdown" ELSE "reboot"

Past == i > Len(polled)

Look ==
    /\ at = "look"
    /\ IF Past
       THEN at' = "poll" /\ UNCHANGED <<i, command>>
       ELSE IF polled[i].ready
            THEN at' = "system" /\ command' = CommandOf /\ UNCHANGED i
            ELSE i' = i + 1 /\ UNCHANGED <<at, command>>
    /\ UNCHANGED <<present, pressed, polled, answered, seen>>

\* system() returns, when the command has ended or because it could not be
\* started.
Return ==
    /\ at = "system"
    /\ command' = "none"
    /\ i' = i + 1
    /\ at' = "look"
    /\ UNCHANGED <<present, pressed, polled, answered, seen>>

-----------------------------------------------------------------------------

PdInit ==
    /\ at = "start"
    /\ pressed = {}
    /\ present \in SUBSET Buttons
    /\ polled \in Polled(present)
    /\ i = 1
    /\ answered = FALSE
    /\ seen = {}
    /\ command = "none"

Own == Daemonize \/ PollOk \/ PollFails \/ Look \/ Return

PdNext == Own \/ Press \/ Release

PdSpec == PdInit /\ [][PdNext]_pdVars

\* powerd is scheduled, its commands end, and poll() does not fail for ever.
PdFairSpec == PdSpec /\ WF_pdVars(Own) /\ SF_pdVars(PollOk)

-----------------------------------------------------------------------------

\* The type invariant.
PdTypeOK ==
    /\ at \in {"start", "poll", "look", "system", "ended"}
    /\ present \subseteq Buttons /\ pressed \subseteq present
    /\ polled \in Seq(Garbage) /\ Len(polled) <= 2
    /\ i \in 1..3
    /\ answered \in BOOLEAN /\ seen \subseteq present
    /\ command \in {"none", "shutdown", "reboot"}
    /\ (command # "none") <=> (at = "system")

CommandFor(b) == IF b = "power" THEN "shutdown" ELSE "reboot"

\* A command that runs is that of a button which was ready when poll() last
\* succeeded, also when poll() has failed since: unless it never succeeded,
\* or the power button is the only one and an entry that was never set is
\* polled beside it.
CommandsAnswerButtons ==
    command # "none" /\ answered /\ present # {"power"} =>
        \E b \in seen : command = CommandFor(b)

\* A button that is held is answered, and again and again: by its own
\* command, and whatever the other button does meanwhile.
HeldButtonsAnswered ==
    \A b \in Buttons :
        <>[](b \in pressed) => <>(at = "ended") \/ []<>(command = CommandFor(b))
=============================================================================
