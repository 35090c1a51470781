----------------------------- MODULE MCRunners -----------------------------
(* Small instances of Execmac and Watch for TLC, one beside the other: in a *)
(* behaviour one of the two runs, and the other stays idle.                 *)
(*                                                                          *)
(* Watch: a header of 3 columns, a time of 2.                               *)
EXTENDS Execmac, Watch

\* Two capabilities, of which execmac has one; a word that names neither.
mc_Caps == {"spawn", "mac"}
mc_OwnCaps == {"mac"}
mc_Words == mc_Caps \union {"all", "other"}

\* -1 second, nothing, half a second, 1 and 1.5 seconds.
mc_Intervals == {-2, 0, 1, 2, 3}
\* No terminal, too narrow by 2 and by 1, just wide enough, wide.
mc_Widths == {0, 3, 4, 5, 7}

VARIABLE which   \* the program that runs

runnersVars == <<which, vars, watchVars>>

\* The one that does not run has a fixed command line, and stays where it is.
ExecmacIdle == args = <<>>
WatchIdle == opts = [stop |-> FALSE, exec |-> FALSE, interval |-> 0] /\ width = 0 /\ col = 0

RunnersInit ==
    \/ which = "execmac" /\ Init /\ WatchInit /\ WatchIdle
    \/ which = "watch" /\ Init /\ WatchInit /\ ExecmacIdle

ExecmacRuns == which = "execmac" /\ Next /\ UNCHANGED <<which, watchVars>>
WatchRuns == which = "watch" /\ WatchNext /\ UNCHANGED <<which, vars>>

RunnersNext == ExecmacRuns \/ WatchRuns

\* The fairness of both, FairSpec and WatchFairSpec.
RunnersSpec ==
    /\ RunnersInit /\ [][RunnersNext]_runnersVars
    /\ WF_runnersVars(ExecmacRuns /\ (Options \/ Fork \/ Wait))
    /\ WF_runnersVars(ExecmacRuns /\ (SetCaps \/ Exec))
    /\ WF_runnersVars(WatchRuns /\ Own)

\* In the end an execmac that runs has ended, or waits for its command.
ExecmacEnds == which = "execmac" => EndsWithCommand

\* A watch that runs goes from update to update.
WatchGoesOn == which = "watch" => UpdatesGoOn
=============================================================================
