----------------------------- MODULE WatchProofs -----------------------------
(***************************************************************************)
(* Theorems about Watch, for any interval, any widths of the terminal and  *)
(* of size_t, and any lengths of the header.                               *)
(***************************************************************************)
EXTENDS Watch, TLAPS

-----------------------------------------------------------------------------
(* The arithmetic of lines 110 and 142.                                    *)

\* A difference in size_t that is negative wraps.
LEMMA Wraps ==
    ASSUME NEW m \in Nat, NEW x \in Int, -m <= x, x < 0
    PROVE  x % m = x + m
  OBVIOUS

\* A number that is small enough stays what it is.
LEMMA DoesNotWrap ==
    ASSUME NEW m \in Nat, NEW x \in 0..(m - 1)
    PROVE  x % m = x
  OBVIOUS

USE IntervalsAssumption, CodesAssumption, LengthsAssumption

\* A header that fits leaves a room; on a narrower terminal there is nearly
\* all of size_t.
LEMMA RoomLeft ==
    ASSUME NEW c \in Widths
    PROVE  LET r == (c - HeaderLen - TimeLen) % Modulus
           IN  /\ r \in 0..(Modulus - 1)
               /\ HeaderLen + TimeLen <= c => r = c - HeaderLen - TimeLen
               /\ HeaderLen + TimeLen > c => r = c - HeaderLen - TimeLen + Modulus
<1>1. c \in Nat /\ c < Modulus
  OBVIOUS
<1> DEFINE x == c - HeaderLen - TimeLen
<1>2. x \in Int /\ x < Modulus /\ -Modulus <= x
  BY <1>1
<1>3. CASE HeaderLen + TimeLen <= c
  <2>1. x \in 0..(Modulus - 1)
    BY <1>1, <1>3
  <2> QED BY <1>3, <2>1, DoesNotWrap
<1>4. CASE HeaderLen + TimeLen > c
  <2>1. x < 0
    BY <1>1, <1>4
  <2>2. x % Modulus = x + Modulus
    BY <1>2, <2>1, Wraps
  <2> QED BY <1>2, <1>4, <2>1, <2>2
<1> QED BY <1>1, <1>3, <1>4

\* A pause is what is left of the interval in whole seconds.
LEMMA PauseLength ==
    ASSUME opts.interval \in Int
    PROVE  /\ Pause \in Nat
           /\ opts.interval < 0 => Pause = 0
           /\ opts.interval >= 0 => Pause <= opts.interval /\ opts.interval < Pause + 2
<1>1. ASSUME NEW x \in Nat
      PROVE  2 * (x \div 2) \in Nat /\ 2 * (x \div 2) <= x /\ x < 2 * (x \div 2) + 2
  OBVIOUS
<1> QED BY <1>1 DEF Pause

-----------------------------------------------------------------------------

\* While the spaces are printed, the columns are counted exactly, except
\* where the loop never ends; afterwards the line is as wide as it should be
\* if the header fits.
Padding ==
    /\ step = "pad" =>
          /\ column <= 2 * Modulus
          /\ Room # Modulus - 1 => i <= Room + 1 /\ column = HeaderLen + i
    /\ HeaderFillsLine

\* A command runs only while watch waits for it; after one that failed, -e
\* leads to the end; and once a command has been tried, there has been a whole
\* pause since it wherever the way to the next one leads through.
Commanding ==
    /\ command = "none" /\ opts.stop /\ wstatus.code # 0 => step \in {"wait", "check", "ended"}
    /\ step \in {"options", "header", "pad", "spawn"} => slept \in {NoCommand, Pause}

Inv == WatchTypeOK /\ Padding /\ Commanding

\* At first nothing is printed.
LEMMA InitInv == WatchInit => Inv
<1> SUFFICES ASSUME WatchInit PROVE Inv
  OBVIOUS
<1>1. WatchTypeOK
  BY DEF WatchInit, WatchTypeOK, NoPause, NoCommand
<1>2. Padding
  BY DEF WatchInit, Padding, HeaderFillsLine
<1>3. Commanding
  BY DEF WatchInit, Commanding
<1> QED BY <1>1, <1>2, <1>3 DEF Inv

\* Each step, and none, keeps it.
LEMMA StepInv == Inv /\ [WatchNext]_watchVars => Inv'
<1> SUFFICES ASSUME Inv, [WatchNext]_watchVars PROVE Inv'
  OBVIOUS
<1> USE DEF Inv, WatchTypeOK
<1>a. /\ Room \in 0..(Modulus - 1)
      /\ HeaderLen + TimeLen <= col => Room = col - HeaderLen - TimeLen
      /\ HeaderLen + TimeLen > col => Room = col - HeaderLen - TimeLen + Modulus
  BY RoomLeft DEF Room
<1>b. Pause \in Nat
  BY PauseLength
<1>1. CASE Start
  BY <1>1 DEF Start, End, headerVars, Padding, Commanding, HeaderFillsLine, Pause
<1>2. CASE Header
  <2>1. WatchTypeOK'
    BY <1>2 DEF Header
  <2>2. Room' \in 0..(Modulus - 1)
    BY <2>1, RoomLeft DEF Room
  <2>3. step' = "pad" /\ i' = 0 /\ column' = HeaderLen
    BY <1>2 DEF Header
  <2>4. column' <= 2 * Modulus /\ i' <= Room' + 1 /\ column' = HeaderLen + i'
    <3>1. HeaderLen \in Nat /\ HeaderLen <= 2 * Modulus /\ HeaderLen + 0 = HeaderLen
      OBVIOUS
    <3>2. \A r \in 0..(Modulus - 1) : 0 <= r + 1
      OBVIOUS
    <3>3. i' <= Room' + 1
      BY <2>2, <2>3, <3>2
    <3> QED BY <2>3, <3>1, <3>3
  <2>5. Padding'
    BY <2>3, <2>4 DEF Padding, HeaderFillsLine
  <2>6. Commanding'
    BY <1>2 DEF Header, Commanding, Pause
  <2> QED BY <2>1, <2>5, <2>6
<1>3. CASE Pad
  <2>1. CASE MorePads
    <3>1. i <= Room /\ i' = (i + 1) % Modulus /\ step' = "pad" /\ Room' = Room
          /\ column' = (IF column < 2 * Modulus THEN column + 1 ELSE column)
          /\ UNCHANGED <<opts, result, width, col, command, wstatus, slept>> /\ step = "pad"
      BY <1>3, <2>1 DEF Pad, MorePads, Room
    <3>2. (i + 1) % Modulus = IF i + 1 = Modulus THEN 0 ELSE i + 1
      OBVIOUS
    <3>3. WatchTypeOK'
      BY <3>1, <3>2
    <3>4. Padding'
      BY <3>1, <3>2, <1>a DEF Padding, HeaderFillsLine
    <3> QED BY <3>1, <3>3, <3>4 DEF Commanding, Pause
  <2>2. CASE ~MorePads
    <3>1. i > Room /\ step' = "spawn" /\ column' = column + TimeLen - 1 /\ step = "pad"
          /\ UNCHANGED <<i, opts, result, width, col, command, wstatus, slept>>
      BY <1>3, <1>a, <2>2 DEF Pad, MorePads
    <3>2. i = Room + 1 /\ column = HeaderLen + i
      BY <3>1, <1>a DEF Padding
    <3>3. WatchTypeOK'
      BY <3>1, <3>2
    <3>4. column' = col <=> HeaderLen + TimeLen <= col
      BY <3>1, <3>2, <1>a
    <3>5. Padding'
      BY <3>1, <3>4 DEF Padding, HeaderFillsLine
    <3> QED BY <3>1, <3>3, <3>5 DEF Commanding, Pause
  <2> QED BY <2>1, <2>2
<1>4. CASE Spawn
  BY <1>4 DEF Spawn, End, NoPause, headerVars, Status, Padding, Commanding, HeaderFillsLine, Pause
<1>5. CASE CommandEnds
  BY <1>5 DEF CommandEnds, headerVars, Status, Padding, Commanding, HeaderFillsLine, Pause
<1>6. CASE Await
  BY <1>6 DEF Await, Waited, headerVars, Padding, Commanding, HeaderFillsLine, Pause
<1>7. CASE Check
  BY <1>7 DEF Check, Stops, Onward, Failed, End, headerVars, Padding, Commanding, HeaderFillsLine, Pause
<1>8. CASE Sleep
  BY <1>8, <1>b DEF Sleep, headerVars, Padding, Commanding, HeaderFillsLine, Pause
<1>9. CASE Resize
  BY <1>9 DEF Resize, headerVars, Padding, Commanding, HeaderFillsLine, Pause, Room
<1>10. CASE UNCHANGED watchVars
  BY <1>10 DEF watchVars, Padding, Commanding, HeaderFillsLine, Pause, Room
<1> QED BY <1>1, <1>2, <1>3, <1>4, <1>5, <1>6, <1>7, <1>8, <1>9, <1>10 DEF WatchNext, Own

\* So it always holds.
LEMMA InvHolds == WatchSpec => []Inv
  BY InitInv, StepInv, PTL DEF WatchSpec

-----------------------------------------------------------------------------

\* Every variable of Watch stays in its range, whatever the terminal does.
THEOREM TypeCorrect == WatchSpec => []WatchTypeOK
<1>1. Inv => WatchTypeOK
  BY DEF Inv
<1> QED BY <1>1, InvHolds, PTL

\* The header line is as wide as the terminal exactly when text and time fit
\* into it (watch.c:100-113), for every width of size_t.
THEOREM HeaderFits == WatchSpec => []HeaderFillsLine
<1>1. Inv => HeaderFillsLine
  BY DEF Inv, Padding
<1> QED BY <1>1, InvHolds, PTL

\* With -e no command is started after one that exited with an error
\* (watch.c:136).
THEOREM StopsOnFailure == WatchSpec => StopsAfterFailure
<1>1. Inv /\ [WatchNext]_watchVars
      => [command = "none" /\ command' = "running"
          => ~(opts.stop /\ wstatus.how = "exited" /\ wstatus.code # 0)]_watchVars
  <2> SUFFICES ASSUME Inv, WatchNext, command = "none", command' = "running"
               PROVE  ~(opts.stop /\ wstatus.code # 0)
    OBVIOUS
  <2>1. Spawn
    BY DEF WatchNext, Own, Start, Header, Pad, Await, Check, Sleep, CommandEnds, Resize
  <2> QED BY <2>1 DEF Spawn, Inv, Commanding
<1> QED BY <1>1, InvHolds, PTL DEF WatchSpec, StopsAfterFailure

\* However a command ended, and whether it could be started at all, the next one
\* comes after it and after the pause that is due (watch.c:115-144).
THEOREM CommandsKeepApart == WatchSpec => CommandsApart
<1> DEFINE Apart == step = "spawn" /\ step' # "spawn" =>
               command = "none" /\ (slept = NoCommand \/ PauseDue)
<1>1. Inv => [Apart]_watchVars
  <2> SUFFICES ASSUME Inv, step = "spawn"
               PROVE  command = "none" /\ (slept = NoCommand \/ PauseDue)
    OBVIOUS
  <2>1. command = "none" /\ slept \in {NoCommand, Pause} /\ opts.interval \in Int
    BY DEF Inv, WatchTypeOK, Commanding
  <2> QED BY <2>1, PauseLength DEF PauseDue
<1> QED BY <1>1, InvHolds, PTL DEF CommandsApart
=============================================================================
