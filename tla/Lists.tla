-------------------------------- MODULE Lists --------------------------------
(***************************************************************************)
(* The programs that list a table of the kernel's while it changes.  Most  *)
(* ask for the table as a whole and print the answer: src/src/ps.c (of     *)
(* processes, threads and clusters), lspci.c (devices), ifconfig.c         *)
(* (interfaces), ipcs.c (locks) and mount.c without arguments (mounts).    *)
(* The others ask for one thing after the other: ipcs.c (segments) and     *)
(* blkid.c (uuids: what it finds in /dev, or paths: what it is told).      *)
(* ipcs without options lists its segments and then its locks.             *)
(*                                                                         *)
(* External: the kernel, which fills as much of a buffer as there is and   *)
(* answers with the number of all entries, or refuses; and everybody who   *)
(* changes the table.  Columns, and the formats of ps -o, are left out,    *)
(* and so are -h and -v.                                                   *)
(***************************************************************************)
EXTENDS KernelTable, Sequences, SequencesExt

CONSTANTS
    Room,        \* the entries there is room for: 50, 20, 10 or 5 in the code
    Mine,        \* the things of the user who calls ps
    Exited,      \* those that have the flag PROC_EXITED
    Unreadable,  \* those that cannot be opened, or looked at by shmctl()
    Unnamed,     \* the devices that do not know DEV_UUID
    ZeroNamed,   \* the devices whose UUID is zero
    Files,       \* the descriptors a process may have open besides the first three
    InitTables,  \* the tables there may be at first
    MaxChanges   \* bound: how often the table changes

ASSUME RoomAssumption == Room \in Nat
ASSUME FilesAssumption == Files \in Nat \ {0}
ASSUME MaxChangesAssumption == MaxChanges \in Nat
ASSUME InitTablesAssumption == InitTables \subseteq Tables

WholeKinds == {"processes", "threads", "clusters", "mounts", "devices", "interfaces", "locks"}
ScanKinds == {"segments", "uuids", "paths"}
Kinds == WholeKinds \union ScanKinds

\* The options of ps (the other programs have none that change what is
\* listed): -A, -r, and the number of -p, 0 when there is none or it is no
\* number; and whether there is an option the program does not know.
Options == [unknown : BOOLEAN, all : BOOLEAN, running : BOOLEAN, only : 0..(Highest + 1)]

VARIABLES
    table, changes,
    kind,    \* what is listed
    opts,    \* the options
    pc,      \* where the program is
    exit,    \* its exit status, once it has ended
    answer,  \* the whole table when the kernel last answered; its length is ret
    room,    \* the entries the buffer has room for
    i,       \* the counter of the loop
    shown,   \* the lines that were printed
    spoilt,  \* whether memory behind the buffer was read and printed
    files,   \* the descriptors that are open
    held     \* what each number has stood for since the program began to look

vars == <<table, changes, kind, opts, pc, exit, answer, room, i, shown, spoilt, files, held>>
kernelVars == <<table, changes>>
outVars == <<shown, spoilt>>

\* The kernel's answer, in the kernel's order.
Listing == SetToSeq(Present(table))

End(status) == pc' = "ended" /\ exit' = status

BeginToLook == held' = [n \in Numbers |-> {table[n]}]

Line(entry, name) == [id |-> entry.id, thing |-> entry.thing, name |-> name]

-----------------------------------------------------------------------------

\* Processes begin, end and get their numbers again, devices are unplugged.
Change ==
    /\ pc \notin {"ended", "killed"}
    /\ changes < MaxChanges
    /\ \E n \in Numbers, t \in Things \union {None} :
        /\ table' = [table EXCEPT ![n] = t]
        /\ held' = [held EXCEPT ![n] = @ \union {t}]
    /\ changes' = changes + 1
    /\ UNCHANGED <<kind, opts, pc, exit, answer, room, i, outVars, files>>

\* blkid passes over options it does not know; its directory is a descriptor.
Start ==
    /\ pc = "options"
    /\ \/ /\ opts.unknown => kind \in {"uuids", "paths"}
          /\ pc' = IF kind \in ScanKinds THEN "scan" ELSE "ask"
          /\ files' = IF kind = "uuids" THEN 1 ELSE 0
          /\ UNCHANGED exit
       \/ /\ kind = "uuids" \/ (opts.unknown /\ kind # "paths")
          /\ End(1)
          /\ UNCHANGED files
    /\ BeginToLook
    /\ UNCHANGED <<kernelVars, kind, opts, answer, room, i, outVars>>

-----------------------------------------------------------------------------
(* The table as a whole.                                                   *)

\* Which answers are taken for an error: of ps and mount one that does not fit,
\* of lspci an empty one.  ifconfig and ipcs compare nothing with the room
\* there is.
TooMany_unchecked(n) == kind = "mounts" /\ n > Room
TooMany(n) == kind \in {"processes", "threads", "clusters", "mounts"} /\ n > Room
NoDevices(n) == kind = "devices" /\ n = 0
Refused(n) == TooMany(n) \/ NoDevices(n)

\* Takes an answer into a buffer of a given room.
Take(entries) ==
    /\ answer' = Listing
    /\ room' = entries
    /\ BeginToLook

Ask ==
    /\ pc = "ask"
    /\ \/ /\ ~Refused(Len(Listing))
          /\ Take(Room)
          /\ pc' = IF kind = "devices" /\ Len(Listing) > Room THEN "again" ELSE "print"
          /\ UNCHANGED exit
       \/ End(1) /\ UNCHANGED <<answer, room, held>>
    /\ UNCHANGED <<kernelVars, kind, opts, i, outVars, files>>

\* lspci asks once more, with room for as many as there were; what it is
\* answered now is not compared with that.
AskAgain ==
    /\ pc = "again"
    /\ \/ /\ ~Refused(Len(Listing))
          /\ Take(Len(answer))
          /\ pc' = "print"
          /\ UNCHANGED exit
       \/ End(1) /\ UNCHANGED <<answer, room, held>>
    /\ UNCHANGED <<kernelVars, kind, opts, i, outVars, files>>

\* -p counts more than -A and -r, and -r also counts with -A.
Wanted(entry) ==
    kind = "processes" =>
        IF opts.only # 0
        THEN entry.id = opts.only
        ELSE (opts.all \/ entry.thing \in Mine) /\ (opts.running => entry.thing \notin Exited)

\* The name of a thread is asked for when its line is printed; it is blank
\* when the thread is gone or the kernel refuses.
NamesOf_kept(entry) ==
    IF kind # "threads" THEN {entry.thing}
    ELSE IF table[entry.id] = None /\ shown # <<>> THEN {shown[Len(shown)].name}
    ELSE {table[entry.id], None}
NamesOf(entry) == IF kind = "threads" THEN {table[entry.id], None} ELSE {entry.thing}

\* Where the loop goes on: with -p it ends at the number that was asked for.
After_first(entry) == IF opts.only # 0 THEN Len(answer) + 1 ELSE i + 1
After(entry) == IF Wanted(entry) /\ opts.only # 0 THEN Len(answer) + 1 ELSE i + 1

PrintLine ==
    /\ pc = "print" /\ i <= Len(answer) /\ i <= room
    /\ LET entry == answer[i]
       IN  /\ IF Wanted(entry)
              THEN \E name \in NamesOf(entry) : shown' = Append(shown, Line(entry, name))
              ELSE UNCHANGED shown
           /\ i' = After(entry)
    /\ UNCHANGED <<kernelVars, kind, opts, pc, exit, answer, room, spoilt, files, held>>

\* Behind the buffer there may be anything, or nothing that can be read.
PrintBeyond ==
    /\ pc = "print" /\ i <= Len(answer) /\ i > room
    /\ pc' \in {"print", "killed"}
    /\ spoilt' = TRUE
    /\ i' = i + 1
    /\ UNCHANGED <<kernelVars, kind, opts, exit, answer, room, shown, files, held>>

EndOfTable ==
    /\ pc = "print" /\ i > Len(answer)
    /\ End(0)
    /\ UNCHANGED <<kernelVars, kind, opts, answer, room, i, outVars, files, held>>

-----------------------------------------------------------------------------
(* One thing after the other.                                              *)

PrintThing == shown' = Append(shown, Line([id |-> i, thing |-> table[i]], table[i]))

Readable == table[i] \notin Unreadable \union {None}

ScanEnd_early == Highest - 1
ScanEnd == Highest

Segment ==
    /\ kind = "segments" /\ pc = "scan" /\ i <= ScanEnd
    /\ IF Readable THEN PrintThing ELSE UNCHANGED shown
    /\ i' = i + 1
    /\ UNCHANGED <<kernelVars, kind, opts, pc, exit, answer, room, spoilt, files, held>>

\* readdir() finds the next name there is.
NextInFolder == {n \in i..Highest : table[n] # None /\ \A m \in i..(n - 1) : table[m] = None}

ReadFolder ==
    /\ kind = "uuids" /\ pc = "scan"
    /\ i' \in NextInFolder
    /\ pc' = "query"
    /\ UNCHANGED <<kernelVars, kind, opts, exit, answer, room, outVars, files, held>>

NextPath ==
    /\ kind = "paths" /\ pc = "scan" /\ i <= Highest
    /\ pc' = "query"
    /\ UNCHANGED <<kernelVars, kind, opts, exit, answer, room, i, outVars, files, held>>

Opened == Readable /\ files < Files

\* A device that does not know DEV_UUID is not closed.
Unclosed_any == ~Opened \/ table[i] \in Unnamed
Unclosed == Opened /\ table[i] \in Unnamed

Query ==
    /\ pc = "query"
    /\ files' = IF Unclosed THEN files + 1 ELSE files
    /\ IF Opened /\ table[i] \notin Unnamed \union ZeroNamed
       THEN PrintThing ELSE UNCHANGED shown
    /\ i' = i + 1
    /\ pc' = "scan"
    /\ UNCHANGED <<kernelVars, kind, opts, exit, answer, room, spoilt, held>>

EndOfScan ==
    /\ pc = "scan"
    /\ IF kind = "uuids" THEN NextInFolder = {} ELSE i > ScanEnd
    /\ End(0)
    /\ UNCHANGED <<kernelVars, kind, opts, answer, room, i, outVars, files, held>>

-----------------------------------------------------------------------------

Init ==
    /\ table \in InitTables
    /\ changes = 0
    /\ kind \in Kinds
    /\ opts \in Options
    /\ kind # "processes" => ~opts.all /\ ~opts.running /\ opts.only = 0
    /\ pc = "options"
    /\ exit = 0
    /\ answer = <<>>
    /\ room = 0
    /\ i = 1
    /\ shown = <<>>
    /\ spoilt = FALSE
    /\ files = 0
    /\ held = [n \in Numbers |-> {}]

Whole == Ask \/ AskAgain \/ PrintLine \/ PrintBeyond \/ EndOfTable
Scan == Segment \/ ReadFolder \/ NextPath \/ Query \/ EndOfScan

Next == Start \/ Whole \/ Scan \/ Change

Spec == Init /\ [][Next]_vars
-----------------------------------------------------------------------------

\* The type invariant.
TypeOK ==
    /\ table \in Tables /\ changes \in 0..MaxChanges
    /\ kind \in Kinds /\ opts \in Options
    /\ pc \in {"options", "ask", "again", "print", "scan", "query", "ended", "killed"}
    /\ exit \in {0, 1}
    /\ answer \in Seq(Entry) /\ Len(answer) <= Highest
    /\ room \in Nat /\ i \in 1..(Highest + 1)
    /\ shown \in Seq([id : Numbers, thing : Things, name : Things \union {None}])
    /\ spoilt \in BOOLEAN
    /\ files \in 0..Files
    /\ held \in [Numbers -> SUBSET (Things \union {None})]

\* What ps is to print by its usage text (ps.c:99, 102 and 103): -A "regardless
\* of user and filters", -r "running ones only", -p "only [...] the passed PID",
\* and otherwise the processes of the user.
UsageWants(entry) ==
    kind = "processes" =>
        CASE opts.all -> TRUE
          [] ~opts.all /\ opts.running -> entry.thing \in Mine \ Exited
          [] ~opts.all /\ ~opts.running /\ opts.only # 0 -> entry.id = opts.only
          [] OTHER -> entry.thing \in Mine

\* A command line that has no more than one of the three.
Clear ==
    \/ ~opts.all /\ ~opts.running
    \/ opts.only = 0 /\ ~(opts.all /\ opts.running)

Promising == kind \in WholeKinds /\ Clear

\* ps and mount compare the answer with the room there is.
ComparesAnswer == kind \in {"processes", "threads", "clusters", "mounts"}

\* What is listed as a whole, is as Snapshot promises: one picture, each line
\* that the usage text wants once, all or nothing, in spite of a table that
\* changes and of the two requests of lspci; and what ps and mount print is never
\* spoilt.  (The other programs, and ps with two of -A, -r and -p, promise nothing
\* of the kind, and count as showing nothing.)
Status ==
    CASE spoilt -> "spoilt"
      [] ~spoilt /\ pc # "ended" -> "running"
      [] ~spoilt /\ pc = "ended" /\ exit = 0 /\ Promising -> "complete"
      [] OTHER -> "failed"

Promise == INSTANCE Snapshot WITH
    wanted <- {e \in Entry : UsageWants(e)},
    picture <- Range(answer),
    shown <- IF Promising
             THEN [k \in DOMAIN shown |-> [id |-> shown[k].id, thing |-> shown[k].thing]]
             ELSE <<>>,
    status <- Status,
    careful <- ComparesAnswer

PromiseSpec == Promise!Spec

\* The usage text, ps.c:99: with -A, ps prints all processes regardless of user
\* and filters.  (Violated: -r counts with -A too, and -p counts more.)
AllMeansAll ==
    kind = "processes" /\ opts.all /\ pc = "ended" /\ exit = 0 =>
        \A e \in Range(answer) :
            \E k \in DOMAIN shown : shown[k].id = e.id /\ shown[k].thing = e.thing

\* Memory behind the buffer is read only by the two that never look at how
\* much they were answered, and by lspci when the table has outgrown not
\* only its first buffer but the second one too.
SpoiltByGrowth ==
    spoilt => \/ kind \in {"interfaces", "locks"} /\ Len(answer) > Room
              \/ kind = "devices" /\ Room < room /\ room < Len(answer)

\* Nothing is printed that was not so while the program looked: what a
\* line says a number stands for, and the name beside a thread, though it
\* need not be of the thread that was listed.
LinesWereTrue ==
    \A k \in DOMAIN shown :
        /\ kind \in ScanKinds \union {"threads"} => shown[k].thing \in held[shown[k].id]
        /\ shown[k].name \in held[shown[k].id] \union {None, shown[k].thing}

\* What can be told of by a scan.
Tells(thing) ==
    /\ thing \notin Unreadable \union {None}
    /\ kind \in {"uuids", "paths"} => thing \notin Unnamed \union ZeroNamed

\* A scan that ends has printed everything that was there from its beginning
\* to its end, once, whatever came and went beside it: unless blkid has left
\* so many devices open that it may open no other.
ScansSeeWhatLasts ==
    pc = "ended" /\ exit = 0 /\ kind \in ScanKinds /\ files < Files =>
        \A n \in Numbers : \A t \in Things :
            held[n] = {t} /\ Tells(t) =>
                Cardinality({k \in DOMAIN shown : shown[k].id = n /\ shown[k].thing = t}) = 1
=============================================================================
