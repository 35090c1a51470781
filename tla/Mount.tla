------------------------------- MODULE Mount -------------------------------
(***************************************************************************)
(* src/src/mount.c and src/src/umount.c: processes that mount and unmount, *)
(* the kernel's mount table they change, and /etc/mtab, which a mount      *)
(* rewrites from the kernel's table after it has changed that table.       *)
(*                                                                         *)
(* Nothing orders two mount processes: each lists the kernel's table,      *)
(* truncates mtab when it opens it and writes its list when it closes it   *)
(* (the lines fit in one stdio buffer), and these steps interleave with    *)
(* those of the other processes.  umount never touches mtab.               *)
(*                                                                         *)
(* The mount table, the files and the devices are external: the kernel may *)
(* refuse any request, keeps its table in the order of mounting, and lists *)
(* at most as many entries as there is room for while it returns how many  *)
(* there are.  Lines of mtab count as equally long.                        *)
(***************************************************************************)
EXTENDS Naturals, SequencesExt

CONSTANTS
    Procs,       \* the mount and umount processes
    Commands,    \* the command lines they may be given
    Sources,     \* the devices
    Targets,     \* the directories
    UUIDs,       \* the UUIDs a line of fstab or a device may have
    FsOn,        \* the type of the file system on each device
    DevFolder,   \* what readdir() finds in /dev, in that order
    Fstab,       \* the lines of /etc/fstab
    ListMax,     \* how many entries update_mtab() has room for (5 in the code)
    InitMounts,  \* the mount table at the start
    MaxMounts    \* bound: the longest mount table

Types == {"ext", "fat", "dev", "unknown"}   \* "unknown" is the type 0
Flags == {"ro", "relatime", "noatime", "remount"}

\* An entry of the mount table, and what mount() asks the kernel for.
Entry == [source : Sources, target : Targets, type : Types, flags : SUBSET Flags]

\* With -a, with two paths, with one path, and umount's path.
Command ==
    [op : {"fstab"}]
    \union [op : {"mount"}, source : Sources, target : Targets,
            type : Types \union {"any"}, flags : SUBSET Flags]
    \union [op : {"one_path"}, target : Targets, flags : SUBSET Flags]
    \union [op : {"umount"}, target : Targets]

\* A line of fstab: a comment or an empty line, a line without six fields,
\* or six fields of which the first names a device or a UUID.
FstabLineType ==
    [kind : {"comment", "malformed"}]
    \union [kind : {"fields"}, source : Sources \union UUIDs,
            target : Targets, type : Types, flags : SUBSET Flags]

\* An entry of /dev; "none" is the UUID of one that cannot be opened or has
\* no UUID.
DevEntry == [name : Sources, uuid : UUIDs \union {"none"}]

ASSUME NamesAssumption ==
    Sources \cap UUIDs = {} /\ "none" \notin UUIDs /\ "" \notin Sources
ASSUME CommandsAssumption == Commands \subseteq Command
ASSUME FsOnAssumption == FsOn \in [Sources -> Types \union {"none"}]
ASSUME DevFolderAssumption == DevFolder \in Seq(DevEntry)
ASSUME FstabAssumption == Fstab \in Seq(FstabLineType)
ASSUME ListMaxAssumption == ListMax \in Nat
ASSUME InitMountsAssumption == InitMounts \in Seq(Entry)

VARIABLES
    mounts,   \* the kernel's mount table
    mtab,     \* the lines of /etc/mtab
    cmd,      \* what each process was asked to do
    pc,       \* where each process is; "ok" and "failed" are its exit status
    line,     \* the line of fstab a process reads next
    list,     \* the entries update_mtab() of a process has listed
    granted,  \* the requests of a process the kernel has granted, each with
              \* the line of fstab it came from (0: from the command line)
    quiet     \* processes since whose listing the table has not changed and
              \* since whose opening of mtab nobody has written to it

vars == <<mounts, mtab, cmd, pc, line, list, granted, quiet>>

Ended == {"ok", "failed", "killed"}

-----------------------------------------------------------------------------
(* The kernel, as the two programs rely on it.                             *)

\* The kernel grants p's request r: it changes the flags of a mount of the
\* target, or mounts the source if it holds a file system of that type.
Grant(p, r) ==
    /\ IF "remount" \in r.flags
       THEN \E i \in DOMAIN mounts :
               /\ mounts[i].target = r.target
               /\ mounts' = [mounts EXCEPT ![i].flags = r.flags \ {"remount"}]
       ELSE /\ FsOn[r.source] = r.type
            /\ Len(mounts) < MaxMounts
            /\ mounts' = Append(mounts, r)
    /\ granted' = [granted EXCEPT ![p] = Append(@, <<line[p], r>>)]
    /\ quiet' = {}

Refuse == UNCHANGED <<mounts, granted, quiet>>

Goto(p, place) == pc' = [pc EXCEPT ![p] = place]

-----------------------------------------------------------------------------
(* mount with paths.                                                       *)

\* Where the first mount() of main() leads, granted or not.
AfterFirst_tries_on(p, ok) ==
    IF cmd[p].type = "any" THEN "fat" ELSE IF ok THEN "list" ELSE "failed"
AfterFirst(p, ok) ==
    IF ok THEN "list" ELSE IF cmd[p].type = "any" THEN "fat" ELSE "failed"

\* The first mount() of main(): without -t it tries ext; with -t it asks
\* for that type and passes no flags.
MountPaths(p) ==
    /\ pc[p] = "begin" /\ cmd[p].op = "mount"
    /\ LET any == cmd[p].type = "any"
           r   == [source |-> cmd[p].source, target |-> cmd[p].target,
                   type   |-> IF any THEN "ext" ELSE cmd[p].type,
                   flags  |-> IF any THEN cmd[p].flags ELSE {}]
       IN  \/ Grant(p, r) /\ Goto(p, AfterFirst(p, TRUE))
           \/ Refuse /\ Goto(p, AfterFirst(p, FALSE))
    /\ UNCHANGED <<mtab, cmd, line, list>>

\* The second one, when ext was refused.
MountFat(p) ==
    /\ pc[p] = "fat"
    /\ LET r == [source |-> cmd[p].source, target |-> cmd[p].target,
                 type   |-> "fat", flags |-> cmd[p].flags]
       IN  \/ Grant(p, r) /\ Goto(p, "list")
           \/ Refuse /\ Goto(p, "failed")
    /\ UNCHANGED <<mtab, cmd, line, list>>

\* One path only: a remount, or an error.  The source is "", the type 0.
MountOnePath(p) ==
    /\ pc[p] = "begin" /\ cmd[p].op = "one_path"
    /\ LET r == [source |-> "", target |-> cmd[p].target,
                 type   |-> "unknown", flags |-> cmd[p].flags]
       IN  \/ "remount" \in r.flags /\ Grant(p, r) /\ Goto(p, "list")
           \/ Refuse /\ Goto(p, "failed")
    /\ UNCHANGED <<mtab, cmd, line, list>>

-----------------------------------------------------------------------------
(* mount -a.                                                               *)

OpenFstab(p) ==
    /\ pc[p] = "begin" /\ cmd[p].op = "fstab"
    /\ \/ Goto(p, "fstab") /\ line' = [line EXCEPT ![p] = 1]
       \/ Goto(p, "failed") /\ UNCHANGED line
    /\ UNCHANGED <<mounts, mtab, cmd, list, granted, quiet>>

\* The entries of /dev that get_path_from_uuid() finds for a UUID: at most
\* one, since it stops at the first that matches, and none if it meets one
\* that cannot be opened or has no UUID before that.
Found(uuid) ==
    {DevFolder[i].name : i \in {j \in DOMAIN DevFolder :
        /\ DevFolder[j].uuid = uuid
        /\ \A k \in 1..j - 1 : DevFolder[k].uuid \notin {uuid, "none"}}}

\* What the n-th line of fstab asks mount() for, if anything.
Asked(n) ==
    LET l == Fstab[n]
    IN  IF l.kind # "fields" THEN {}
        ELSE {[source |-> d, target |-> l.target, type |-> l.type, flags |-> l.flags] :
                 d \in IF l.source \in UUIDs THEN Found(l.source) ELSE {l.source}}

\* The loop over the lines stops at a malformed one and at the end.
StopsAt_end(n) == n > Len(Fstab)
StopsAt(n) == n > Len(Fstab) \/ Fstab[n].kind = "malformed"

\* Handles one line.  What mount() returns is not looked at.
FstabLine(p) ==
    /\ pc[p] = "fstab"
    /\ ~StopsAt(line[p])
    /\ \/ Refuse
       \/ \E r \in Asked(line[p]) : Grant(p, r)
    /\ line' = [line EXCEPT ![p] = @ + 1]
    /\ UNCHANGED <<mtab, cmd, pc, list>>

\* update_according_fstab() returns 0 wherever the loop stops.
EndOfFstab(p) ==
    /\ pc[p] = "fstab"
    /\ StopsAt(line[p])
    /\ Goto(p, "list")
    /\ UNCHANGED <<mounts, mtab, cmd, line, list, granted, quiet>>

-----------------------------------------------------------------------------
(* update_mtab(), whose result main() ignores.                             *)

\* How an entry is written: an unknown type has no name, and relatime
\* hides noatime.
MtabLine(e) ==
    [source |-> e.source, target |-> e.target, type |-> e.type,
     access |-> IF "ro" \in e.flags THEN "ro" ELSE "rw",
     atime  |-> IF "relatime" \in e.flags THEN "relatime"
                ELSE IF "noatime" \in e.flags THEN "noatime" ELSE "atime"]

MtabLines(entries) == [i \in DOMAIN entries |-> MtabLine(entries[i])]

\* The buffer was large enough for the table.
Fits_unchecked(entries) == TRUE
Fits(entries) == Len(entries) <= ListMax

List(p) ==
    /\ pc[p] = "list"
    /\ \/ /\ Fits(mounts)
          /\ list' = [list EXCEPT ![p] = mounts]
          /\ quiet' = quiet \union {p}
          /\ Goto(p, "open")
       \/ Goto(p, "ok") /\ UNCHANGED <<list, quiet>>
    /\ UNCHANGED <<mounts, mtab, cmd, line, granted>>

\* What fopen(..., "w+") leaves of a file; "r+" would keep all of it.
Opened_rplus(file) == file
Opened(file) == << >>

OpenMtab(p) ==
    /\ pc[p] = "open"
    /\ \/ mtab' = Opened(mtab) /\ Goto(p, "close")
       \/ Goto(p, "ok") /\ UNCHANGED mtab
    /\ UNCHANGED <<mounts, cmd, line, list, granted, quiet>>

\* A file with content written over its beginning.
Overwritten(file, content) ==
    content \o SubSeq(file, Len(content) + 1, Len(file))

\* Writing to mtab ends the quiet of all who have it open.
Written == quiet' = {q \in quiet : pc[q] # "close"}

\* fclose() writes the buffer at the offset of this process, which is 0.
CloseMtab(p) ==
    /\ pc[p] = "close"
    /\ mtab' = Overwritten(mtab, MtabLines(list[p]))
    /\ Written
    /\ Goto(p, "ok")
    /\ UNCHANGED <<mounts, cmd, line, list, granted>>

\* The file system is full: some lines are written, and nobody notices.
CloseMtabShort(p) ==
    /\ pc[p] = "close"
    /\ \E n \in 0..Len(list[p]) - 1 :
          mtab' = Overwritten(mtab, SubSeq(MtabLines(list[p]), 1, n))
    /\ Written
    /\ Goto(p, "ok")
    /\ UNCHANGED <<mounts, cmd, line, list, granted>>

-----------------------------------------------------------------------------
(* umount, and the end of a process at any point.                          *)

Umount(p) ==
    /\ pc[p] = "begin" /\ cmd[p].op = "umount"
    /\ \/ /\ \E i \in DOMAIN mounts : /\ mounts[i].target = cmd[p].target
                                      /\ mounts' = RemoveAt(mounts, i)
          /\ quiet' = {}
          /\ Goto(p, "ok")
       \/ UNCHANGED <<mounts, quiet>> /\ Goto(p, "failed")
    /\ UNCHANGED <<mtab, cmd, line, list, granted>>

Kill(p) ==
    /\ pc[p] \notin Ended
    /\ Goto(p, "killed")
    /\ UNCHANGED <<mounts, mtab, cmd, line, list, granted, quiet>>

-----------------------------------------------------------------------------

Init ==
    /\ mounts = InitMounts
    /\ mtab = MtabLines(InitMounts)
    /\ cmd \in [Procs -> Commands]
    /\ pc = [p \in Procs |-> "begin"]
    /\ line = [p \in Procs |-> 0]
    /\ list = [p \in Procs |-> << >>]
    /\ granted = [p \in Procs |-> << >>]
    /\ quiet = {}

Step(p) ==
    \/ MountPaths(p) \/ MountFat(p) \/ MountOnePath(p)
    \/ OpenFstab(p) \/ FstabLine(p) \/ EndOfFstab(p)
    \/ List(p) \/ OpenMtab(p) \/ CloseMtab(p) \/ CloseMtabShort(p)
    \/ Umount(p)
    \/ Kill(p)

Next == \E p \in Procs : Step(p)

Spec == Init /\ [][Next]_vars

-----------------------------------------------------------------------------
(* Properties.                                                             *)

\* What mount() was asked for may name no source.
Request == [source : Sources \union {""}, target : Targets, type : Types,
            flags : SUBSET Flags]

MtabLineType ==
    [source : Sources, target : Targets, type : Types,
     access : {"ro", "rw"}, atime : {"atime", "relatime", "noatime"}]

\* Every variable is in its range; no process reads an entry that
\* LISTMOUNTS has not filled in.
TypeOK ==
    /\ mounts \in Seq(Entry)
    /\ mtab \in Seq(MtabLineType)
    /\ cmd \in [Procs -> Commands]
    /\ pc \in [Procs -> {"begin", "fat", "fstab", "list", "open", "close"} \union Ended]
    /\ line \in [Procs -> Nat]
    /\ list \in [Procs -> Seq(Entry)]
    /\ granted \in [Procs -> Seq(Nat \X Request)]
    /\ quiet \subseteq Procs
    /\ \A p \in Procs : Len(list[p]) <= ListMax

\* Each process is where what it was asked to do leads.
PlacesMatch ==
    \A p \in Procs : /\ pc[p] = "fat" => cmd[p].op = "mount"
                     /\ pc[p] = "fstab" => cmd[p].op = "fstab" /\ line[p] >= 1

\* Whatever overlapping writers, crashes and unmounts have done to mtab, a
\* mount that writes it leaves it equal to the kernel's table, if the table
\* has not changed since the mount listed it and nobody else has written
\* mtab since the mount opened it.
MountHealsMtab ==
    [][\A p \in Procs : CloseMtab(p) /\ p \in quiet => mtab' = MtabLines(mounts')]_vars

\* Why: a process that is quiet still has the kernel's table in its list,
\* and once it has opened mtab the file is empty.
QuietListIsCurrent ==
    \A p \in quiet :
        /\ pc[p] \in {"open", "close"} => list[p] = mounts
        /\ pc[p] = "close" => mtab = << >>

\* A mount with paths tries types until one is accepted: it mounts once if
\* it exits with 0, and not at all if it exits with 1.
OneMountPerCommand ==
    \A p \in Procs : cmd[p].op \in {"mount", "one_path"} =>
        /\ Len(granted[p]) <= 1
        /\ pc[p] = "ok" => Len(granted[p]) = 1
        /\ pc[p] = "failed" => granted[p] = << >>

\* What a line of fstab may lead to: a device is only taken for one with the
\* UUID on the line if it has that UUID, and if nothing before it in /dev has
\* ended the search.
Serves(n, r) ==
    /\ Fstab[n].kind = "fields"
    /\ r.target = Fstab[n].target
    /\ IF Fstab[n].source \in UUIDs
       THEN \E d \in DOMAIN DevFolder :
               /\ DevFolder[d].name = r.source
               /\ DevFolder[d].uuid = Fstab[n].source
               /\ \A e \in 1..d : DevFolder[e].uuid # "none"
       ELSE r.source = Fstab[n].source

\* mount -a takes the lines of fstab in order, each at most once, and none
\* from the first malformed line on; what it mounts for a UUID has that UUID.
FstabInOrder ==
    \A p \in Procs : cmd[p].op = "fstab" =>
        \A k \in DOMAIN granted[p] :
            LET n == granted[p][k][1]
            IN  /\ \A m \in 1..n : Fstab[m].kind # "malformed"
                /\ \A j \in 1..k - 1 : granted[p][j][1] < n
                /\ Serves(n, granted[p][k][2])

\* Why the last two hold: what p has been granted so far.
GrantsOf(p) ==
    /\ pc[p] = "begin" => granted[p] = << >>
    /\ cmd[p].op \in {"mount", "one_path"} =>
          /\ Len(granted[p]) <= 1
          /\ pc[p] \in {"fat", "failed"} => granted[p] = << >>
          /\ pc[p] \in {"list", "open", "close", "ok"} => Len(granted[p]) = 1
    /\ cmd[p].op = "fstab" =>
          /\ \A m \in 1..line[p] - 1 : Fstab[m].kind # "malformed"
          /\ \A k \in DOMAIN granted[p] :
                /\ granted[p][k][1] < line[p]
                /\ Serves(granted[p][k][1], granted[p][k][2])
                /\ \A j \in 1..k - 1 : granted[p][j][1] < granted[p][k][1]

GrantsMatch == \A p \in Procs : GrantsOf(p)

\* "ro        Mount read-only, if not present, read-write" (mount.c:260):
\* what is mounted on behalf of a command with the flag ro is read-only.
ReadOnlyHonoured ==
    \A p \in Procs : cmd[p].op = "mount" =>
        \A k \in DOMAIN granted[p] :
            "ro" \in cmd[p].flags <=> "ro" \in granted[p][k][2].flags
=============================================================================
